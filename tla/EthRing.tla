------------------------------ MODULE EthRing ------------------------------
(***************************************************************************)
(* The Ethernet driver of src/vendor/stm32/eth/eth_f7.c: two rings of      *)
(* descriptors shared with the MAC's DMA, which reads and writes memory    *)
(* behind the CPU's data cache.  A line may be loaded into the cache at    *)
(* any time, by the CPU running ahead; the driver invalidates before it    *)
(* reads and cleans after it writes.  What the DMA sees of a store is its  *)
(* clean, so the two are one step here and no line stays dirty.            *)
(*                                                                         *)
(* hal_eth_receive is called either by a polling caller or, when a         *)
(* callback was attached before hal_eth_start, by the callback, which      *)
(* takes frames until it is told that there is none.  A damaged frame is   *)
(* answered as if there were none: under Stops a callback may end there.    *)
(***************************************************************************)
EXTENDS Naturals, Sequences

CONSTANTS
  Frames,   \* the contents a frame can have
  RX,       \* NAVHAL_ETH_RX_DESC_COUNT
  TX,       \* NAVHAL_ETH_TX_DESC_COUNT
  Stops     \* the callback may take HAL_OK with no length for an empty ring

ASSUME RingAssumption == RX \in Nat \ {0} /\ TX \in Nat \ {0} /\ Stops \in BOOLEAN

VARIABLES
  initialized, started,         \* _initialized, _started
  cb,         \* _cb is not NULL
  irqOn,      \* DMAIER: interrupts enabled by the last start
  rxDesc, rxBuf, txDesc, txBuf, \* the rings, as memory holds them
  cache,      \* the lines of rxDesc, rxBuf and txDesc the CPU has loaded
  rxIdx, txIdx,                 \* _rx_idx, _tx_idx
  rxPc, txPc, \* what hal_eth_receive and hal_eth_send do next
  dmaRx, dmaTx,                 \* the descriptors the DMA is at
  asleep,     \* the transmit DMA is suspended until it is poked
  rs,         \* DMASR.RS
  irq,        \* what the interrupt handler does next
  due,        \* history: frames there as the handler read DMASR, not yet taken
  wire, got   \* history: the last frame sent, the last receive's outcome

life  == <<initialized, started, cb, irqOn>>
rings == <<rxDesc, rxBuf, txDesc, txBuf, cache, rxIdx, txIdx>>
dma   == <<dmaRx, dmaTx, asleep>>
isr   == <<rs, irq, due>>
vars  == <<life, rings, rxPc, txPc, dma, isr, wire, got>>

Rx == 0..(RX - 1)
Tx == 0..(TX - 1)
Nothing == "nothing"
Absent  == "absent"
Status  == {"dma", "ok", "es"}   \* of a receive descriptor: OWN, or a or an error

Lines == ({"rxDesc", "rxBuf"} \X Rx) \cup ({"txDesc"} \X Tx)

Memory(l) == CASE l[1] = "rxDesc" -> rxDesc[l[2]]
               [] l[1] = "rxBuf"  -> rxBuf[l[2]]
               [] l[1] = "txDesc" -> txDesc[l[2]]

\* what the CPU reads, and what it has loaded once it has read it
Load(l)   == IF cache[l] = Absent THEN Memory(l) ELSE cache[l]
Loaded(l) == [cache EXCEPT ![l] = Load(l)]

Invalidate(l) == [cache EXCEPT ![l] = Absent]

\* of size descriptors from first, how many in a row are in S
Run(desc, first, size, S) ==
  CHOOSE k \in 0..size :
    /\ \A j \in 0..(k - 1) : desc[(first + j) % size] \in S
    /\ k < size => desc[(first + k) % size] \notin S

-----------------------------------------------------------------------------
(* Initialisation and its opposite.                                        *)

Settled == rxPc = "idle" /\ txPc = "idle" /\ irq = "idle"

InitRings ==
  /\ rxDesc' = [i \in Rx |-> "dma"] /\ txDesc' = [i \in Tx |-> "cpu"]
  /\ cache' = [l \in Lines |-> CASE l[1] = "rxDesc" -> "dma"
                                 [] l[1] = "txDesc" -> "cpu"
                                 [] OTHER -> cache[l]]
  /\ rxIdx' = 0 /\ txIdx' = 0 /\ dmaRx' = 0 /\ dmaTx' = 0 /\ asleep' = FALSE
  /\ UNCHANGED <<rxBuf, txBuf>>

\* the waits for the resets of the MAC and the PHY are taken to end
Initialize ==
  /\ Settled /\ ~initialized /\ initialized' = TRUE
  /\ InitRings /\ rs' = FALSE
  /\ UNCHANGED <<started, cb, irqOn, rxPc, txPc, irq, due, wire, got>>

Start ==
  /\ Settled /\ initialized /\ started' = TRUE /\ irqOn' = cb
  /\ UNCHANGED <<initialized, cb, rings, rxPc, txPc, dma, isr, wire, got>>

Stop ==
  /\ Settled /\ started /\ started' = FALSE
  /\ UNCHANGED <<initialized, cb, irqOn, rings, rxPc, txPc, dma, isr, wire, got>>

Deinit ==
  /\ Settled /\ initialized /\ started' = FALSE /\ initialized' = FALSE
  /\ UNCHANGED <<cb, irqOn, rings, rxPc, txPc, dma, isr, wire, got>>

\* attached before start, as the header asks, and detached at any time
SetCallback ==
  /\ irq = "idle" /\ (cb \/ ~started) /\ cb' = ~cb
  /\ UNCHANGED <<initialized, started, irqOn, rings, rxPc, txPc, dma, isr, wire, got>>

-----------------------------------------------------------------------------
(* hal_eth_send, by the one thread, which the interrupt handler preempts.  *)

Thread == irq = "idle" /\ rxPc = "idle"

SendCall ==
  /\ txPc = "idle" /\ started /\ Thread /\ txPc' = "look"
  /\ cache' = Invalidate(<<"txDesc", txIdx>>)
  /\ UNCHANGED <<life, rxDesc, rxBuf, txDesc, txBuf, rxIdx, txIdx, rxPc, dma, isr, wire, got>>

\* HAL_ERR_BUSY, or the descriptor is the CPU's
SendLook ==
  LET l == <<"txDesc", txIdx>> IN
  /\ txPc = "look" /\ Thread /\ cache' = Loaded(l)
  /\ txPc' = IF Load(l) = "dma" THEN "idle" ELSE "copy"
  /\ UNCHANGED <<life, rxDesc, rxBuf, txDesc, txBuf, rxIdx, txIdx, rxPc, dma, isr, wire, got>>

SendCopy ==
  /\ txPc = "copy" /\ Thread /\ txPc' = "hand"
  /\ \E f \in Frames : txBuf' = [txBuf EXCEPT ![txIdx] = f]
  /\ UNCHANGED <<life, rxDesc, rxBuf, txDesc, cache, rxIdx, txIdx, rxPc, dma, isr, wire, got>>

HandOver ==
  /\ txPc = "hand" /\ Thread /\ txPc' = "idle"
  /\ txDesc' = [txDesc EXCEPT ![txIdx] = "dma"]
  /\ cache' = [cache EXCEPT ![<<"txDesc", txIdx>>] = "dma"]
  /\ txIdx' = (txIdx + 1) % TX

\* mutant: the descriptor is handed over and the DMA not poked
SendUnpoked ==
  /\ HandOver
  /\ UNCHANGED <<life, rxDesc, rxBuf, txBuf, rxIdx, rxPc, dma, isr, wire, got>>

SendHand ==
  /\ HandOver /\ asleep' = FALSE
  /\ UNCHANGED <<life, rxDesc, rxBuf, txBuf, rxIdx, rxPc, dmaRx, dmaTx, isr, wire, got>>

-----------------------------------------------------------------------------
(* hal_eth_receive.                                                        *)

\* a caller that polls, or the callback
MayReceive ==
  started /\ (irq = "drain" \/ (irq = "idle" /\ ~irqOn /\ txPc = "idle"))

\* mutant: the descriptor is read as the cache holds it
ReceiveStale ==
  /\ rxPc = "idle" /\ MayReceive /\ rxPc' = "look"
  /\ UNCHANGED <<life, rings, txPc, dma, isr, wire, got>>

ReceiveCall ==
  /\ rxPc = "idle" /\ MayReceive /\ rxPc' = "look"
  /\ cache' = Invalidate(<<"rxDesc", rxIdx>>)
  /\ UNCHANGED <<life, rxDesc, rxBuf, txDesc, txBuf, rxIdx, txIdx, txPc, dma, isr, wire, got>>

\* nothing pending; the callback's loop then ends
ReceiveNone ==
  LET l == <<"rxDesc", rxIdx>> IN
  /\ rxPc = "look" /\ Load(l) = "dma" /\ cache' = Loaded(l) /\ rxPc' = "idle"
  /\ irq' = IF irq = "drain" THEN "clear" ELSE irq
  /\ UNCHANGED <<life, rxDesc, rxBuf, txDesc, txBuf, rxIdx, txIdx, txPc, dma, rs, due, wire, got>>

\* a frame with an error, or longer than max_len: HAL_OK with no length, or HAL_ERR_NO_MEM
ReceiveDrop ==
  LET l == <<"rxDesc", rxIdx>> IN
  /\ rxPc = "look" /\ Load(l) # "dma" /\ cache' = Loaded(l)
  /\ rxPc' = "return" /\ got' = Nothing
  /\ UNCHANGED <<life, rxDesc, rxBuf, txDesc, txBuf, rxIdx, txIdx, txPc, dma, isr, wire>>

\* mutant: the descriptor is given back before its frame is copied out
ReceiveEarly ==
  LET l == <<"rxDesc", rxIdx>> IN
  /\ rxPc = "look" /\ Load(l) = "ok" /\ rxPc' = "copy"
  /\ rxDesc' = [rxDesc EXCEPT ![rxIdx] = "dma"]
  /\ cache' = [cache EXCEPT ![l] = "dma", ![<<"rxBuf", rxIdx>>] = Absent]
  /\ UNCHANGED <<life, rxBuf, txDesc, txBuf, rxIdx, txIdx, txPc, dma, isr, wire, got>>

ReceiveLook ==
  LET l == <<"rxDesc", rxIdx>> IN
  /\ rxPc = "look" /\ Load(l) = "ok" /\ rxPc' = "copy"
  /\ cache' = [Loaded(l) EXCEPT ![<<"rxBuf", rxIdx>>] = Absent]
  /\ UNCHANGED <<life, rxDesc, rxBuf, txDesc, txBuf, rxIdx, txIdx, txPc, dma, isr, wire, got>>

ReceiveCopy ==
  LET l == <<"rxBuf", rxIdx>> IN
  /\ rxPc = "copy" /\ got' = Load(l) /\ cache' = Loaded(l) /\ rxPc' = "return"
  /\ UNCHANGED <<life, rxDesc, rxBuf, txDesc, txBuf, rxIdx, txIdx, txPc, dma, isr, wire>>

\* The answer to a damaged frame has no length either: a callback that takes it
\* for the end of the ring does not count on what is behind.
ReceiveReturn ==
  /\ rxPc = "return" /\ rxPc' = "idle"
  /\ rxDesc' = [rxDesc EXCEPT ![rxIdx] = "dma"]
  /\ cache' = [cache EXCEPT ![<<"rxDesc", rxIdx>>] = "dma"]
  /\ rxIdx' = (rxIdx + 1) % RX
  /\ \/ irq' = irq /\ due' = IF due > 0 THEN due - 1 ELSE 0
     \/ /\ Stops /\ irq = "drain" /\ rxDesc[rxIdx] = "es"
        /\ irq' = "clear" /\ due' = 0
  /\ UNCHANGED <<life, rxBuf, txDesc, txBuf, txIdx, txPc, dma, rs, wire, got>>

-----------------------------------------------------------------------------
(* The DMA, and the CPU running ahead.                                     *)

\* a frame that finds no descriptor is missed
DmaReceive(f) ==
  /\ started /\ rxDesc[dmaRx] = "dma"
  /\ \E status \in {"ok", "es"} : rxDesc' = [rxDesc EXCEPT ![dmaRx] = status]
  /\ rxBuf' = [rxBuf EXCEPT ![dmaRx] = f]
  /\ dmaRx' = (dmaRx + 1) % RX /\ rs' = TRUE
  /\ UNCHANGED <<life, txDesc, txBuf, cache, rxIdx, txIdx, rxPc, txPc, dmaTx, asleep, irq, due, wire, got>>

DmaTransmit ==
  /\ started /\ ~asleep /\ txDesc[dmaTx] = "dma"
  /\ wire' = txBuf[dmaTx] /\ txDesc' = [txDesc EXCEPT ![dmaTx] = "cpu"]
  /\ dmaTx' = (dmaTx + 1) % TX
  /\ UNCHANGED <<life, rxDesc, rxBuf, txBuf, cache, rxIdx, txIdx, rxPc, txPc, dmaRx, asleep, isr, got>>

DmaSleep ==
  /\ started /\ ~asleep /\ txDesc[dmaTx] = "cpu" /\ asleep' = TRUE
  /\ UNCHANGED <<life, rings, rxPc, txPc, dmaRx, dmaTx, isr, wire, got>>

Prefetch(l) ==
  /\ cache[l] = Absent /\ cache' = Loaded(l)
  /\ UNCHANGED <<life, rxDesc, rxBuf, txDesc, txBuf, rxIdx, txIdx, rxPc, txPc, dma, isr, wire, got>>

-----------------------------------------------------------------------------
(* _eth_irq_handler: read DMASR, call back, clear the bits that were read. *)
(* Only RS matters here: the other events move no frame.                   *)

IrqEnter ==
  /\ started /\ irqOn /\ irq = "idle" /\ rs
  /\ irq' = IF cb THEN "drain" ELSE "clear"
  /\ due' = IF cb THEN Run(rxDesc, rxIdx, RX, {"ok", "es"}) ELSE 0
  /\ UNCHANGED <<life, rings, rxPc, txPc, dma, rs, wire, got>>

IrqClear ==
  /\ irq = "clear" /\ irq' = "idle" /\ rs' = FALSE
  /\ UNCHANGED <<life, rings, rxPc, txPc, dma, due, wire, got>>

-----------------------------------------------------------------------------
Init ==
  /\ initialized = FALSE /\ started = FALSE /\ cb = FALSE /\ irqOn = FALSE
  /\ rxDesc = [i \in Rx |-> "cpu"] /\ rxBuf = [i \in Rx |-> Nothing]
  /\ txDesc = [i \in Tx |-> "cpu"] /\ txBuf = [i \in Tx |-> Nothing]
  /\ cache = [l \in Lines |-> Absent]
  /\ rxIdx = 0 /\ txIdx = 0 /\ dmaRx = 0 /\ dmaTx = 0 /\ asleep = FALSE
  /\ rxPc = "idle" /\ txPc = "idle"
  /\ rs = FALSE /\ irq = "idle" /\ due = 0 /\ wire = Nothing /\ got = Nothing

Lifecycle == Initialize \/ Start \/ Stop \/ Deinit \/ SetCallback
Sending   == SendLook \/ SendCopy \/ SendHand
Receiving == ReceiveCall \/ ReceiveNone \/ ReceiveDrop \/ ReceiveLook \/ ReceiveCopy \/ ReceiveReturn
Handler   == IrqEnter \/ IrqClear
Wire      == DmaTransmit \/ DmaSleep

Next ==
  \/ Lifecycle \/ Sending \/ Receiving \/ Handler \/ Wire
  \/ SendCall \/ \E f \in Frames : DmaReceive(f)
  \/ \E l \in Lines : Prefetch(l)

(* The caller polls for ever and a call runs to its end; the handler runs  *)
(* when its interrupt is pending; the DMA serves what it was given.        *)
Fairness ==
  WF_vars(Sending) /\ WF_vars(Receiving) /\ WF_vars(Handler) /\ WF_vars(Wire)

Spec == Init /\ [][Next]_vars /\ Fairness

-----------------------------------------------------------------------------
(* What the rings stand for: the frames between the two sides' positions.  *)

Contents(buf, first, size, k) == [j \in 1..k |-> buf[(first + j - 1) % size]]

Out == Contents(txBuf, dmaTx, TX, Run(txDesc, dmaTx, TX, {"dma"}))
In  == Contents(rxBuf, rxIdx, RX, Run(rxDesc, rxIdx, RX, {"ok", "es"}))

\* a frame is taken when it has been copied out, or judged
Port == INSTANCE EthPort WITH
  out <- Out, in <- IF rxPc = "return" THEN SubSeq(In, 2, Len(In)) ELSE In

(* hal_eth.h: the driver is two queues of frames, whatever the cache has   *)
(* loaded and wherever the DMA stands.                                     *)
Implements == Port!PortSpec

(* hal_eth.h:202: the callback takes every frame that was in the ring when *)
(* its event was read, before the handler clears that event, but for those *)
(* behind a damaged one that it took for the end of the ring.              *)
CallbackDrains == irq = "clear" => due = 0

(* eth_f7.c:448: a frame hal_eth_send took goes out, if the MAC is left    *)
(* running: no descriptor is handed over while the DMA sleeps past it.     *)
Transmitted == <>[]started => []<>(Out = <<>>) \/ []<><<DmaTransmit>>_vars

(* eth_f7.c:465: with a caller that polls, every frame received is taken.  *)
PolledDelivered ==
  <>[](started /\ ~irqOn) => []<>(In = <<>>) \/ []<><<ReceiveReturn>>_vars

(* hal_eth.h: with a callback attached, HAL_ETH_EVENT_RX says that "One or *)
(* more frames are available to receive", so every frame is taken too.     *)
CallbackDelivered ==
  <>[](started /\ irqOn /\ cb) => []<>(In = <<>>) \/ []<><<ReceiveReturn>>_vars
=============================================================================
