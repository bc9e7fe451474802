----------------------------- MODULE DmaStreams -----------------------------
(***************************************************************************)
(* DMA streams and the drivers that share them: UART transmission and the  *)
(* circular UART reception of src/common/hal_uart_dma.c, the I2C register  *)
(* read of src/vendor/stm32/i2c/i2c.c, on src/vendor/stm32/dma/dma.c.      *)
(*                                                                         *)
(* A client is a UART's transmitter, a UART's receiver or an I2C bus.  What *)
(* a stream does depends on two things set at different times: dev, the    *)
(* peripheral, channel and direction of the last hal_dma_init, and job,    *)
(* the client whose memory M0AR points at.                                 *)
(***************************************************************************)
EXTENDS Integers

CONSTANTS Tx, Rx, Buses,  \* the clients
          Streams,
          Default,        \* [client -> stream]: the reference-manual mapping
          Options,        \* [client -> streams an override may name]
          Watched,        \* streams whose handler the I2C driver attaches
          StopBus,        \* HAL_I2C_1, the bus the I2C handler stops
          XferLen         \* bytes of a transfer and of a receive ring

Clients == Tx \union Rx \union Buses
None == "none"

ASSUME DmaConstants ==
  /\ Default \in [Clients -> Streams] /\ Options \in [Clients -> SUBSET Streams]
  /\ Watched \subseteq Streams /\ StopBus \in Buses

ASSUME ClientsDiffer ==
  /\ None \notin Clients
  /\ Tx \intersect Rx = {} /\ Tx \intersect Buses = {} /\ Rx \intersect Buses = {}

ASSUME DmaSizes == XferLen \in Nat \ {0} /\ XferLen < 65536   \* NDTR has 16 bits

VARIABLES
  bind, tx_armed,              \* get_binding's answer, s_tx_armed
  dev, job, en, ndtr, tc,      \* each stream: see above, EN, NDTR, HTIF or TCIF
  stream_cb, nvic,             \* _stream_cb, the streams whose line is enabled
  rx_len,                      \* s_rx_len
  wire, active,                \* each bus; _active_i2c_dma_config's bus and stream
  dpc,                         \* the thread: idle, or the UART it writes to
  handler,                     \* the stream in whose interrupt the caller's
                               \* callback of an I2C read runs
  got_rx, due,                 \* bytes received; buses whose callback is due
  clash, astray, overlap,      \* clients that shared a stream, were re-bound
  lost, cut                    \* in use, read side by side, ended inside the
                               \* callback that started them, were stopped

stream == <<dev, job, en, ndtr, tc>>
i2c == <<wire, active, due, overlap, lost>>
cpu == <<dpc, handler>>
dmavars == <<bind, tx_armed, stream, stream_cb, nvic, rx_len, i2c, cpu, got_rx,
             clash, astray, cut>>

Sharing(b) == {c \in Clients : \E d \in Clients \ {c} : b[c] = b[d]}

DmaInit ==
  /\ bind = Default /\ tx_armed = [c \in Tx |-> FALSE]
  /\ dev = [s \in Streams |-> None] /\ job = [s \in Streams |-> None]
  /\ en = [s \in Streams |-> FALSE] /\ ndtr = [s \in Streams |-> 0]
  /\ tc = [s \in Streams |-> FALSE]
  /\ stream_cb = [s \in Streams |-> None] /\ nvic = {}
  /\ rx_len = [c \in Rx |-> 0] /\ got_rx = [c \in Rx |-> 0]
  /\ wire = [b \in Buses |-> "free"] /\ active = [bus |-> StopBus, stream |-> None]
  /\ dpc = None /\ handler = None
  /\ due = {} /\ overlap = {} /\ lost = {}
  /\ clash = Sharing(Default) /\ astray = {} /\ cut = {}

-----------------------------------------------------------------------------
(* Bindings.                                                               *)

\* No interrupt is served and the thread is in no call.
Idle == dpc = None /\ handler = None

\* A client whose transmission or ring is set up, whose transfer runs or whose
\* callback is due.
InUse(c) ==
  \/ c \in Tx /\ tx_armed[c]
  \/ c \in Rx /\ rx_len[c] > 0
  \/ c \in due
  \/ \E s \in Streams : en[s] /\ job[s] = c

\* hal_uart_dma_set_binding and hal_i2c_dma_set_binding, with a binding or with
\* NULL for the default.
SetBinding(c, s) ==
  /\ Idle /\ s \in Options[c] \union {Default[c]} /\ s # bind[c]
  /\ bind' = [bind EXCEPT ![c] = s]
  /\ clash' = clash \union Sharing(bind')
  /\ astray' = IF InUse(c) THEN astray \union {c} ELSE astray
  /\ UNCHANGED <<tx_armed, stream, stream_cb, nvic, rx_len, i2c, cpu, got_rx, cut>>

\* hal_dma_init: whatever the stream was doing is stopped.
DmaReinit(c, on) ==
  LET s == bind[c] IN
  /\ dev' = [dev EXCEPT ![s] = c] /\ job' = [job EXCEPT ![s] = c]
  /\ en' = [en EXCEPT ![s] = on] /\ ndtr' = [ndtr EXCEPT ![s] = XferLen]
  /\ tc' = [tc EXCEPT ![s] = FALSE]
  /\ cut' = IF en[s] /\ (c \in Tx \/ job[s] # c) THEN cut \union {job[s]} ELSE cut

-----------------------------------------------------------------------------
(* hal_uart_write_dma.                                                     *)

\* mutant: one flag says that transmission is set up, for every UART
WriteFirstAll(c) ==
  /\ Idle /\ ~tx_armed[c]
  /\ DmaReinit(c, TRUE)
  /\ tx_armed' = [d \in Tx |-> TRUE] /\ nvic' = nvic \union {bind[c]}
  /\ UNCHANGED <<bind, stream_cb, rx_len, i2c, cpu, got_rx, clash, astray>>

\* mutant: every write sets the stream up afresh
WriteFirstAgain(c) ==
  /\ Idle
  /\ DmaReinit(c, TRUE)
  /\ nvic' = nvic \union {bind[c]}
  /\ UNCHANGED <<bind, tx_armed, stream_cb, rx_len, i2c, cpu, got_rx, clash, astray>>

WriteFirst(c) ==
  /\ Idle /\ ~tx_armed[c]
  /\ DmaReinit(c, TRUE)
  /\ tx_armed' = [tx_armed EXCEPT ![c] = TRUE] /\ nvic' = nvic \union {bind[c]}
  /\ UNCHANGED <<bind, stream_cb, rx_len, i2c, cpu, got_rx, clash, astray>>

WriteNext(c) ==
  /\ Idle /\ tx_armed[c] /\ dpc' = c
  /\ UNCHANGED <<bind, tx_armed, stream, stream_cb, nvic, rx_len, i2c, handler, got_rx, clash, astray,
                 cut>>

\* hal_dma_set_memory once the stream is off, then the start.
WriteSent ==
  /\ dpc # None /\ handler = None /\ ~en[bind[dpc]] /\ dpc' = None
  /\ LET s == bind[dpc] IN
       /\ job' = [job EXCEPT ![s] = dpc] /\ ndtr' = [ndtr EXCEPT ![s] = XferLen]
       /\ en' = [en EXCEPT ![s] = TRUE] /\ tc' = [tc EXCEPT ![s] = FALSE]
       /\ nvic' = nvic \union {s}
  /\ UNCHANGED <<bind, tx_armed, dev, stream_cb, rx_len, i2c, handler, got_rx, clash, astray, cut>>

-----------------------------------------------------------------------------
(* hal_uart_init_dma_rx, hal_uart_dma_rx_attach_callback and               *)
(* hal_uart_dma_rx_index.                                                  *)

InitDmaRx(c) ==
  /\ Idle /\ DmaReinit(c, TRUE)
  /\ rx_len' = [rx_len EXCEPT ![c] = XferLen] /\ got_rx' = [got_rx EXCEPT ![c] = 0]
  /\ UNCHANGED <<bind, tx_armed, stream_cb, nvic, i2c, cpu, clash, astray>>

\* A callback enables the line, NULL disables it.
RxCallback(c, on) ==
  /\ Idle
  /\ nvic' = IF on THEN nvic \union {bind[c]} ELSE nvic \ {bind[c]}
  /\ UNCHANGED <<bind, tx_armed, stream, stream_cb, rx_len, i2c, cpu, got_rx, clash, astray,
                 cut>>

\* mutant: NDTR taken for the bytes received
rx_indexLeft(c) == ndtr[bind[c]]
rx_index(c) == (rx_len[c] - ndtr[bind[c]]) % 65536

-----------------------------------------------------------------------------
(* stm32_i2c_dma_read_regs and _i2c_dma_irq_handler.                       *)

\* By the thread, or by the callback of the read before, in the interrupt.
MayRead == Idle \/ handler # None

\* HAL_ERR_TIMEOUT, before the stream is set up: START was sent and no STOP.
I2cNoAnswer(b) ==
  /\ MayRead /\ wire[b] = "free" /\ wire' = [wire EXCEPT ![b] = "held"]
  /\ UNCHANGED <<bind, tx_armed, stream, stream_cb, nvic, rx_len, active, due, overlap, lost,
                 cpu, got_rx, clash, astray, cut>>

\* A busy bus is HAL_ERR_IO.  A stream whose callback is another's is found
\* only after the stream and the bus have been set up, and both stay so.
I2cReadRegs(b) ==
  LET s == bind[b]
      refused == s \in Watched /\ stream_cb[s] \notin {None, "i2c"}
  IN
  /\ MayRead /\ wire[b] = "free"
  /\ DmaReinit(b, ~refused)
  /\ active' = [bus |-> b, stream |-> s]
  /\ wire' = [wire EXCEPT ![b] = IF refused THEN "held" ELSE "reading"]
  /\ due' = IF refused THEN due ELSE due \union {b}
  /\ overlap' = overlap \union (IF due = {} THEN {} ELSE due \union {b})
  /\ IF s \in Watched /\ ~refused
     THEN stream_cb' = [stream_cb EXCEPT ![s] = "i2c"] /\ nvic' = nvic \union {s}
     ELSE UNCHANGED <<stream_cb, nvic>>
  /\ UNCHANGED <<bind, tx_armed, rx_len, lost, cpu, got_rx, clash, astray>>

\* The handler stops StopBus, whichever bus was read.
I2cHandler(done) ==
  /\ wire' = IF done THEN [wire EXCEPT ![StopBus] = "free"] ELSE wire
  /\ due' = IF done THEN due \ {active.bus} ELSE due
  /\ UNCHANGED <<active, overlap, lost>>

\* hal_i2c_deinit and hal_i2c_init, the caller's recovery.
I2cRecover(b) ==
  /\ Idle /\ wire[b] # "free"
  /\ wire' = [wire EXCEPT ![b] = "free"] /\ due' = due \ {b}
  /\ UNCHANGED <<bind, tx_armed, stream, stream_cb, nvic, rx_len, active, overlap, lost, cpu,
                 got_rx, clash, astray, cut>>

\* hal_dma_attach_callback and hal_dma_detach_callback by the application.
AttachCallback(s) ==
  /\ Idle /\ stream_cb[s] = None
  /\ stream_cb' = [stream_cb EXCEPT ![s] = "application"]
  /\ UNCHANGED <<bind, tx_armed, stream, nvic, rx_len, i2c, cpu, got_rx, clash, astray, cut>>

DetachCallback(s) ==
  /\ Idle /\ stream_cb[s] = "application"
  /\ stream_cb' = [stream_cb EXCEPT ![s] = None]
  /\ UNCHANGED <<bind, tx_armed, stream, nvic, rx_len, i2c, cpu, got_rx, clash, astray, cut>>

-----------------------------------------------------------------------------
(* The controller and its interrupt.                                       *)

\* External: an item moves when the peripheral asks for one.
Requests(d) == d \in Tx \/ (d \in Rx /\ rx_len[d] > 0) \/ (d \in Buses /\ wire[d] = "reading")

Transfer(s) ==
  /\ en[s] /\ dev[s] # None /\ Requests(dev[s])
  /\ LET last == ndtr[s] = 1 IN
       /\ ndtr' = [ndtr EXCEPT ![s] = IF last /\ dev[s] \in Rx THEN XferLen ELSE @ - 1]
       /\ en' = [en EXCEPT ![s] = ~last \/ dev[s] \in Rx]
       /\ tc' = [tc EXCEPT ![s] = @ \/ last]
  /\ got_rx' = [c \in Rx |-> IF dev[s] = c THEN (got_rx[c] + 1) % XferLen ELSE got_rx[c]]
  /\ UNCHANGED <<bind, tx_armed, dev, job, stream_cb, nvic, rx_len, i2c, cpu, clash, astray,
                 cut>>

\* mutant: the flags are cleared first, and the callback finds none
StreamIrqCleared(s) ==
  /\ s \in nvic /\ tc[s] /\ handler = None
  /\ tc' = [tc EXCEPT ![s] = FALSE]
  /\ UNCHANGED <<bind, tx_armed, dev, job, en, ndtr, stream_cb, nvic, rx_len, i2c, cpu, got_rx,
                 clash, astray, cut>>

\* DMAx_Streamy_IRQHandler: the stream's callback and then all of the stream's
\* flags.  The I2C callback may call the caller's, which may start the next
\* read: the flags are then cleared in a step of their own, whatever it did.
StreamIrq(s) ==
  LET done == stream_cb[s] = "i2c" /\ active.stream # None /\ tc[active.stream] IN
  /\ s \in nvic /\ tc[s] /\ handler = None
  /\ handler' = IF done THEN s ELSE None
  /\ I2cHandler(done)
  /\ tc' = [r \in Streams |-> tc[r] /\ r # (IF done THEN active.stream ELSE s)]
  /\ UNCHANGED <<bind, tx_armed, dev, job, en, ndtr, stream_cb, nvic, rx_len, dpc, got_rx,
                 clash, astray, cut>>

StreamIrqEnd ==
  LET s == handler IN
  /\ s # None /\ handler' = None
  /\ tc' = [tc EXCEPT ![s] = FALSE]
  /\ lost' = IF tc[s] /\ s = active.stream THEN lost \union {active.bus} ELSE lost
  /\ UNCHANGED <<bind, tx_armed, dev, job, en, ndtr, stream_cb, nvic, rx_len, wire, active, due,
                 overlap, dpc, got_rx, clash, astray, cut>>

-----------------------------------------------------------------------------
DmaSteps(clients) ==
  \/ \E c \in clients, s \in Streams : SetBinding(c, s)
  \/ \E c \in clients \intersect Tx : WriteFirst(c) \/ WriteNext(c)
  \/ WriteSent
  \/ \E c \in clients \intersect Rx : InitDmaRx(c) \/ (\E on \in BOOLEAN : RxCallback(c, on))
  \/ \E b \in clients \intersect Buses : I2cReadRegs(b) \/ I2cNoAnswer(b) \/ I2cRecover(b)
  \/ \E s \in Watched : AttachCallback(s) \/ DetachCallback(s)
  \/ \E s \in Streams : Transfer(s) \/ StreamIrq(s)
  \/ StreamIrqEnd

DmaSpec == DmaInit /\ [][DmaSteps(Clients)]_dmavars

\* The thread goes on, an enabled stream moves its items and a handler returns.
\* An enabled line's interrupt is served.
DmaFairness ==
  WF_dmavars(WriteSent) /\ WF_dmavars(StreamIrqEnd)
    /\ \A s \in Streams : WF_dmavars(Transfer(s)) /\ WF_dmavars(StreamIrq(s))

-----------------------------------------------------------------------------
\* Clients that have had their stream to themselves, on the binding it was
\* configured through.
Alone(c) == c \notin clash /\ c \notin astray

\* What a UART is given to send leaves on that UART: the stream was set up for
\* it, even when it was set up long before.
OwnWire == \A s \in Streams : en[s] /\ job[s] \in Tx /\ Alone(job[s]) => dev[s] = job[s]

\* No transfer is stopped before its end, as long as streams are not shared.
NotCut == \A c \in cut : ~Alone(c)

\* The index of the circular buffer is where the next byte will be stored.
IndexExact == \A c \in Rx : Alone(c) /\ rx_len[c] > 0 => rx_index(c) = got_rx[c]

\* The callback of a read that returned HAL_OK comes, on the bus the handler
\* knows and on a stream it is attached to, when no other bus reads meanwhile
\* and the stream stays the bus's own.  A read that ends inside the callback
\* that started it is the exception (lost): its flags are cleared unseen.
CallbackComes ==
  (StopBus \in due /\ active.stream \in Watched)
    ~> (StopBus \notin due \/ StopBus \in overlap \union lost \/ ~Alone(StopBus))

-----------------------------------------------------------------------------
\* What the comment above USART6's binding says: no other client drives the
\* stream the UART's data leaves by.
ConflictFree == \A s \in Streams : en[s] /\ job[s] \in Tx => dev[s] = job[s]
=============================================================================
