---------------------------- MODULE DriverProofs ----------------------------
(***************************************************************************)
(* For every set of UARTs, I2C buses and streams with any default mapping  *)
(* and any overrides: a DMA client that has had its stream to itself sends *)
(* on its own wire and is never stopped early.  Whatever the peripheral    *)
(* does between two steps of the driver: an SD transfer reported done is   *)
(* done, an I2C read that is returned is what was sent.  For every tick    *)
(* period, wait, width and timer: how long a delay and a time-out last,    *)
(* and that a period a timer is given fits it.                             *)
(***************************************************************************)
EXTENDS DmaStreams, SdTransfer, I2cMaster, Timers, NumberLemmas

-----------------------------------------------------------------------------
(* The DMA streams.                                                        *)

\* the part of the state the argument is about
DmaTyped ==
  /\ bind \in [Clients -> Streams] /\ tx_armed \in [Tx -> BOOLEAN]
  /\ dev \in [Streams -> Clients \union {None}] /\ job \in [Streams -> Clients \union {None}]
  /\ en \in [Streams -> BOOLEAN] /\ ndtr \in [Streams -> Int]
  /\ rx_len \in [Rx -> {0, XferLen}] /\ got_rx \in [Rx -> Int]
  /\ dpc \in Tx \union {None}

Armed(c) == (c \in Tx /\ tx_armed[c]) \/ (c \in Rx /\ rx_len[c] > 0)

\* what is known of a stream whoever uses it
Owned ==
  /\ \A s \in Streams : en[s] => job[s] \in Clients
  /\ \A s \in Streams : job[s] \in Tx => tx_armed[job[s]]
  /\ \A s \in Streams : dev[s] \in Rx => rx_len[dev[s]] > 0
  /\ dpc # None => tx_armed[dpc]

\* a client alone on its stream is found there and nowhere else
AtHome ==
  \A c \in Clients : Alone(c) =>
    /\ Armed(c) => dev[bind[c]] = c
    /\ \A s \in Streams : en[s] /\ job[s] = c => s = bind[c]
    /\ \A s \in Streams : c \in Rx /\ dev[s] = c => s = bind[c]

\* the counter of a ring and the bytes received
Counting ==
  \A c \in Rx : Alone(c) /\ rx_len[c] > 0 =>
    ndtr[bind[c]] \in 1..XferLen /\ got_rx[c] = XferLen - ndtr[bind[c]]

Recorded == Sharing(bind) \subseteq clash

DmaInv == DmaTyped /\ Owned /\ AtHome /\ Counting /\ Recorded /\ NotCut

(* Clients that share no stream have different ones.                       *)
LEMMA OtherStream ==
  ASSUME Recorded, NEW c \in Clients, NEW d \in Clients, c # d, Alone(c)
  PROVE  bind[c] # bind[d]
  BY DEF Recorded, Sharing, Alone

(* At start-up nothing is set up and every counter is zero.                *)
LEMMA DmaInitHolds == DmaInit => DmaInv
  <1> SUFFICES ASSUME DmaInit PROVE DmaInv
    OBVIOUS
  <1>1. /\ bind = Default /\ tx_armed = [c \in Tx |-> FALSE] /\ dpc = None
        /\ dev = [s \in Streams |-> None] /\ job = [s \in Streams |-> None]
        /\ en = [s \in Streams |-> FALSE] /\ ndtr = [s \in Streams |-> 0]
        /\ rx_len = [c \in Rx |-> 0] /\ got_rx = [c \in Rx |-> 0]
        /\ clash = Sharing(Default) /\ cut = {}
    BY Zenon DEF DmaInit
  <1>2. Default \in [Clients -> Streams]
    BY DmaConstants, Zenon DEF DmaConstants
  <1>3. DmaTyped
    BY <1>1, <1>2 DEF DmaTyped
  <1>4. Owned
    BY <1>1, ClientsDiffer DEF Owned, Clients
  <1>5. AtHome
    BY <1>1, <1>2, ClientsDiffer DEF AtHome, Armed, Clients
  <1>6. Counting /\ NotCut /\ Recorded
    BY <1>1 DEF Counting, NotCut, Recorded
  <1> QED BY <1>3, <1>4, <1>5, <1>6 DEF DmaInv

(* Steps that touch neither a stream's set-up nor a binding.               *)
LEMMA QuietStep ==
  ASSUME DmaInv,
         UNCHANGED <<bind, tx_armed, dev, job, en, ndtr, rx_len, got_rx, clash, astray, cut>>,
         dpc' = dpc \/ (dpc' \in Tx /\ tx_armed[dpc'])
  PROVE  DmaInv'
  <1>1. DmaTyped'
    BY DEF DmaInv, DmaTyped
  <1>2. Owned'
    BY DEF DmaInv, Owned
  <1>3. AtHome' /\ Counting' /\ NotCut'
    BY DEF DmaInv, AtHome, Counting, NotCut, Armed, Alone
  <1>4. Recorded'
    BY DEF DmaInv, Recorded, Sharing
  <1> QED BY <1>1, <1>2, <1>3, <1>4 DEF DmaInv

(* hal_dma_init for a transmitter, a receiver or a bus.                    *)
LEMMA ReinitStep ==
  ASSUME DmaInv, NEW c \in Clients, NEW on \in BOOLEAN, DmaReinit(c, on),
         UNCHANGED <<bind, dpc, clash, astray>>,
         \/ /\ c \in Tx /\ ~tx_armed[c] /\ tx_armed' = [tx_armed EXCEPT ![c] = TRUE]
            /\ UNCHANGED <<rx_len, got_rx>>
         \/ /\ c \in Rx /\ rx_len' = [rx_len EXCEPT ![c] = XferLen]
            /\ got_rx' = [got_rx EXCEPT ![c] = 0] /\ UNCHANGED tx_armed
         \/ c \in Buses /\ UNCHANGED <<tx_armed, rx_len, got_rx>>
  PROVE  DmaInv'
  <1> DEFINE s == bind[c]
  <1> USE ClientsDiffer
  <1>0. /\ s \in Streams /\ DmaTyped /\ Owned /\ AtHome /\ Counting /\ Recorded /\ NotCut
        /\ None \notin Clients
    BY DEF DmaInv, DmaTyped
  <1>1. /\ dev' = [dev EXCEPT ![s] = c] /\ job' = [job EXCEPT ![s] = c]
        /\ en' = [en EXCEPT ![s] = on] /\ ndtr' = [ndtr EXCEPT ![s] = XferLen]
        /\ cut' = IF en[s] /\ (c \in Tx \/ job[s] # c) THEN cut \union {job[s]} ELSE cut
    BY DEF DmaReinit
  <1>2. \A d \in Clients : Alone(d)' <=> Alone(d)
    BY DEF Alone
  <1>3. \A d \in Clients : d # c /\ Alone(d) => bind[d] # s
    BY <1>0, OtherStream
  <1>4. DmaTyped'
    <2>1. /\ dev' \in [Streams -> Clients \union {None}]
          /\ job' \in [Streams -> Clients \union {None}]
          /\ en' \in [Streams -> BOOLEAN] /\ ndtr' \in [Streams -> Int]
      BY <1>0, <1>1, DmaSizes DEF DmaTyped
    <2>2. tx_armed' \in [Tx -> BOOLEAN]
      <3>1. tx_armed' = tx_armed \/ tx_armed' = [tx_armed EXCEPT ![c] = TRUE]
        OBVIOUS
      <3> QED BY <1>0, <3>1, Zenon DEF DmaTyped
    <2>3. rx_len' \in [Rx -> {0, XferLen}]
      BY <1>0 DEF DmaTyped
    <2>4. got_rx' \in [Rx -> Int]
      BY <1>0 DEF DmaTyped
    <2> QED BY <1>0, <2>1, <2>2, <2>3, <2>4 DEF DmaTyped
  <1>5. Owned'
    BY <1>0, <1>1, DmaSizes DEF Owned, DmaTyped, Clients
  <1>6. \A d \in Clients : d # c => Armed(d)' = Armed(d)
    BY <1>0 DEF Armed, DmaTyped, Clients
  <1>7. AtHome'
    <2> SUFFICES ASSUME NEW d \in Clients, Alone(d)
                 PROVE  /\ Armed(d)' => dev'[bind[d]] = d
                        /\ \A r \in Streams : en'[r] /\ job'[r] = d => r = bind[d]
                        /\ \A r \in Streams : d \in Rx /\ dev'[r] = d => r = bind[d]
      BY <1>2 DEF AtHome
    <2>1. CASE d = c
      BY <2>1, <1>0, <1>1 DEF AtHome, DmaTyped
    <2>2. CASE d # c
      BY <2>2, <1>0, <1>1, <1>3, <1>6 DEF AtHome, DmaTyped
    <2> QED BY <2>1, <2>2
  <1>8. Counting'
    <2> SUFFICES ASSUME NEW d \in Rx, Alone(d), rx_len'[d] > 0
                 PROVE  ndtr'[bind[d]] \in 1..XferLen /\ got_rx'[d] = XferLen - ndtr'[bind[d]]
      BY <1>2 DEF Counting, Clients
    <2>1. CASE d = c
      BY <2>1, <1>0, <1>1, DmaSizes DEF DmaTyped
    <2>2. CASE d # c
      <3>1. rx_len[d] > 0 /\ got_rx'[d] = got_rx[d]
        BY <2>2, <1>0 DEF DmaTyped
      <3>2. bind[d] # s /\ bind[d] \in Streams
        BY <2>2, <1>0, <1>3 DEF DmaTyped, Clients
      <3> QED BY <3>1, <3>2, <1>0, <1>1 DEF Counting, DmaTyped
    <2> QED BY <2>1, <2>2
  <1>9. Recorded'
    BY <1>0 DEF Recorded, Sharing
  <1>10. NotCut'
    <2> SUFFICES ASSUME en[s], c \in Tx \/ job[s] # c PROVE ~Alone(job[s])
      BY <1>0, <1>1 DEF NotCut, Alone
    <2>1. job[s] \in Clients
      BY <1>0 DEF Owned
    <2>2. CASE job[s] # c
      BY <2>1, <2>2, <1>0, <1>3 DEF AtHome
    <2>3. CASE job[s] = c /\ c \in Tx
      BY <2>3, <1>0 DEF Owned
    <2> QED BY <2>2, <2>3
  <1> QED BY <1>4, <1>5, <1>7, <1>8, <1>9, <1>10 DEF DmaInv

(* hal_uart_dma_set_binding and hal_i2c_dma_set_binding.                   *)
LEMMA BindingStep ==
  ASSUME DmaInv, NEW c \in Clients, NEW s \in Streams, SetBinding(c, s)
  PROVE  DmaInv'
  <1> USE ClientsDiffer
  <1>0. DmaTyped /\ Owned /\ AtHome /\ Counting /\ Recorded /\ NotCut
    BY DEF DmaInv
  <1>1. /\ bind' = [bind EXCEPT ![c] = s] /\ clash' = clash \union Sharing(bind')
        /\ astray' = IF InUse(c) THEN astray \union {c} ELSE astray
        /\ UNCHANGED <<tx_armed, dev, job, en, ndtr, rx_len, dpc, got_rx, cut>>
    BY DEF SetBinding, stream, cpu
  <1>2. \A d \in Clients : Alone(d)' => Alone(d)
    BY <1>1 DEF Alone
  <1>3. DmaTyped'
    BY <1>0, <1>1 DEF DmaTyped
  <1>4. Owned' /\ Recorded'
    BY <1>0, <1>1 DEF Owned, Recorded
  <1>5. NotCut'
    BY <1>0, <1>1 DEF NotCut, Alone
  <1>6. Alone(c)' => ~InUse(c)
    BY <1>1 DEF Alone
  <1>7. AtHome'
    <2> SUFFICES ASSUME NEW d \in Clients, Alone(d)'
                 PROVE  /\ Armed(d) => dev[bind'[d]] = d
                        /\ \A r \in Streams : en[r] /\ job[r] = d => r = bind'[d]
                        /\ \A r \in Streams : d \in Rx /\ dev[r] = d => r = bind'[d]
      BY <1>1 DEF AtHome, Armed
    <2>1. CASE d = c
      BY <2>1, <1>0, <1>6 DEF InUse, Armed, Owned
    <2>2. CASE d # c
      <3>1. bind'[d] = bind[d] /\ Alone(d)
        BY <2>2, <1>0, <1>1, <1>2 DEF DmaTyped
      <3> QED BY <3>1, <1>0 DEF AtHome
    <2> QED BY <2>1, <2>2
  <1>8. Counting'
    <2> SUFFICES ASSUME NEW d \in Rx, Alone(d)', rx_len[d] > 0
                 PROVE  ndtr[bind'[d]] \in 1..XferLen /\ got_rx[d] = XferLen - ndtr[bind'[d]]
      BY <1>1 DEF Counting
    <2>1. d \in Clients /\ d # c
      BY <1>6 DEF InUse, Clients
    <2>2. bind'[d] = bind[d] /\ Alone(d)
      BY <2>1, <1>0, <1>1, <1>2 DEF DmaTyped
    <2> QED BY <2>2, <1>0 DEF Counting
  <1> QED BY <1>3, <1>4, <1>5, <1>7, <1>8 DEF DmaInv

(* The end of hal_dma_set_memory's wait, and the start.                    *)
LEMMA SentStep ==
  ASSUME DmaInv, WriteSent
  PROVE  DmaInv'
  <1> USE ClientsDiffer
  <1> DEFINE s == bind[dpc]
  <1>0. DmaTyped /\ Owned /\ AtHome /\ Counting /\ Recorded /\ NotCut
    BY DEF DmaInv
  <1>1. /\ dpc \in Tx /\ dpc \in Clients /\ s \in Streams /\ tx_armed[dpc]
    BY <1>0 DEF WriteSent, DmaTyped, Owned, Clients
  <1>2. /\ dpc' = None /\ job' = [job EXCEPT ![s] = dpc] /\ ndtr' = [ndtr EXCEPT ![s] = XferLen]
        /\ en' = [en EXCEPT ![s] = TRUE]
        /\ UNCHANGED <<bind, tx_armed, dev, rx_len, got_rx, clash, astray, cut>>
    BY DEF WriteSent
  <1>3. \A d \in Clients : d # dpc /\ Alone(d) => bind[d] # s
    BY <1>0, <1>1, OtherStream
  <1>4. DmaTyped'
    BY <1>0, <1>1, <1>2, DmaSizes DEF DmaTyped
  <1>5. Owned'
    BY <1>0, <1>1, <1>2 DEF Owned, DmaTyped
  <1>6. AtHome'
    <2> SUFFICES ASSUME NEW d \in Clients, Alone(d)
                 PROVE  /\ Armed(d) => dev[bind[d]] = d
                        /\ \A r \in Streams : en'[r] /\ job'[r] = d => r = bind[d]
                        /\ \A r \in Streams : d \in Rx /\ dev[r] = d => r = bind[d]
      BY <1>2 DEF AtHome, Armed, Alone
    <2> QED BY <1>0, <1>1, <1>2 DEF AtHome, DmaTyped
  <1>7. Counting'
    <2> SUFFICES ASSUME NEW d \in Rx, Alone(d), rx_len[d] > 0
                 PROVE  ndtr'[bind[d]] \in 1..XferLen /\ got_rx[d] = XferLen - ndtr'[bind[d]]
      BY <1>2 DEF Counting, Alone
    <2>1. d \in Clients /\ d # dpc
      BY <1>1 DEF Clients
    <2>2. bind[d] # s /\ bind[d] \in Streams
      BY <2>1, <1>0, <1>3 DEF DmaTyped
    <2> QED BY <2>2, <1>0, <1>1, <1>2 DEF Counting, DmaTyped
  <1>8. Recorded' /\ NotCut'
    BY <1>0, <1>2 DEF Recorded, Sharing, NotCut, Alone
  <1> QED BY <1>4, <1>5, <1>6, <1>7, <1>8 DEF DmaInv

(* An item moved: the counter of a ring and the bytes received go together. *)
LEMMA TransferStep ==
  ASSUME DmaInv, NEW s \in Streams, Transfer(s)
  PROVE  DmaInv'
  <1> USE ClientsDiffer
  <1>0. DmaTyped /\ Owned /\ AtHome /\ Counting /\ Recorded /\ NotCut
    BY DEF DmaInv
  <1>1. /\ en[s] /\ dev[s] # None
        /\ ndtr' = [ndtr EXCEPT ![s] = IF ndtr[s] = 1 /\ dev[s] \in Rx THEN XferLen
                                       ELSE ndtr[s] - 1]
        /\ en' = [en EXCEPT ![s] = ~(ndtr[s] = 1) \/ dev[s] \in Rx]
        /\ got_rx' = [c \in Rx |-> IF dev[s] = c THEN (got_rx[c] + 1) % XferLen ELSE got_rx[c]]
        /\ UNCHANGED <<bind, tx_armed, dev, job, rx_len, dpc, clash, astray, cut>>
    BY DEF Transfer, cpu
  <1>2. \A r \in Streams : en'[r] => en[r]
    BY <1>0, <1>1 DEF DmaTyped
  <1>3. DmaTyped'
    <2>1. ndtr' \in [Streams -> Int] /\ got_rx' \in [Rx -> Int]
      BY <1>0, <1>1, DmaSizes DEF DmaTyped
    <2>2. en' \in [Streams -> BOOLEAN]
      BY <1>0, <1>1, Zenon DEF DmaTyped
    <2> QED BY <1>0, <1>1, <2>1, <2>2 DEF DmaTyped
  <1>4. Owned' /\ Recorded' /\ NotCut'
    BY <1>0, <1>1, <1>2 DEF Owned, Recorded, Sharing, NotCut, Alone
  <1>5. AtHome'
    BY <1>0, <1>1, <1>2 DEF AtHome, Armed, Alone
  <1>6. Counting'
    <2> SUFFICES ASSUME NEW c \in Rx, Alone(c), rx_len[c] > 0
                 PROVE  ndtr'[bind[c]] \in 1..XferLen /\ got_rx'[c] = XferLen - ndtr'[bind[c]]
      BY <1>1 DEF Counting, Alone
    <2>1. /\ c \in Clients /\ bind[c] \in Streams /\ dev[bind[c]] = c
          /\ ndtr[bind[c]] \in 1..XferLen /\ got_rx[c] = XferLen - ndtr[bind[c]]
      BY <1>0 DEF Clients, DmaTyped, AtHome, Armed, Counting
    <2>2. CASE s = bind[c]
      <3>1. got_rx'[c] = (got_rx[c] + 1) % XferLen
        BY <1>1, <2>1, <2>2
      <3>2. CASE ndtr[s] = 1
        <4>1. ndtr'[s] = XferLen /\ got_rx[c] + 1 = XferLen
          BY <3>2, <1>0, <1>1, <2>1, <2>2, DmaSizes DEF DmaTyped
        <4>2. XferLen % XferLen = 0
          BY DmaSizes
        <4> QED BY <4>1, <4>2, <3>1, <2>2, DmaSizes
      <3>3. CASE ndtr[s] # 1
        <4>1. ndtr'[s] = ndtr[s] - 1
          BY <3>3, <1>0, <1>1 DEF DmaTyped
        <4>2. got_rx[c] + 1 \in 0..(XferLen - 1)
          BY <3>3, <2>1, <2>2, DmaSizes
        <4>3. (got_rx[c] + 1) % XferLen = got_rx[c] + 1
          BY <4>2, DmaSizes
        <4> QED BY <4>1, <4>3, <3>1, <3>3, <2>1, <2>2, DmaSizes
      <3> QED BY <3>2, <3>3
    <2>3. CASE s # bind[c]
      <3>1. dev[s] # c
        BY <2>1, <2>3, <1>0 DEF AtHome
      <3> QED BY <3>1, <2>1, <2>3, <1>0, <1>1 DEF DmaTyped
    <2> QED BY <2>2, <2>3
  <1> QED BY <1>3, <1>4, <1>5, <1>6 DEF DmaInv

(* One action at a time.                                                   *)
LEMMA DmaNextStep ==
  ASSUME DmaInv, [DmaSteps(Clients)]_dmavars
  PROVE  DmaInv'
  <1>1. ASSUME NEW c \in Clients, NEW s \in Streams, SetBinding(c, s) PROVE DmaInv'
    BY <1>1, BindingStep
  <1>2. ASSUME NEW c \in Tx, WriteFirst(c) PROVE DmaInv'
    BY <1>2, ReinitStep, Zenon DEF WriteFirst, Clients, cpu
  <1>3. ASSUME NEW c \in Tx, WriteNext(c) PROVE DmaInv'
    BY <1>3, QuietStep DEF WriteNext, stream
  <1>4. CASE WriteSent
    BY <1>4, SentStep
  <1>5. ASSUME NEW c \in Rx, InitDmaRx(c) PROVE DmaInv'
    BY <1>5, ReinitStep, Zenon DEF InitDmaRx, Clients, cpu
  <1>6. ASSUME NEW c \in Rx, NEW on \in BOOLEAN, RxCallback(c, on) PROVE DmaInv'
    BY <1>6, QuietStep DEF RxCallback, stream, cpu
  <1>7. ASSUME NEW b \in Buses, I2cReadRegs(b) PROVE DmaInv'
    BY <1>7, ReinitStep, Zenon DEF I2cReadRegs, Clients, cpu
  <1>8. ASSUME NEW b \in Buses, I2cRecover(b) PROVE DmaInv'
    BY <1>8, QuietStep DEF I2cRecover, stream, cpu
  <1>9. ASSUME NEW s \in Watched, AttachCallback(s) \/ DetachCallback(s) PROVE DmaInv'
    BY <1>9, QuietStep DEF AttachCallback, DetachCallback, stream, cpu
  <1>10. ASSUME NEW s \in Streams, Transfer(s) PROVE DmaInv'
    BY <1>10, TransferStep
  <1>11. ASSUME NEW s \in Streams, StreamIrq(s) PROVE DmaInv'
    BY <1>11, QuietStep DEF StreamIrq
  <1>12. CASE StreamIrqEnd
    BY <1>12, QuietStep DEF StreamIrqEnd
  <1>13. ASSUME NEW b \in Buses, I2cNoAnswer(b) PROVE DmaInv'
    BY <1>13, QuietStep DEF I2cNoAnswer, stream, cpu
  <1>14. CASE UNCHANGED dmavars
    BY <1>14, QuietStep DEF dmavars, stream, cpu
  <1> QED
    BY <1>1, <1>2, <1>3, <1>4, <1>5, <1>6, <1>7, <1>8, <1>9, <1>10, <1>11, <1>12, <1>13, <1>14
    DEF DmaSteps

(* The counter and the index.                                              *)
LEMMA IndexFollows == DmaInv => IndexExact
  <1> SUFFICES ASSUME DmaInv, NEW c \in Rx, Alone(c), rx_len[c] > 0
               PROVE  rx_index(c) = got_rx[c]
    BY DEF IndexExact
  <1>1. /\ rx_len[c] = XferLen /\ ndtr[bind[c]] \in 1..XferLen
        /\ got_rx[c] = XferLen - ndtr[bind[c]]
    BY DEF DmaInv, DmaTyped, Counting
  <1>2. XferLen - ndtr[bind[c]] \in Nat /\ XferLen - ndtr[bind[c]] < 65536
    BY <1>1, DmaSizes
  <1>3. (XferLen - ndtr[bind[c]]) % 65536 = XferLen - ndtr[bind[c]]
    BY <1>2
  <1> QED BY <1>1, <1>3 DEF rx_index

(* A transfer runs on its client's stream, whose set-up is the client's.    *)
LEMMA WireFollows == DmaInv => OwnWire
  BY DEF DmaInv, OwnWire, Owned, AtHome, Armed

(* The invariant the theorems below follow from: whatever clients share or  *)
(* re-bind, the streams of the others stay as their owners left them.      *)
THEOREM DmaInvariant == DmaSpec => []DmaInv
  <1>1. DmaInv /\ [DmaSteps(Clients)]_dmavars => DmaInv'
    BY DmaNextStep
  <1> QED BY DmaInitHolds, <1>1, PTL DEF DmaSpec

(* What a UART is given to send leaves on that UART: hal_uart_write_dma    *)
(* re-points a stream set up by an earlier call, and no other client has   *)
(* set the stream up since.                                                *)
THEOREM SendsOnOwnWire == DmaSpec => []OwnWire
  BY DmaInvariant, WireFollows, PTL

(* No transfer is stopped before its end: hal_dma_set_memory waits and     *)
(* hal_dma_init is reached once for a transmitter.                         *)
THEOREM RunsToItsEnd == DmaSpec => []NotCut
  <1>1. DmaInv => NotCut
    BY DEF DmaInv
  <1> QED BY DmaInvariant, <1>1, PTL

(* hal_uart_dma_rx_index is where the next byte will be stored, for every  *)
(* ring length NDTR can hold and across its wrap.                          *)
THEOREM IndexIsExact == DmaSpec => []IndexExact
  BY DmaInvariant, IndexFollows, PTL

-----------------------------------------------------------------------------
(* The SD card.                                                            *)

SdTyped ==
  /\ spc \in {"idle", "ready", "arm", "trigger", "command", "poll", "start", "started", "wait",
              "close", "teardown", "abort", "programming"}
  /\ op \in Ops /\ calls \in Nat
  /\ sta \subseteq {"DATAEND", "ERR"} /\ tcif \subseteq Dirs /\ sden \in [Dirs -> BOOLEAN]
  /\ card \in {"tran", "prg", "rcv", "data"} /\ ended \in {"no", "well", "badly"}
  /\ {sd_busy, dma_done, sdio_done, is_multi_block, sd_last_was_write, irqs, dpsm, cmdrend,
      primask, moved, answered, unheard, busied} \subseteq BOOLEAN

ManyWritten == op.write /\ op.multi

\* before the rendezvous is armed, and from there to the wait
Before == spc \in {"ready", "arm"} \/ (spc \in {"command", "poll"} /\ ManyWritten)
During == spc \in {"trigger", "start", "started", "wait"}
            \/ (spc \in {"command", "poll"} /\ ~ManyWritten)

\* nothing of an earlier transfer is left that could be taken for this one's
Fresh ==
  Before =>
    /\ ~moved /\ ended = "no" /\ calls = 0 /\ tcif = {} /\ ~dpsm /\ ~sd_busy
    /\ spc # "ready" => sta = {} /\ ~sden[Dir]

\* the two interrupts: each end of the transfer is flagged or served, and the
\* second one served calls back
Meeting ==
  During =>
    /\ moved <=> dma_done \/ Dir \in tcif
    /\ ~(dma_done /\ tcif # {}) /\ tcif \subseteq {Dir}
    /\ dpsm => ended = "no"
    /\ sdio_done <=> ~irqs
    /\ ended = "no" => sta = {} /\ ~sdio_done
    /\ ended # "no" => (sdio_done <=> sta = {})
    /\ "ERR" \in sta => ended = "badly"
    /\ "DATAEND" \in sta => ended = "well"
    /\ sdio_done => (sd_last_error = "OK" <=> ended = "well")
    /\ ~sdio_done => sd_last_error = "OK"
    /\ sd_busy <=> ~(sdio_done /\ (dma_done \/ ended # "well"))
    /\ ended # "badly" => calls = IF dma_done /\ sdio_done THEN 1 ELSE 0
    /\ is_multi_block = op.multi
    /\ spc = "trigger" => ~moved /\ ended = "no" /\ ~dpsm

\* a transfer that ended well has been served to the end
WellOver == moved /\ ended = "well" /\ calls = 1 /\ tcif = {} /\ sta = {}

Closing ==
  \/ spc \in {"close", "programming"} /\ sd_last_error = "OK"
  \/ spc = "idle" /\ result = "OK"
  => WellOver

\* outside a transfer the data path is off and no interrupt of it is left
Outside ==
  /\ spc \in {"idle", "close", "abort", "programming"} => ~dpsm
  /\ ~During /\ spc # "teardown" => ~irqs \/ sta = {}
  /\ primask => spc \in {"wait", "close", "teardown", "abort", "programming"}
  /\ busied \/ (spc # "idle" => (sd_last_was_write <=> op.write))
  /\ spc = "programming" => sd_last_error = "OK"

\* the card is out of the data states, but for a command that was not answered
Freed ==
  unheard \/
    /\ spc \in {"idle", "ready", "programming", "abort"} => card \in {"tran", "prg"}
    /\ spc \in {"arm", "trigger", "command"} /\ ~ManyWritten => card = "tran" /\ ended # "well"
    /\ (During \/ spc = "close") /\ ended = "well" /\ ~is_multi_block => card \in {"tran", "prg"}

Answered == spc = "poll" => cmdrend = answered /\ (answered \/ unheard)

SdInv ==
  SdTyped /\ Fresh /\ Meeting /\ Closing /\ Outside /\ Freed /\ Answered /\ OkIsDone

(* Reset: no transfer, and nothing pending.                                *)
LEMMA SdInitHolds == SdInit => SdInv
  <1> SUFFICES ASSUME SdInit PROVE SdInv
    OBVIOUS
  <1> USE DEF SdTyped, ManyWritten, Before, During, Fresh, Meeting, WellOver, Closing,
              Outside, Freed, Answered, OkIsDone, Ops, Dirs, Dir, Thread, Return, flagv,
              regs, dmav, truth
  <1>1. SdTyped
    BY DEF SdInit
  <1>2. Fresh /\ Meeting /\ Closing
    BY DEF SdInit
  <1>3. Outside /\ Freed /\ Answered /\ OkIsDone
    BY DEF SdInit
  <1> QED BY <1>1, <1>2, <1>3 DEF SdInv

(* The data moves, ends or fails, and the card gets ready.                 *)
LEMMA CardStep ==
  ASSUME SdInv, SdMoved \/ SdEnded \/ SdFailed \/ CardReady
  PROVE  SdInv'
  <1> USE DEF SdInv, SdTyped, ManyWritten, Before, During, Fresh, Meeting, WellOver, Closing,
              Outside, Freed, Answered, OkIsDone, Ops, Dirs, Dir, Thread, Return, flagv,
              regs, dmav, truth
  <1>1. CASE SdMoved
    BY <1>1 DEF SdMoved
  <1>2. CASE SdEnded
    <2>1. SdTyped'
      BY <1>2 DEF SdEnded
    <2>2. Fresh' /\ Closing'
      BY <1>2 DEF SdEnded
    <2>3. Meeting'
      BY <1>2 DEF SdEnded
    <2>4. Outside' /\ Answered' /\ OkIsDone'
      BY <1>2 DEF SdEnded
    <2>5. Freed'
      BY <1>2 DEF SdEnded
    <2> QED BY <2>1, <2>2, <2>3, <2>4, <2>5
  <1>3. CASE SdFailed
    <2>1. SdTyped'
      BY <1>3 DEF SdFailed
    <2>2. Fresh' /\ Closing'
      BY <1>3 DEF SdFailed
    <2>3. Meeting'
      BY <1>3 DEF SdFailed
    <2>4. Outside' /\ Answered' /\ OkIsDone'
      BY <1>3 DEF SdFailed
    <2>5. Freed'
      BY <1>3 DEF SdFailed
    <2> QED BY <2>1, <2>2, <2>3, <2>4, <2>5
  <1>4. CASE CardReady
    BY <1>4 DEF CardReady
  <1> QED BY <1>1, <1>2, <1>3, <1>4

(* The controller's interrupt: it calls back if the stream's came first or *)
(* there is nothing to wait for.                                           *)
LEMMA SdioIrqStep ==
  ASSUME SdInv, SdioIrq
  PROVE  SdInv'
  <1> USE DEF SdInv, SdTyped, ManyWritten, Before, During, Fresh, Meeting, WellOver, Closing,
              Outside, Freed, Answered, OkIsDone, Ops, Dirs, Dir, Thread, Return, flagv,
              regs, dmav, truth
  <1>1. CASE dma_done \/ "ERR" \in sta
    <2>1. sd_busy' = FALSE /\ calls' \in Nat /\ (calls = 0 => calls' = 1)
      BY <1>1 DEF SdioIrq, Callback
    <2>2. SdTyped'
      BY <1>1, <2>1 DEF SdioIrq
    <2>3. Fresh' /\ Closing'
      BY <1>1, <2>1 DEF SdioIrq
    <2>4. Meeting'
      BY <1>1, <2>1 DEF SdioIrq
    <2>5. Outside' /\ Answered' /\ OkIsDone'
      BY <1>1, <2>1 DEF SdioIrq
    <2>6. Freed'
      BY <1>1, <2>1 DEF SdioIrq
    <2> QED BY <2>2, <2>3, <2>4, <2>5, <2>6
  <1>2. CASE ~(dma_done \/ "ERR" \in sta)
    <2>1. sd_busy' = sd_busy /\ calls' = calls
      BY <1>2 DEF SdioIrq, Callback
    <2>2. SdTyped'
      BY <1>2, <2>1 DEF SdioIrq
    <2>3. Fresh' /\ Closing'
      BY <1>2, <2>1 DEF SdioIrq
    <2>4. Meeting'
      BY <1>2, <2>1 DEF SdioIrq
    <2>5. Outside' /\ Answered' /\ OkIsDone'
      BY <1>2, <2>1 DEF SdioIrq
    <2>6. Freed'
      BY <1>2, <2>1 DEF SdioIrq
    <2> QED BY <2>2, <2>3, <2>4, <2>5, <2>6
  <1> QED BY <1>1, <1>2

(* A stream's interrupt, the other way round.                              *)
LEMMA SdDmaIrqStep ==
  ASSUME NEW d \in Dirs, SdInv, SdDmaIrq(d)
  PROVE  SdInv'
  <1> USE DEF SdInv, SdTyped, ManyWritten, Before, During, Fresh, Meeting, WellOver, Closing,
              Outside, Freed, Answered, OkIsDone, Ops, Dirs, Dir, Thread, Return, flagv,
              regs, dmav, truth
  <1>1. CASE sdio_done \/ sd_last_error # "OK"
    <2>1. sd_busy' = FALSE /\ calls' \in Nat /\ (calls = 0 => calls' = 1)
      BY <1>1 DEF SdDmaIrq, Callback
    <2>2. SdTyped'
      BY <1>1, <2>1 DEF SdDmaIrq
    <2>3. Fresh' /\ Closing'
      BY <1>1, <2>1 DEF SdDmaIrq
    <2>4. Meeting'
      BY <1>1, <2>1 DEF SdDmaIrq
    <2>5. Outside' /\ Answered' /\ OkIsDone'
      BY <1>1, <2>1 DEF SdDmaIrq
    <2>6. Freed'
      BY <1>1, <2>1 DEF SdDmaIrq
    <2> QED BY <2>2, <2>3, <2>4, <2>5, <2>6
  <1>2. CASE ~(sdio_done \/ sd_last_error # "OK")
    <2>1. sd_busy' = sd_busy /\ calls' = calls
      BY <1>2 DEF SdDmaIrq, Callback
    <2>2. SdTyped'
      BY <1>2, <2>1 DEF SdDmaIrq
    <2>3. Fresh' /\ Closing'
      BY <1>2, <2>1 DEF SdDmaIrq
    <2>4. Meeting'
      BY <1>2, <2>1 DEF SdDmaIrq
    <2>5. Outside' /\ Answered' /\ OkIsDone'
      BY <1>2, <2>1 DEF SdDmaIrq
    <2>6. Freed'
      BY <1>2, <2>1 DEF SdDmaIrq
    <2> QED BY <2>2, <2>3, <2>4, <2>5, <2>6
  <1> QED BY <1>1, <1>2

(* A call begins.                                                          *)
LEMMA BeginStep ==
  ASSUME NEW o \in Ops, SdInv, Begin(o)
  PROVE  SdInv'
  <1> USE DEF SdInv, SdTyped, ManyWritten, Before, During, Fresh, Meeting, WellOver, Closing,
              Outside, Freed, Answered, OkIsDone, Ops, Dirs, Dir, Thread, Return, flagv,
              regs, dmav, truth
  <1>1. SdTyped'
    BY DEF Begin
  <1>2. Fresh' /\ Closing'
    BY DEF Begin
  <1>3. Meeting'
    BY DEF Begin
  <1>4. Outside' /\ Answered' /\ OkIsDone'
    BY DEF Begin
  <1>5. Freed'
    BY DEF Begin
  <1> QED BY <1>1, <1>2, <1>3, <1>4, <1>5

(* A call is refused.                                                      *)
LEMMA RefusedStep ==
  ASSUME NEW o \in Ops, SdInv, Refused(o)
  PROVE  SdInv'
  <1> USE DEF SdInv, SdTyped, ManyWritten, Before, During, Fresh, Meeting, WellOver, Closing,
              Outside, Freed, Answered, OkIsDone, Ops, Dirs, Dir, Thread, Return, flagv,
              regs, dmav, truth
  <1>1. SdTyped'
    BY DEF Refused
  <1>2. Fresh' /\ Closing'
    BY DEF Refused
  <1>3. Meeting'
    BY DEF Refused
  <1>4. Outside' /\ Answered' /\ OkIsDone'
    BY DEF Refused
  <1>5. Freed'
    BY DEF Refused
  <1> QED BY <1>1, <1>2, <1>3, <1>4, <1>5

(* From the card that is ready to the trigger.                             *)
LEMMA SetUpStep ==
  ASSUME SdInv, CardIsReady \/ CardNotReady \/ Arm \/ Trigger
  PROVE  SdInv'
  <1> USE DEF SdInv, SdTyped, ManyWritten, Before, During, Fresh, Meeting, WellOver, Closing,
              Outside, Freed, Answered, OkIsDone, Ops, Dirs, Dir, Thread, Return, flagv,
              regs, dmav, truth
  <1>1. CASE CardIsReady
    <2>1. SdTyped'
      BY <1>1 DEF CardIsReady
    <2>2. Fresh' /\ Closing'
      BY <1>1 DEF CardIsReady
    <2>3. Meeting'
      BY <1>1 DEF CardIsReady
    <2>4. Outside' /\ Answered' /\ OkIsDone'
      BY <1>1 DEF CardIsReady
    <2>5. Freed'
      BY <1>1 DEF CardIsReady
    <2> QED BY <2>1, <2>2, <2>3, <2>4, <2>5
  <1>2. CASE CardNotReady
    <2>1. SdTyped'
      BY <1>2 DEF CardNotReady
    <2>2. Fresh' /\ Closing'
      BY <1>2 DEF CardNotReady
    <2>3. Meeting'
      BY <1>2 DEF CardNotReady
    <2>4. Outside' /\ Answered' /\ OkIsDone'
      BY <1>2 DEF CardNotReady
    <2>5. Freed'
      BY <1>2 DEF CardNotReady
    <2> QED BY <2>1, <2>2, <2>3, <2>4, <2>5
  <1>3. CASE Arm
    <2>1. SdTyped'
      BY <1>3 DEF Arm
    <2>2. Fresh' /\ Closing'
      BY <1>3 DEF Arm
    <2>3. Meeting'
      BY <1>3 DEF Arm
    <2>4. Outside' /\ Answered' /\ OkIsDone'
      BY <1>3 DEF Arm
    <2>5. Freed'
      BY <1>3 DEF Arm
    <2> QED BY <2>1, <2>2, <2>3, <2>4, <2>5
  <1>4. CASE Trigger
    <2>1. SdTyped'
      BY <1>4 DEF Trigger
    <2>2. Fresh' /\ Closing'
      BY <1>4 DEF Trigger
    <2>3. Meeting'
      BY <1>4 DEF Trigger
    <2>4. Outside' /\ Answered' /\ OkIsDone'
      BY <1>4 DEF Trigger
    <2>5. Freed'
      BY <1>4 DEF Trigger
    <2> QED BY <2>1, <2>2, <2>3, <2>4, <2>5
  <1> QED BY <1>1, <1>2, <1>3, <1>4

(* The command, its answer, and the stream of a write of one block.        *)
LEMMA CommandStep ==
  ASSUME SdInv, Command \/ CommandAnswered \/ CommandFails \/ StartDma
  PROVE  SdInv'
  <1> USE DEF SdInv, SdTyped, ManyWritten, Before, During, Fresh, Meeting, WellOver, Closing,
              Outside, Freed, Answered, OkIsDone, Ops, Dirs, Dir, Thread, Return, flagv,
              regs, dmav, truth
  <1>1. CASE Command
    <2>1. SdTyped'
      BY <1>1 DEF Command
    <2>2. Fresh' /\ Closing'
      BY <1>1 DEF Command
    <2>3. Meeting'
      BY <1>1 DEF Command
    <2>4. Outside' /\ Answered' /\ OkIsDone'
      BY <1>1 DEF Command
    <2>5. Freed'
      BY <1>1 DEF Command
    <2> QED BY <2>1, <2>2, <2>3, <2>4, <2>5
  <1>2. CASE CommandAnswered
    BY <1>2 DEF CommandAnswered
  <1>3. CASE CommandFails
    <2>1. SdTyped'
      <3>1. is_multi_block' \in BOOLEAN
        BY <1>3 DEF CommandFails
      <3>2. CASE ManyWritten
        <4>1. UNCHANGED <<irqs, dpsm, sd_busy>>
          BY <1>3, <3>2 DEF CommandFails
        <4> QED BY <1>3, <3>1, <4>1 DEF CommandFails
      <3>3. CASE ~ManyWritten
        BY <1>3, <3>1, <3>3 DEF CommandFails
      <3> QED BY <3>2, <3>3
    <2>2. Fresh' /\ Closing'
      BY <1>3 DEF CommandFails
    <2>3. Meeting'
      BY <1>3 DEF CommandFails
    <2>4. Outside' /\ Answered' /\ OkIsDone'
      BY <1>3 DEF CommandFails
    <2>5. Freed'
      BY <1>3 DEF CommandFails
    <2> QED BY <2>1, <2>2, <2>3, <2>4, <2>5
  <1>4. CASE StartDma
    BY <1>4 DEF StartDma
  <1> QED BY <1>1, <1>2, <1>3, <1>4

(* The wait, and what is done when it is given up.                         *)
LEMMA WaitStep ==
  ASSUME SdInv, WaitSync \/ WaitOver \/ Wedged \/ Teardown \/ Abort
  PROVE  SdInv'
  <1> USE DEF SdInv, SdTyped, ManyWritten, Before, During, Fresh, Meeting, WellOver, Closing,
              Outside, Freed, Answered, OkIsDone, Ops, Dirs, Dir, Thread, Return, flagv,
              regs, dmav, truth
  <1>1. CASE WaitSync
    BY <1>1 DEF WaitSync
  <1>2. CASE WaitOver
    BY <1>2 DEF WaitOver
  <1>3. CASE Wedged
    BY <1>3 DEF Wedged
  <1>4. CASE Teardown
    <2>1. SdTyped'
      BY <1>4 DEF Teardown, StopCard
    <2>2. Fresh' /\ Closing'
      BY <1>4 DEF Teardown, StopCard
    <2>3. Meeting'
      BY <1>4 DEF Teardown, StopCard
    <2>4. Outside' /\ Answered' /\ OkIsDone'
      BY <1>4 DEF Teardown, StopCard
    <2>5. Freed'
      BY <1>4 DEF Teardown, StopCard
    <2> QED BY <2>1, <2>2, <2>3, <2>4, <2>5
  <1>5. CASE Abort
    <2>1. SdTyped'
      BY <1>5 DEF Abort
    <2>2. Fresh' /\ Closing'
      BY <1>5 DEF Abort
    <2>3. Meeting'
      BY <1>5 DEF Abort
    <2>4. Outside' /\ Answered' /\ OkIsDone'
      BY <1>5 DEF Abort
    <2>5. Freed'
      BY <1>5 DEF Abort
    <2> QED BY <2>1, <2>2, <2>3, <2>4, <2>5
  <1> QED BY <1>1, <1>2, <1>3, <1>4, <1>5

(* The end: the stop command, and the card's programming.                  *)
LEMMA CloseStep ==
  ASSUME SdInv, CloseMulti \/ CloseWell \/ Programmed \/ CloseFailed
  PROVE  SdInv'
  <1> USE DEF SdInv, SdTyped, ManyWritten, Before, During, Fresh, Meeting, WellOver, Closing,
              Outside, Freed, Answered, OkIsDone, Ops, Dirs, Dir, Thread, Return, flagv,
              regs, dmav, truth
  <1>1. CASE CloseMulti
    <2>1. SdTyped'
      <3>1. cmdrend' \in BOOLEAN
        BY <1>1 DEF CloseMulti, StopCard
      <3>2. is_multi_block' \in BOOLEAN
        BY <1>1, <3>1 DEF CloseMulti
      <3>3. unheard' \in BOOLEAN
        BY <1>1 DEF CloseMulti, StopCard
      <3>4. card' \in {"tran", "prg", "rcv", "data"}
        BY <1>1 DEF CloseMulti, StopCard
      <3> QED BY <1>1, <3>1, <3>2, <3>3, <3>4 DEF CloseMulti
    <2>2. Fresh' /\ Closing'
      BY <1>1 DEF CloseMulti, StopCard
    <2>3. Meeting'
      BY <1>1 DEF CloseMulti, StopCard
    <2>4. Outside' /\ Answered' /\ OkIsDone'
      BY <1>1 DEF CloseMulti, StopCard
    <2>5. Freed'
      BY <1>1 DEF CloseMulti, StopCard
    <2> QED BY <2>1, <2>2, <2>3, <2>4, <2>5
  <1>2. CASE CloseWell
    <2>1. SdTyped'
      BY <1>2 DEF CloseWell
    <2>2. Fresh' /\ Closing'
      BY <1>2 DEF CloseWell
    <2>3. Meeting'
      BY <1>2 DEF CloseWell
    <2>4. Outside' /\ Answered' /\ OkIsDone'
      BY <1>2 DEF CloseWell
    <2>5. Freed'
      BY <1>2 DEF CloseWell
    <2> QED BY <2>1, <2>2, <2>3, <2>4, <2>5
  <1>3. CASE Programmed
    <2>1. SdTyped'
      BY <1>3 DEF Programmed
    <2>2. Fresh' /\ Closing'
      BY <1>3 DEF Programmed
    <2>3. Meeting'
      BY <1>3 DEF Programmed
    <2>4. Outside' /\ Answered' /\ OkIsDone'
      BY <1>3 DEF Programmed
    <2>5. Freed'
      BY <1>3 DEF Programmed
    <2> QED BY <2>1, <2>2, <2>3, <2>4, <2>5
  <1>4. CASE CloseFailed
    <2>1. SdTyped'
      BY <1>4 DEF CloseFailed, StopCard
    <2>2. Fresh' /\ Closing'
      BY <1>4 DEF CloseFailed, StopCard
    <2>3. Meeting'
      BY <1>4 DEF CloseFailed, StopCard
    <2>4. Outside' /\ Answered' /\ OkIsDone'
      BY <1>4 DEF CloseFailed, StopCard
    <2>5. Freed'
      BY <1>4 DEF CloseFailed, StopCard
    <2> QED BY <2>1, <2>2, <2>3, <2>4, <2>5
  <1> QED BY <1>1, <1>2, <1>3, <1>4

(* One action at a time.                                                   *)
LEMMA SdNextStep ==
  ASSUME SdInv, [SdNext]_sdvars
  PROVE  SdInv'
  <1>1. CASE UNCHANGED sdvars
  <2> USE DEF SdInv, SdTyped, ManyWritten, Before, During, Fresh, Meeting, WellOver, Closing,
              Outside, Freed, Answered, OkIsDone, Ops, Dirs, Dir, Thread, Return, flagv,
              regs, dmav, truth
    <2> QED BY <1>1 DEF sdvars
  <1> QED
    BY <1>1, CardStep, SdioIrqStep, SdDmaIrqStep, BeginStep, RefusedStep, SetUpStep, CommandStep,
       WaitStep, CloseStep
    DEF SdNext

(* What the theorems on the card follow from.                              *)
THEOREM SdInvariant == SdSpec => []SdInv
  <1>1. SdInv /\ [SdNext]_sdvars => SdInv'
    BY SdNextStep
  <1> QED BY SdInitHolds, <1>1, PTL DEF SdSpec

(* HAL_SDIO_OK from hal_sdio_wait_sync means that the transfer is over, on *)
(* the bus, in the DMA, in the callback and in the card.                   *)
THEOREM OkMeansDone == SdSpec => []OkIsDone
  <1>1. SdInv => OkIsDone
    BY DEF SdInv
  <1> QED BY SdInvariant, <1>1, PTL

(* The driver never leaves the card in the middle of a transfer, but for a *)
(* command the card did not answer.                                        *)
THEOREM CardLeftFree == SdSpec => []CardFreed
  <1>1. SdInv => CardFreed
    BY DEF SdInv, Freed, CardFreed
  <1> QED BY SdInvariant, <1>1, PTL

(* No interrupt, whenever it comes, makes the driver give up a transfer    *)
(* that is complete, or a command that was answered.                       *)
THEOREM GivenUpRightly == SdSpec => GivesUpRightly
  <1> DEFINE Rightly == /\ Wedged => primask \/ ~moved \/ ended # "well"
                        /\ CommandFails => ~answered
  <1>1. SdInv /\ [SdNext]_sdvars => [Rightly]_sdvars
    <2> SUFFICES ASSUME SdInv PROVE Rightly
      OBVIOUS
    <2>1. Wedged => primask \/ ~moved \/ ended # "well"
      BY DEF SdInv, Meeting, During, SdTyped, Dir, Dirs, Wedged, Thread
    <2>2. CommandFails => ~answered
      BY DEF SdInv, Answered, CommandFails, Thread
    <2> QED BY <2>1, <2>2
  <1> QED BY SdInvariant, <1>1, PTL DEF SdSpec, GivesUpRightly

-----------------------------------------------------------------------------
(* The I2C master.                                                         *)

I2cTyped ==
  /\ want \in 1 .. MaxRead /\ iop \in {"read", "write_read"}
  /\ clocked \in Nat /\ base \in Nat /\ dr \in Nat /\ shift \in Nat /\ taken \in Seq(Nat)

\* the bytes of this read that were clocked: those taken, then DR, then the
\* shift register
Empty == dr = 0 /\ shift = 0 /\ clocked = base + Len(taken)
OneIn == dr = base + Len(taken) + 1 /\ shift = 0 /\ clocked = base + Len(taken) + 1
TwoIn ==
  /\ dr = base + Len(taken) + 1 /\ shift = base + Len(taken) + 2
  /\ clocked = base + Len(taken) + 2
InOrderTaken == \A k \in 1 .. Len(taken) : taken[k] = base + k

\* the last byte is due and will be refused, or has come in and was
LastDue == Empty /\ receiving /\ stop /\ ~ack
LastIn == OneIn /\ ~receiving /\ ~stop /\ ~owned /\ nacked

\* what the driver may rely on at each step of a read, if no byte came in late
AtRest ==
  ipc = "idle" =>
    /\ dr = 0 /\ shift = 0 /\ ~receiving /\ ~owned /\ ~stop
    /\ taken # <<>> => Len(taken) = want /\ clocked = base + want /\ nacked

InRead ==
  /\ ipc \in {"loop", "last", "byte"} => iop = "read" /\ Len(taken) < want
  /\ ipc \in {"loop", "last"} => Empty /\ receiving /\ ~stop
  /\ ipc = "last" => Len(taken) = want - 1 /\ ~ack
  /\ ipc = "byte" =>
       IF Len(taken) < want - 1 THEN (Empty \/ OneIn) /\ receiving /\ ~stop /\ ack
                                ELSE LastDue \/ LastIn

InShort ==
  /\ ipc \in {"nack1", "stop1", "one", "nack2", "pos2", "two"} =>
       iop = "write_read" /\ Len(taken) = 0
  /\ ipc \in {"nack1", "stop1", "nack2", "pos2"} => Empty /\ receiving /\ ~stop
  /\ ipc \in {"stop1", "pos2"} => ~ack
  /\ ipc \in {"nack1", "stop1", "one"} => want = 1
  /\ ipc \in {"nack2", "pos2", "two"} => want = 2
  /\ ipc = "one" => LastDue \/ LastIn
  /\ ipc = "two" =>
       /\ ~stop /\ ~ack
       /\ Empty \/ (OneIn /\ ~ackwas) \/ (TwoIn /\ nacked /\ ~receiving)

InMany ==
  /\ ipc = "acks" =>
       /\ iop = "write_read" /\ Len(taken) = 0 /\ ~stop
       /\ (Empty /\ receiving) \/ (want > 2 /\ (Empty \/ OneIn \/ TwoIn))
  /\ ipc \in {"many", "third", "rest"} => iop = "write_read" /\ want > 2 /\ ~stop
  /\ ipc = "many" => Len(taken) <= want - 3 /\ (Empty \/ OneIn \/ TwoIn)
  /\ ipc = "third" => Len(taken) = want - 3 /\ TwoIn /\ ~ack
  /\ ipc = "rest" => Len(taken) = want - 2 /\ ((OneIn /\ ~ack) \/ (TwoIn /\ nacked /\ ~receiving))

Steady ==
  ~late /\ ~failed =>
    /\ InOrderTaken /\ AtRest /\ InRead /\ InShort /\ InMany
    /\ pos => ipc = "two"
    /\ ipc = "two" => pos

I2cInv == I2cTyped /\ Steady

(* What each wait polls for, and when it does.                             *)
LEMMA WaitsFor ==
  /\ Awaited["one"] = RXNE /\ Awaited["byte"] = RXNE
  /\ Awaited["two"] = BTF /\ Awaited["rest"] = BTF
  /\ Awaited["many"] = IF Len(taken) < want - 3 THEN RXNE ELSE BTF
  /\ DOMAIN Awaited = {"one", "byte", "two", "rest", "many"}
  BY DEF Awaited

(* What the registers hold, and what clocking a byte makes of it.          *)
LEMMA Held ==
  ASSUME I2cTyped
  PROVE  /\ Empty => ~RXNE /\ ~BTF /\ shift = 0
         /\ OneIn => RXNE /\ ~BTF /\ shift = 0
         /\ TwoIn => RXNE /\ BTF /\ shift # 0
  BY DEF I2cTyped, Empty, OneIn, TwoIn, RXNE, BTF

LEMMA NextByte ==
  ASSUME I2cTyped, ClockByte
  PROVE  (Empty => OneIn') /\ (OneIn => TwoIn') /\ ~TwoIn
  BY DEF I2cTyped, ClockByte, Empty, OneIn, TwoIn, asking

(* A byte read from DR is the next one.                                    *)
LEMMA TakesNext ==
  ASSUME I2cTyped, InOrderTaken, OneIn \/ TwoIn, taken' = Append(taken, dr), base' = base
  PROVE  taken' \in Seq(Nat) /\ Len(taken') = Len(taken) + 1 /\ InOrderTaken'
  <1>1. dr \in Nat /\ dr = base + Len(taken) + 1 /\ taken \in Seq(Nat) /\ base \in Nat
    BY DEF I2cTyped, OneIn, TwoIn
  <1>2. taken' \in Seq(Nat) /\ Len(taken') = Len(taken) + 1
    BY <1>1
  <1>3. ASSUME NEW k \in 1 .. Len(taken') PROVE taken'[k] = base + k
    <2>1. CASE k \in 1 .. Len(taken)
      BY <1>1, <2>1 DEF InOrderTaken
    <2>2. CASE k = Len(taken) + 1
      BY <1>1, <2>2
    <2> QED BY <1>1, <1>2, <2>1, <2>2
  <1> QED BY <1>2, <1>3 DEF InOrderTaken

(* The shift register's byte moves up.                                     *)
LEMMA LetsIn ==
  ASSUME I2cTyped, OneIn \/ TwoIn, Len(taken') = Len(taken) + 1, base' = base, clocked' = clocked,
         dr' = shift, shift' = 0
  PROVE  (OneIn => Empty') /\ (TwoIn => OneIn')
  BY DEF I2cTyped, Empty, OneIn, TwoIn

(* The last two bytes, from DR and the shift register.                     *)
LEMMA TakesBoth ==
  ASSUME I2cTyped, InOrderTaken, TwoIn, taken' = taken \o <<dr, shift>>, base' = base
  PROVE  taken' \in Seq(Nat) /\ Len(taken') = Len(taken) + 2 /\ InOrderTaken'
  <1>1. /\ dr \in Nat /\ dr = base + Len(taken) + 1 /\ taken \in Seq(Nat) /\ base \in Nat
        /\ shift \in Nat /\ shift = base + Len(taken) + 2
    BY DEF I2cTyped, TwoIn
  <1>2. taken' \in Seq(Nat) /\ Len(taken') = Len(taken) + 2
    BY <1>1
  <1>3. ASSUME NEW k \in 1 .. Len(taken') PROVE taken'[k] = base + k
    <2>1. CASE k \in 1 .. Len(taken)
      BY <1>1, <2>1 DEF InOrderTaken
    <2>2. CASE k = Len(taken) + 1
      BY <1>1, <2>2
    <2>3. CASE k = Len(taken) + 2
      BY <1>1, <2>3
    <2> QED BY <1>1, <1>2, <2>1, <2>2, <2>3
  <1> QED BY <1>2, <1>3 DEF InOrderTaken

(* Reset: nothing in the registers, nothing asked.                         *)
LEMMA I2cInitHolds == I2cInit => I2cInv
  BY I2cConstants
  DEF I2cConstants, I2cInit, I2cInv, I2cTyped, Steady, InOrderTaken, AtRest, InRead, InShort,
      InMany

(* The peripheral clocks a byte.  In a wait, or in a long read, it is the  *)
(* next byte of the read, and the bits have been set for it.               *)
LEMMA ClockByteStep ==
  ASSUME I2cInv, ClockByte
  PROVE  I2cInv'
  <1> USE DEF I2cInv, ClockByte
  <1>1. I2cTyped'
    BY DEF I2cTyped, asking
  <1>2. CASE late' \/ failed'
    BY <1>1, <1>2 DEF Steady
  <1>3. CASE ~late' /\ ~failed'
    <2>0. ~late /\ ~failed /\ (Polling \/ Long)
      BY <1>3
    <2>1. InOrderTaken'
      BY <2>0 DEF Steady, InOrderTaken, asking
    <2>2. AtRest'
      BY <2>0 DEF Steady, AtRest
    <2>3. InRead'
      <3>1. CASE ipc = "byte"
        <4>1. Len(taken) < want /\ iop = "read" /\ Empty /\ ~RXNE /\ ~pos
          BY <2>0, <3>1, Held, WaitsFor DEF Steady, InRead, Polling, Long, LastIn, LastDue
        <4>2. OneIn'
          BY <4>1, NextByte
        <4>3. CASE Len(taken) < want - 1
          BY <2>0, <3>1, <4>1, <4>2, <4>3 DEF Steady, InRead, asking
        <4>4. CASE ~(Len(taken) < want - 1)
          <5>1. LastDue
            BY <2>0, <3>1, <4>1, <4>4, Held DEF Steady, InRead, LastIn
          <5>2. LastIn'
            BY <4>1, <4>2, <5>1 DEF LastIn, LastDue
          <5> QED BY <3>1, <4>1, <4>4, <5>2 DEF InRead, asking
        <4> QED BY <4>3, <4>4
      <3>2. CASE ipc # "byte"
        BY <2>0, <3>2, WaitsFor DEF Steady, InRead, Polling, Long, asking
      <3> QED BY <3>1, <3>2
    <2>4. InShort'
      <3>1. CASE ipc = "one"
        <4>1. Len(taken) = 0 /\ iop = "write_read" /\ want = 1 /\ LastDue /\ Empty /\ ~RXNE /\ ~pos
          BY <2>0, <3>1, Held, WaitsFor DEF Steady, InShort, Polling, Long, LastIn, LastDue
        <4>2. OneIn'
          BY <4>1, NextByte
        <4>3. LastIn'
          BY <4>1, <4>2 DEF LastIn, LastDue
        <4> QED BY <3>1, <4>1, <4>3 DEF InShort, asking
      <3>2. CASE ipc = "two"
        BY <2>0, <3>2, Held, NextByte DEF Steady, InShort, asking
      <3>3. CASE ipc \notin {"one", "two"}
        BY <2>0, <3>3, WaitsFor DEF Steady, InShort, Polling, Long, asking
      <3> QED BY <3>1, <3>2, <3>3
    <2>5. InMany'
      BY <2>0, NextByte, Held, WaitsFor DEF Steady, InMany, Polling, Long, asking
    <2>6. (pos => ipc = "two")' /\ (ipc = "two" => pos)'
      BY <2>0 DEF Steady
    <2> QED BY <1>1, <2>1, <2>2, <2>3, <2>4, <2>5, <2>6 DEF Steady
  <1> QED BY <1>2, <1>3

(* A call has addressed the device: the read starts at the next byte.      *)
LEMMA AddressedStep ==
  ASSUME I2cInv, NEW p \in {"read", "write_read"}, NEW n \in 1 .. MaxRead, Addressed(p, n)
  PROVE  I2cInv'
  BY DEF Addressed, I2cInv, I2cTyped, Steady, InOrderTaken, AtRest, InRead, InShort, InMany,
      Empty, bits

(* The calls that fail before a read, and the reset.                       *)
LEMMA NoStartStep ==
  ASSUME I2cInv, NoStart
  PROVE  I2cInv'
  BY DEF NoStart, I2cInv, I2cTyped, Steady, asking, bytes
LEMMA NoDeviceStep ==
  ASSUME I2cInv, NoDevice
  PROVE  I2cInv'
  BY DEF NoDevice, I2cInv, I2cTyped, Steady, asking, bytes
LEMMA I2cReinitStep ==
  ASSUME I2cInv, Reinit
  PROVE  I2cInv'
  BY DEF Reinit, I2cInv, I2cTyped, Steady, asking, bytes, InOrderTaken, AtRest, InRead, InShort,
      InMany

(* ACK is set after the second address.                                    *)
LEMMA AcksStep ==
  ASSUME I2cInv, Acks
  PROVE  I2cInv'
  BY DEF Acks, I2cInv, I2cTyped, Steady, asking, InOrderTaken, AtRest, InRead, InShort, InMany,
      Empty, OneIn, TwoIn

(* A wait gives up.                                                        *)
LEMMA TimeOutStep ==
  ASSUME I2cInv, TimeOut
  PROVE  I2cInv'
  BY DEF TimeOut, I2cInv, I2cTyped, Steady, asking, bytes

(* What a wait that ends with one byte read does, but for where it goes.   *)
LEMMA TakesOne ==
  ASSUME I2cTyped, NEW next, TakeOne(next)
  PROVE  /\ I2cTyped' /\ UNCHANGED <<base, want, clocked, iop>>
         /\ InOrderTaken /\ (OneIn \/ TwoIn) =>
              /\ Len(taken') = Len(taken) + 1 /\ InOrderTaken' /\ taken' # <<>>
              /\ (OneIn => Empty') /\ (TwoIn => OneIn')
  <1>1. UNCHANGED <<base, want, clocked, iop>>
    BY DEF TakeOne, asking
  <1>2. taken' \in Seq(Nat) /\ dr' \in Nat /\ shift' \in Nat
    BY DEF TakeOne, ReadDR, I2cTyped
  <1>3. I2cTyped'
    BY <1>1, <1>2 DEF I2cTyped
  <1>4. ASSUME InOrderTaken, OneIn \/ TwoIn
        PROVE  /\ Len(taken') = Len(taken) + 1 /\ InOrderTaken' /\ taken' # <<>>
               /\ (OneIn => Empty') /\ (TwoIn => OneIn')
    <2>1. Len(taken') = Len(taken) + 1 /\ InOrderTaken' /\ taken' # <<>>
      BY <1>1, <1>4, TakesNext DEF TakeOne, ReadDR, I2cTyped
    <2>2. (OneIn => Empty') /\ (TwoIn => OneIn')
      BY <1>1, <1>4, <2>1, LetsIn DEF TakeOne, ReadDR
    <2> QED BY <2>1, <2>2
  <1> QED BY <1>1, <1>3, <1>4

(* A read of one byte.                                                     *)
LEMMA ReadOneStep ==
  ASSUME I2cInv, ReadOne
  PROVE  I2cInv'
  <1> USE DEF I2cInv
  <1>1. CASE ipc = "nack1" /\ SetAck(FALSE, "stop1")
    BY <1>1
    DEF I2cTyped, Steady, asking, bytes, InOrderTaken, AtRest, InRead, InShort, InMany, Empty,
        SetAck
  <1>2. CASE ipc = "stop1" /\ StopThen("one")
    BY <1>2
    DEF I2cTyped, Steady, asking, bytes, InOrderTaken, AtRest, InRead, InShort, InMany, Empty,
        LastDue, StopThen, SetStop
  <1>3. CASE ipc = "one" /\ TakeOne("idle") /\ UNCHANGED ack
    <2>1. I2cTyped' /\ UNCHANGED <<base, want, clocked, iop, late, failed>>
      BY <1>3, TakesOne DEF TakeOne
    <2>2. ASSUME ~late, ~failed
          PROVE  Steady'
      <3>1. LastIn /\ OneIn /\ Len(taken) + 1 = want
        BY <1>3, <2>2, WaitsFor, Held
        DEF Steady, InRead, InShort, InMany, TakeOne, LastDue, LastIn, I2cTyped
      <3>2. /\ Len(taken') = Len(taken) + 1 /\ InOrderTaken' /\ taken' # <<>>
            /\ (OneIn => Empty') /\ (TwoIn => OneIn')
        BY <1>3, <2>2, <3>1, TakesOne DEF Steady
      <3> QED
        BY <1>3, <2>1, <2>2, <3>1, <3>2
        DEF Steady, TakeOne, AtRest, InRead, InShort, InMany, LastIn, Empty, I2cTyped
    <2> QED BY <2>1, <2>2 DEF Steady
  <1> QED BY <1>1, <1>2, <1>3 DEF ReadOne

(* A read of two bytes: POS puts the NACK on the second.                   *)
LEMMA ReadTwoStep ==
  ASSUME I2cInv, ReadTwo
  PROVE  I2cInv'
  <1> USE DEF I2cInv, I2cTyped, Steady, asking, bytes, InOrderTaken, AtRest, InRead, InShort,
              InMany, Empty, OneIn, TwoIn, LastDue, LastIn, RXNE, BTF, SetAck, StopThen, TakeTwo,
              SetStop, ReadDR
  <1>1. CASE ipc = "nack2" /\ SetAck(FALSE, "pos2")
    BY <1>1
  <1>2. CASE ipc = "pos2" /\ pos' = TRUE /\ ipc' = "two"
              /\ UNCHANGED <<ack, stop, bytes, receiving, owned, asking, taken, late, failed>>
    BY <1>2
  <1>3. CASE ipc = "two" /\ TakeTwo(ack, FALSE)
    BY <1>3
  <1> QED BY <1>1, <1>2, <1>3 DEF ReadTwo

(* A longer read: ACK is cleared with the last but one in the shift        *)
(* register.                                                               *)
LEMMA ReadManyStep ==
  ASSUME I2cInv, ReadMany
  PROVE  I2cInv'
  <1> USE DEF I2cInv
  <1>1. CASE ipc = "many" /\ Len(taken) < want - 3 /\ TakeOne("many") /\ UNCHANGED ack
    <2>1. I2cTyped' /\ UNCHANGED <<base, want, clocked, iop, late, failed>>
      BY <1>1, TakesOne DEF TakeOne
    <2>2. ASSUME ~late, ~failed
          PROVE  Steady'
      <3>1. OneIn \/ TwoIn
        BY <1>1, <2>2, WaitsFor, Held
        DEF Steady, InRead, InShort, InMany, TakeOne, LastDue, LastIn, I2cTyped
      <3>2. /\ Len(taken') = Len(taken) + 1 /\ InOrderTaken' /\ taken' # <<>>
            /\ (OneIn => Empty') /\ (TwoIn => OneIn')
        BY <1>1, <2>2, <3>1, TakesOne DEF Steady
      <3> QED
        BY <1>1, <2>1, <2>2, <3>1, <3>2
        DEF Steady, TakeOne, AtRest, InRead, InShort, InMany, LastIn, Empty, I2cTyped
    <2> QED BY <2>1, <2>2 DEF Steady
  <1>2. CASE ipc = "many" /\ Len(taken) = want - 3 /\ BTF /\ SetAck(FALSE, "third")
    BY <1>2, Held
    DEF I2cTyped, Steady, bits, asking, bytes, InOrderTaken, AtRest, InRead, InShort, InMany,
        Empty, OneIn, TwoIn, LastDue, LastIn, SetAck
  <1>3. CASE ipc = "third" /\ taken' = Append(taken, dr) /\ dr' = shift /\ shift' = 0
              /\ ipc' = "rest"
              /\ UNCHANGED <<ackwas, clocked, nacked, bits, receiving, owned, asking, late, failed>>
    BY <1>3, TakesNext
    DEF I2cTyped, Steady, bits, asking, AtRest, InRead, InShort, InMany, OneIn, TwoIn
  <1>4. CASE ipc = "rest" /\ TakeTwo(TRUE, pos)
    <2>1. CASE late \/ failed
      BY <1>4, <2>1 DEF TakeTwo, I2cTyped, Steady, asking
    <2>2. CASE ~late /\ ~failed
      <3>1. TwoIn /\ nacked /\ ~receiving /\ Len(taken) + 2 = want /\ ~stop /\ ~pos
        BY <1>4, <2>2, Held DEF Steady, InMany, TakeTwo, I2cTyped
      <3>2. taken' \in Seq(Nat) /\ Len(taken') = Len(taken) + 2 /\ InOrderTaken'
        BY <1>4, <2>2, <3>1, TakesBoth DEF TakeTwo, Steady, asking
      <3>3. I2cTyped'
        BY <1>4, <3>2 DEF TakeTwo, I2cTyped, asking
      <3>4. Len(taken') = want' /\ clocked' = base' + want'
        <4>1. UNCHANGED <<want, base, clocked>> /\ Len(taken) \in Nat /\ base \in Nat
          BY <1>4 DEF TakeTwo, I2cTyped, asking
        <4>2. clocked = base + Len(taken) + 2
          BY <3>1 DEF TwoIn
        <4> QED BY <3>1, <3>2, <4>1, <4>2
      <3>5. Steady'
        BY <1>4, <2>2, <3>1, <3>2, <3>4
        DEF TakeTwo, SetStop, Steady, AtRest, InRead, InShort, InMany, asking
      <3> QED BY <3>3, <3>5
    <2> QED BY <2>1, <2>2
  <1> QED BY <1>1, <1>2, <1>3, <1>4 DEF ReadMany

(* stm32_i2c_read, a byte at a time.                                       *)
LEMMA LoopStep ==
  ASSUME I2cInv, Loop
  PROVE  I2cInv'
  <1> USE DEF I2cInv
  <1>1. CASE ipc = "loop" /\ Len(taken) < want - 1 /\ SetAck(TRUE, "byte")
    BY <1>1
    DEF I2cTyped, Steady, bits, asking, bytes, InOrderTaken, AtRest, InRead, InShort, InMany,
        Empty, SetAck
  <1>2. CASE ipc = "loop" /\ Len(taken) = want - 1 /\ SetAck(FALSE, "last")
    BY <1>2
    DEF I2cTyped, Steady, bits, asking, bytes, InOrderTaken, AtRest, InRead, InShort, InMany,
        Empty, SetAck
  <1>3. CASE ipc = "last" /\ StopThen("byte")
    BY <1>3
    DEF I2cTyped, Steady, bits, asking, bytes, InOrderTaken, AtRest, InRead, InShort, InMany,
        Empty, StopThen, SetStop, LastDue
  <1>4. CASE ipc = "byte" /\ Len(taken) < want - 1 /\ TakeOne("loop") /\ UNCHANGED ack
    <2>1. I2cTyped' /\ UNCHANGED <<base, want, clocked, iop, late, failed>>
      BY <1>4, TakesOne DEF TakeOne
    <2>2. ASSUME ~late, ~failed
          PROVE  Steady'
      <3>1. OneIn /\ receiving /\ ~stop /\ iop = "read"
        BY <1>4, <2>2, WaitsFor, Held
        DEF Steady, InRead, InShort, InMany, TakeOne, LastDue, LastIn, I2cTyped
      <3>2. /\ Len(taken') = Len(taken) + 1 /\ InOrderTaken' /\ taken' # <<>>
            /\ (OneIn => Empty') /\ (TwoIn => OneIn')
        BY <1>4, <2>2, <3>1, TakesOne DEF Steady
      <3> QED
        BY <1>4, <2>1, <2>2, <3>1, <3>2
        DEF Steady, TakeOne, AtRest, InRead, InShort, InMany, LastIn, Empty, I2cTyped
    <2> QED BY <2>1, <2>2 DEF Steady
  <1>5. CASE ipc = "byte" /\ Len(taken) = want - 1 /\ TakeOne("idle") /\ ack' = TRUE
    <2>1. I2cTyped' /\ UNCHANGED <<base, want, clocked, iop, late, failed>>
      BY <1>5, TakesOne DEF TakeOne
    <2>2. ASSUME ~late, ~failed
          PROVE  Steady'
      <3>1. LastIn /\ OneIn /\ Len(taken) + 1 = want
        BY <1>5, <2>2, WaitsFor, Held
        DEF Steady, InRead, InShort, InMany, TakeOne, LastDue, LastIn, I2cTyped
      <3>2. /\ Len(taken') = Len(taken) + 1 /\ InOrderTaken' /\ taken' # <<>>
            /\ (OneIn => Empty') /\ (TwoIn => OneIn')
        BY <1>5, <2>2, <3>1, TakesOne DEF Steady
      <3> QED
        BY <1>5, <2>1, <2>2, <3>1, <3>2
        DEF Steady, TakeOne, AtRest, InRead, InShort, InMany, LastIn, Empty, I2cTyped
    <2> QED BY <2>1, <2>2 DEF Steady
  <1> QED BY <1>1, <1>2, <1>3, <1>4, <1>5 DEF Loop

(* What the theorem below follows from.                                   *)
THEOREM I2cInvariant == I2cSpec => []I2cInv
  <1>1. I2cInv /\ [I2cNext]_i2cvars => I2cInv'
    <2>1. ASSUME I2cInv, UNCHANGED i2cvars PROVE I2cInv'
      BY <2>1
      DEF i2cvars, I2cInv, I2cTyped, Steady, bits, asking, bytes, InOrderTaken, AtRest, InRead,
          InShort, InMany, Empty, OneIn, TwoIn, LastDue, LastIn
    <2> QED
      BY <2>1, ClockByteStep, AddressedStep, NoStartStep, NoDeviceStep, I2cReinitStep, AcksStep,
         TimeOutStep, ReadOneStep, ReadTwoStep, ReadManyStep, LoopStep
      DEF I2cNext
  <1> QED BY I2cInitHolds, <1>1, PTL DEF I2cSpec

(* A read that returns HAL_OK returns the bytes the device sent for it, if *)
(* no byte but those of a long read ended out of a wait.                   *)
THEOREM ReadsExact == I2cSpec => []ReadExact
  <1>1. I2cInv => ReadExact
    <2> SUFFICES ASSUME I2cInv, Returned, ~late PROVE
       /\ taken = [k \in 1 .. want |-> base + k]
       /\ clocked = base + want /\ nacked /\ dr = 0 /\ shift = 0 /\ ~owned /\ ~stop
      BY DEF ReadExact
    <2>1. InOrderTaken /\ AtRest /\ ipc = "idle" /\ taken # <<>>
      BY DEF I2cInv, Steady, Returned
    <2>2. taken \in Seq(Nat) /\ Len(taken) = want
      BY <2>1 DEF AtRest, I2cInv, I2cTyped
    <2>3. taken = [k \in 1 .. want |-> base + k]
      BY <2>1, <2>2 DEF InOrderTaken
    <2> QED BY <2>1, <2>3 DEF AtRest
  <1> QED BY I2cInvariant, <1>1, PTL

-----------------------------------------------------------------------------
(* A counter that wraps.                                                   *)

(* The next value of a counter that wraps.                                 *)
LEMMA NextCount ==
  ASSUME NEW s \in 0 .. Word - 1
  PROVE  (s + 1) % Word = IF s + 1 < Word THEN s + 1 ELSE 0
  <1> USE TimersAssumption DEF TimersAssumption
  <1>1. CASE s + 1 < Word
    BY <1>1, ModIs, s + 1 = Word * 0 + (s + 1)
  <1>2. CASE s + 1 = Word
    BY <1>2, ModIs, s + 1 = Word * 1 + 0
  <1> QED BY <1>1, <1>2

(* How far a counter is from where it was, and that a step takes it one    *)
(* What fits the word is not cut.                                          *)
LEMMA InWord ==
  ASSUME NEW n \in Nat, n < Word
  PROVE  n % Word = n
  <1> USE TimersAssumption DEF TimersAssumption
  <1> QED BY ModIs, n = Word * 0 + n

(* further if that is not all the way round.                               *)
LEMMA Apart ==
  ASSUME NEW s \in 0 .. Word - 1, NEW t \in 0 .. Word - 1
  PROVE  /\ (s - t) % Word = IF t <= s THEN s - t ELSE s - t + Word
         /\ (s - t) % Word \in 0 .. Word - 1
  <1> USE TimersAssumption DEF TimersAssumption
  <1>1. CASE t <= s
    BY <1>1, ModIs, s - t = Word * 0 + (s - t)
  <1>2. CASE s < t
    BY <1>2, ModIs, s - t = Word * (-1) + (s - t + Word)
  <1> QED BY <1>1, <1>2

LEMMA Further ==
  ASSUME NEW s \in 0 .. Word - 1, NEW t \in 0 .. Word - 1, ((s - t) % Word) + 1 < Word
  PROVE  (((s + 1) % Word) - t) % Word = ((s - t) % Word) + 1
  <1> USE TimersAssumption DEF TimersAssumption
  <1> DEFINE n == (s + 1) % Word
  <1>1. n \in 0 .. Word - 1 /\ n = IF s + 1 < Word THEN s + 1 ELSE 0
    BY NextCount
  <1>2. (s - t) % Word = IF t <= s THEN s - t ELSE s - t + Word
    BY Apart
  <1>3. (n - t) % Word = IF t <= n THEN n - t ELSE n - t + Word
    BY <1>1, Apart
  <1> HIDE DEF n
  <1>4. (n - t) % Word = ((s - t) % Word) + 1
    BY <1>1, <1>2, <1>3
  <1> QED BY <1>4 DEF n

-----------------------------------------------------------------------------
(* The timebase.                                                           *)

TimeTyped ==
  /\ systick_ticks \in 0 .. Word - 1 /\ tick_duration_us \in Nat \ {0}
  /\ phase \in 0 .. tick_duration_us - 1 /\ age \in Nat
  /\ Spinning =>
       spin \in [kind : {"delay", "timeout"}, start : Nat, need : Nat, asked : Nat]

\* the ticks since a delay began
Ticked == (systick_ticks - spin.start) % Word

\* what a delay counts, and how much time that is
DelayCounts ==
  spin.kind = "delay" =>
    /\ spin.start < Word /\ spin.need >= 1 /\ spin.asked < MaxAge
    /\ tick_duration_us * spin.need <= spin.asked \/ spin.need = 1
    /\ spin.asked < Word => spin.asked < tick_duration_us * spin.need + tick_duration_us
    /\ spin.need < Word =>
         /\ Ticked <= spin.need /\ (Ticked = spin.need => phase = 0)
         /\ age <= tick_duration_us * Ticked + phase
         /\ age >= MaxAge \/ age + tick_duration_us > tick_duration_us * Ticked + phase

\* a time-out that began at start milliseconds began less than one later
TimeoutCounts ==
  spin.kind = "timeout" =>
    /\ spin.need = spin.asked /\ spin.asked * Ms < MaxAge
    /\ ~wrapped =>
         /\ spin.start * Ms <= Micros
         /\ age >= MaxAge
              \/ age + tick_duration_us + spin.start * Ms + Ms > Micros + phase

TimeInv == TimeTyped /\ DelayCounts /\ TimeoutCounts /\ DelayLasts /\ TimeoutLasts

(* The microseconds are in range, and a tick that does not wrap them adds  *)
(* its period.                                                             *)
LEMMA MicrosTyped ==
  ASSUME TimeTyped
  PROVE  Micros \in 0 .. Word - 1
  <1>1. systick_ticks * tick_duration_us \in Int
    BY TimersAssumption DEF TimersAssumption, TimeTyped
  <1> QED BY <1>1, DivMod, TimersAssumption DEF TimersAssumption, Micros

LEMMA MicrosTick ==
  ASSUME TimeTyped, Micros + tick_duration_us < Word, tick_duration_us' = tick_duration_us,
         systick_ticks' = (systick_ticks + 1) % Word
  PROVE  Micros' = Micros + tick_duration_us
  <1> DEFINE d == tick_duration_us
             s == systick_ticks
             m == Micros
             q == (s * d) \div Word
  <1>1. d \in Nat \ {0} /\ s \in 0 .. Word - 1 /\ Word \in Nat \ {0} /\ m + d < Word
    BY TimersAssumption DEF TimersAssumption, TimeTyped
  <1>2. s * d \in Int
    BY <1>1
  <1>3. q \in Int /\ m \in 0 .. Word - 1 /\ s * d = Word * q + m
    BY <1>1, <1>2, DivMod DEF Micros
  <1>4. systick_ticks' = IF s + 1 < Word THEN s + 1 ELSE 0
    BY <1>1, NextCount
  <1>5. Micros' = (systick_ticks' * d) % Word
    BY DEF Micros
  <1> HIDE DEF d, s, m, q
  <1>6. (s + 1) * d = Word * q + (m + d)
    BY <1>1, <1>3
  <1>7. s + 1 < Word
    <2>1. SUFFICES ASSUME s + 1 = Word
                   PROVE  FALSE
      BY <1>1
    <2>2. Word * d = Word * q + (m + d)
      BY <1>1, <1>6, <2>1
    <2>3. (Word * d) % Word = m + d
      BY <1>1, <1>3, <2>2, ModIs
    <2>4. (Word * d) % Word = 0
      BY <1>1, ModIs, Word * d = Word * d + 0
    <2> QED BY <1>1, <1>3, <2>3, <2>4
  <1>8. ((s + 1) * d) % Word = m + d
    BY <1>1, <1>3, <1>6, ModIs
  <1> QED BY <1>4, <1>5, <1>7, <1>8 DEF m, d, s

(* So many milliseconds on the counter are as many of the microseconds it  *)
(* is taken from, if those have not wrapped.                               *)
LEMMA MillisOn ==
  ASSUME NEW m \in 0 .. Word - 1, NEW st \in Nat, NEW n \in Nat, st * Ms <= m,
         ((m \div Ms) - st) % Word >= n
  PROVE  m >= st * Ms + n * Ms
  <1> DEFINE q == m \div Ms
  <1>1. Ms \in Nat \ {0} /\ Word \in Nat \ {0} /\ m \in Nat
    BY TimersAssumption DEF TimersAssumption
  <1>2. q \in Nat /\ Ms * q <= m
    BY <1>1, DivNat
  <1>3. st <= q
    BY <1>1, AtLeast, Ms * st = st * Ms
  <1>4. ((q - st) % Word) >= n
    OBVIOUS
  <1> HIDE DEF q
  <1>5. q <= Ms * q /\ Ms * q \in Nat
    BY <1>1, <1>2
  <1>6. q \in 0 .. Word - 1 /\ st \in 0 .. Word - 1
    BY <1>1, <1>2, <1>3, <1>5
  <1>7. (q - st) % Word = q - st
    BY <1>3, <1>6, Apart
  <1>8. st + n <= q
    BY <1>2, <1>4, <1>7
  <1>9. Ms * (st + n) <= Ms * q
    BY <1>1, <1>2, <1>8, Times
  <1>10. Ms * (st + n) = st * Ms + n * Ms /\ Ms * (st + n) \in Nat
    BY <1>1
  <1> QED BY <1>1, <1>2, <1>5, <1>9, <1>10

(* How long a delay of so many ticks has been.                             *)
LEMMA TicksLast ==
  ASSUME NEW d \in Nat \ {0}, NEW n \in Nat, NEW us \in Nat, NEW t \in Nat, NEW most \in Nat,
         us < most, d * n <= us \/ n = 1, t <= d * n,
         t >= most \/ t + d > d * n
  PROVE  (us < d * n + d => t + 2 * d > us) /\ (t <= us \/ t <= d)
  <1> DEFINE x == d * n
  <1>1. x \in Nat /\ (n = 1 => x = d) /\ (x <= us \/ n = 1) /\ t <= x
        /\ (t >= most \/ t + d > x)
    OBVIOUS
  <1> HIDE DEF x
  <1> QED BY <1>1

(* Reset: no wait.                                                         *)
LEMMA TimersInitHolds == TimersInit => TimeInv
  BY TimersAssumption
  DEF TimersAssumption, TimersInit, TimeInv, TimeTyped, DelayCounts, TimeoutCounts, DelayLasts,
      TimeoutLasts, Spinning, NoSpin

(* A new tick period, or a timer: no wait is under way.                    *)
LEMMA TimebaseInitStep ==
  ASSUME TimeInv, NEW us \in Periods, TimebaseInit(us)
  PROVE  TimeInv'
  <1>1. systick_ticks' = 0 /\ tick_duration_us' = us /\ phase' = 0 /\ age' = age /\ us \in Nat \ {0}
    BY TimersAssumption DEF TimersAssumption, TimebaseInit
  <1>2. spin'.kind = "none"
    BY DEF TimebaseInit, NoSpin
  <1>3. TimeTyped'
    BY <1>1, <1>2, TimersAssumption DEF TimersAssumption, TimeInv, TimeTyped, Spinning
  <1> QED
    BY <1>2, <1>3 DEF TimeInv, DelayCounts, TimeoutCounts, DelayLasts, TimeoutLasts

LEMMA TimeUnchanged ==
  ASSUME TimeInv,
         UNCHANGED <<systick_ticks, tick_duration_us, phase, spin, age, wrapped>>
  PROVE  TimeInv'
  BY DEF TimeInv, TimeTyped, DelayCounts, TimeoutCounts, DelayLasts, TimeoutLasts,
     Spinning, Micros, Ticked

(* A delay begins: the counter stands where it started.                    *)
LEMMA DelayStep ==
  ASSUME TimeInv, NEW us \in Nat, NEW asked \in Nat, us <= asked, asked < MaxAge,
         asked < Word => us = asked, DelayFor(us, asked)
  PROVE  TimeInv'
  <1> DEFINE d == tick_duration_us
             whole == us \div d
             need == IF whole = 0 THEN 1 ELSE whole
  <1>1. /\ spin' = [kind |-> "delay", start |-> systick_ticks, need |-> need, asked |-> asked]
        /\ age' = 0 /\ wrapped' = FALSE
        /\ UNCHANGED <<systick_ticks, tick_duration_us, phase, timer>>
    BY DEF DelayFor, StartSpin
  <1>2. d \in Nat \ {0} /\ systick_ticks \in 0 .. Word - 1 /\ phase \in 0 .. d - 1 /\ age \in Nat
    BY DEF TimeInv, TimeTyped
  <1>3. whole \in Nat /\ us \in Nat
    BY <1>2, DivNat
  <1>4. d * whole <= us /\ us < d * whole + d
    BY <1>2, DivNat
  <1> HIDE DEF whole
  <1>5. /\ need \in Nat /\ need >= 1 /\ (d * need <= asked \/ need = 1)
        /\ asked < Word => asked < d * need + d
    <2>1. (d * need <= us \/ need = 1) /\ us < d * need + d /\ need \in Nat /\ need >= 1
      BY <1>2, <1>3, <1>4
    <2>2. d * need \in Nat
      BY <1>2, <2>1
    <2> QED BY <2>1, <2>2
  <1> HIDE DEF need
  <1>6. (systick_ticks - systick_ticks) % Word = 0
    BY <1>2, Apart
  <1>7. TimeTyped'
    BY <1>1, <1>2, <1>5 DEF TimeTyped, Spinning
  <1>8. Ticked' = 0
    BY <1>1, <1>6 DEF Ticked
  <1>9. DelayCounts'
    <2>1. spin'.start = systick_ticks /\ spin'.need = need /\ spin'.asked = asked
      BY <1>1
    <2>2. d * 0 = 0 /\ d * need \in Int /\ tick_duration_us' = d /\ phase' = phase
      BY <1>1, <1>2, <1>5
    <2>3. spin'.start < Word
      BY <1>2, <2>1, TimersAssumption DEF TimersAssumption
    <2>4. /\ Ticked' <= spin'.need /\ Ticked' # spin'.need /\ age' = 0
          /\ d * Ticked' + phase' = phase
      BY <1>1, <1>2, <1>5, <1>8, <2>1, <2>2
    <2> QED BY <1>2, <1>5, <2>1, <2>2, <2>3, <2>4 DEF DelayCounts
  <1> QED BY <1>1, <1>7, <1>9 DEF TimeInv, TimeoutCounts, DelayLasts, TimeoutLasts

(* A time-out begins.                                                      *)
LEMMA TimeoutStep ==
  ASSUME TimeInv, NEW n \in Waits, Timeout(n)
  PROVE  TimeInv'
  <1>1. /\ spin' = [kind |-> "timeout", start |-> Millis, need |-> n, asked |-> n]
        /\ age' = 0 /\ wrapped' = FALSE
        /\ UNCHANGED <<systick_ticks, tick_duration_us, phase, timer>>
    BY DEF Timeout, StartSpin
  <1>2. n \in Nat /\ n * Ms < MaxAge /\ Ms \in Nat \ {0}
    BY TimersAssumption DEF TimersAssumption
  <1> DEFINE m == Micros
             a == Millis
  <1>3. m \in Nat
    BY MicrosTyped, TimersAssumption DEF TimersAssumption, TimeInv
  <1>4. a \in Nat /\ a * Ms <= m /\ m < a * Ms + Ms
    <2>1. a \in Nat /\ Ms * a <= m /\ m < Ms * a + Ms
      BY <1>2, <1>3, DivNat DEF Millis
    <2> HIDE DEF a, m
    <2>2. Ms * a = a * Ms
      BY <1>2, <2>1
    <2> QED BY <2>1, <2>2
  <1>5. /\ Micros' = m
        /\ tick_duration_us \in Nat \ {0} /\ phase \in 0 .. tick_duration_us - 1
    BY <1>1 DEF Micros, TimeInv, TimeTyped
  <1> HIDE DEF m, a
  <1>6. TimeTyped'
    BY <1>1, <1>2, <1>4 DEF TimeInv, TimeTyped, Spinning, a
  <1>7. TimeoutCounts'
    <2>1. spin'.start = a
      BY <1>1 DEF a
    <2>2. a * Ms \in Int
      BY <1>2, <1>4
    <2> QED BY <1>1, <1>2, <1>3, <1>4, <1>5, <2>1, <2>2 DEF TimeoutCounts
  <1> QED BY <1>1, <1>6, <1>7 DEF TimeInv, DelayCounts, DelayLasts, TimeoutLasts

(* A microsecond passes: what it does to the counter and to the phase.     *)
LEMMA Elapses ==
  ASSUME TimeTyped, Elapse
  PROVE  /\ TimeTyped' /\ ~Over /\ tick_duration_us' = tick_duration_us
         /\ \/ phase' = phase + 1 /\ UNCHANGED <<systick_ticks, wrapped>>
            \/ /\ phase + 1 = tick_duration_us /\ phase' = 0
               /\ systick_ticks' = (systick_ticks + 1) % Word
               /\ wrapped' = (wrapped \/ Micros + tick_duration_us >= Word)
         /\ Spinning => spin' = spin /\ (age' = age + 1 \/ (age >= MaxAge /\ age' = age))
         /\ ~Spinning => spin'.kind = "none"
  <1>1. ~Over /\ tick_duration_us' = tick_duration_us
    BY DEF Elapse
  <1>2. \/ phase' = phase + 1 /\ phase' < tick_duration_us /\ UNCHANGED <<systick_ticks, wrapped>>
        \/ /\ phase + 1 = tick_duration_us /\ phase' = 0
           /\ systick_ticks' = (systick_ticks + 1) % Word
           /\ wrapped' = (wrapped \/ Micros + tick_duration_us >= Word)
    BY DEF Elapse, TimeTyped
  <1>3. Spinning => spin' = spin /\ (age' = age + 1 \/ (age >= MaxAge /\ age' = age))
    BY TimersAssumption DEF TimersAssumption, Elapse, TimeTyped
  <1>4. ~Spinning => spin'.kind = "none" /\ age' = 0
    BY DEF Elapse, NoSpin
  <1>5. systick_ticks' \in 0 .. Word - 1
    BY <1>2, NextCount, TimersAssumption DEF TimersAssumption, TimeTyped
  <1>6. phase' \in 0 .. tick_duration_us - 1 /\ age' \in Nat
    BY <1>2, <1>3, <1>4 DEF TimeTyped
  <1>7. Spinning' => Spinning
    BY <1>4 DEF Spinning
  <1>8. TimeTyped'
    BY <1>1, <1>3, <1>5, <1>6, <1>7 DEF TimeTyped
  <1> QED BY <1>1, <1>2, <1>3, <1>4, <1>8

(* A microsecond in a delay: at most the ticks it counts go by.            *)
LEMMA ElapseDelay ==
  ASSUME TimeInv, Elapse
  PROVE  DelayCounts'
  <1>1. TimeTyped /\ TimeTyped' /\ ~Over /\ tick_duration_us' = tick_duration_us
    BY Elapses DEF TimeInv
  <1>2. SUFFICES ASSUME spin'.kind = "delay"
                 PROVE  DelayCounts'
    BY DEF DelayCounts
  <1>3. /\ spin' = spin /\ spin.kind = "delay"
        /\ age' = age + 1 \/ (age >= MaxAge /\ age' = age)
    BY <1>1, <1>2, Elapses DEF Spinning
  <1>4. /\ spin.need \in Nat /\ spin.start \in 0 .. Word - 1 /\ spin.need >= 1
        /\ spin.asked \in Nat /\ age \in Nat
    BY <1>1, <1>3, TimersAssumption
    DEF TimersAssumption, TimeInv, TimeTyped, DelayCounts, Spinning
  <1> DEFINE d == tick_duration_us
             k == Ticked
             n == spin.need
  <1>5. SUFFICES ASSUME n < Word
                 PROVE  /\ Ticked' <= n /\ (Ticked' = n => phase' = 0)
                        /\ age' <= d * Ticked' + phase'
                        /\ age' >= MaxAge \/ age' + d > d * Ticked' + phase'
    BY <1>1, <1>3 DEF TimeInv, DelayCounts
  <1>6. k \in Nat /\ k < n
    <2>1. k \in 0 .. Word - 1
      BY <1>1, <1>4, Apart, systick_ticks \in 0 .. Word - 1 DEF TimeTyped, Ticked
    <2>2. ~(k >= n)
      BY <1>1, <1>3 DEF Over, DelayOver, Ticked
    <2> QED BY <1>4, <2>1, <2>2
  <1>7. /\ age <= d * k + phase
        /\ age >= MaxAge \/ age + d > d * k + phase
    BY <1>3, <1>5 DEF TimeInv, DelayCounts
  <1>8. d \in Nat \ {0} /\ phase \in 0 .. d - 1 /\ d * k \in Nat /\ MaxAge \in Nat
    BY <1>1, <1>6, TimersAssumption DEF TimeTyped, TimersAssumption
  <1>9. CASE phase' = phase + 1 /\ systick_ticks' = systick_ticks
    <2>1. Ticked' = k /\ n \in Nat
      BY <1>3, <1>4, <1>9 DEF Ticked
    <2> DEFINE x == d * k
    <2>2. d * Ticked' = x /\ x \in Nat /\ age <= x + phase /\ (age >= MaxAge \/ age + d > x + phase)
      BY <1>7, <1>8, <2>1
    <2> HIDE DEF x, k, d, n
    <2>3. Ticked' <= n /\ Ticked' # n
      BY <1>6, <2>1
    <2>4. phase' = phase + 1 /\ phase \in Nat /\ age \in Nat
      BY <1>4, <1>8, <1>9
    <2> QED BY <1>3, <1>8, <2>2, <2>3, <2>4
  <1>10. CASE phase + 1 = d /\ phase' = 0 /\ systick_ticks' = (systick_ticks + 1) % Word
    <2>1. Ticked' = k + 1
      <3>1. ((systick_ticks - spin.start) % Word) + 1 < Word
        BY <1>4, <1>5, <1>6, TimersAssumption DEF TimersAssumption, Ticked
      <3>2. systick_ticks \in 0 .. Word - 1 /\ spin'.start = spin.start
        BY <1>1, <1>3 DEF TimeTyped
      <3>3. (systick_ticks' - spin.start) % Word = ((systick_ticks - spin.start) % Word) + 1
        BY <1>4, <1>10, <3>1, <3>2, Further
      <3> QED BY <3>2, <3>3 DEF Ticked
    <2> HIDE DEF k, d, n
    <2>2. d * (k + 1) = d * k + d
      BY <1>6, <1>8
    <2>3. age <= d * k + phase /\ phase + 1 = d
      BY <1>7, <1>10
    <2> QED BY <1>3, <1>4, <1>6, <1>7, <1>8, <1>10, <2>1, <2>2 DEF n
  <1> QED BY <1>1, <1>9, <1>10, Elapses

(* A microsecond in a time-out: the microseconds go on with the time.      *)
LEMMA ElapseTimeout ==
  ASSUME TimeInv, Elapse
  PROVE  TimeoutCounts'
  <1>1. TimeTyped /\ TimeTyped' /\ tick_duration_us' = tick_duration_us
    BY Elapses DEF TimeInv
  <1>2. SUFFICES ASSUME spin'.kind = "timeout"
                 PROVE  TimeoutCounts'
    BY DEF TimeoutCounts
  <1>3. /\ spin' = spin /\ spin.kind = "timeout"
        /\ age' = age + 1 \/ (age >= MaxAge /\ age' = age)
    BY <1>1, <1>2, Elapses DEF Spinning
  <1>4. spin.start \in Nat /\ age \in Nat /\ Ms \in Nat /\ MaxAge \in Nat
    BY <1>1, <1>3, TimersAssumption DEF TimersAssumption, TimeTyped, Spinning
  <1> DEFINE d == tick_duration_us
             a == spin.start * Ms
             m == Micros
  <1>5. d \in Nat \ {0} /\ phase \in 0 .. d - 1 /\ a \in Nat /\ m \in Nat
    BY <1>1, <1>4, MicrosTyped, TimersAssumption DEF TimeTyped, TimersAssumption
  <1>6. SUFFICES ASSUME ~wrapped'
                 PROVE  /\ a <= Micros'
                        /\ age' >= MaxAge \/ age' + d + a + Ms > Micros' + phase'
    BY <1>1, <1>3 DEF TimeInv, TimeoutCounts
  <1>7. ~wrapped
    BY <1>1, <1>6, Elapses
  <1>8. a <= m /\ (age >= MaxAge \/ age + d + a + Ms > m + phase)
    BY <1>3, <1>7 DEF TimeInv, TimeoutCounts
  <1>9. \/ Micros' = m /\ phase' = phase + 1
        \/ Micros' = m + d /\ phase' = 0 /\ phase + 1 = d
    <2>1. CASE phase' = phase + 1 /\ UNCHANGED <<systick_ticks, wrapped>>
      BY <1>1, <2>1 DEF Micros
    <2>2. CASE /\ phase + 1 = tick_duration_us /\ phase' = 0
               /\ systick_ticks' = (systick_ticks + 1) % Word
               /\ wrapped' = (wrapped \/ Micros + tick_duration_us >= Word)
      <3>1. ~(m + d >= Word)
        BY <1>6, <2>2
      <3>2. m + d < Word
        BY <1>5, <3>1, TimersAssumption DEF TimersAssumption
      <3> QED BY <1>1, <2>2, <3>2, MicrosTick
    <2> QED BY <1>1, <2>1, <2>2, Elapses
  <1> HIDE DEF a, d, m
  <1> QED BY <1>3, <1>4, <1>5, <1>8, <1>9

LEMMA ElapseStep ==
  ASSUME TimeInv, Elapse
  PROVE  TimeInv'
  <1>1. TimeTyped' /\ DelayCounts' /\ TimeoutCounts'
    BY Elapses, ElapseDelay, ElapseTimeout DEF TimeInv
  <1>2. spin'.kind \notin {"delayed", "timed out"}
    BY Elapses DEF TimeInv, Spinning
  <1> QED BY <1>1, <1>2 DEF TimeInv, DelayLasts, TimeoutLasts

(* A wait is over: what it has counted is what it was to count.            *)
LEMMA FinishStep ==
  ASSUME TimeInv, Finish
  PROVE  TimeInv'
  <1>1. UNCHANGED <<systick_ticks, tick_duration_us, phase, age, wrapped>>
    BY DEF Finish
  <1>2. TimeTyped /\ Spinning
    BY DEF TimeInv, Finish, Over, Spinning
  <1>3. spin.need \in Nat /\ spin.start \in Nat /\ spin.asked \in Nat
    BY <1>2 DEF TimeTyped
  <1>4. /\ spin'.kind = IF spin.kind = "delay" THEN "delayed" ELSE "timed out"
        /\ spin'.asked = spin.asked
    BY <1>2 DEF Finish, TimeTyped
  <1>5. TimeTyped' /\ DelayCounts' /\ TimeoutCounts'
    BY <1>1, <1>2, <1>4 DEF TimeTyped, DelayCounts, TimeoutCounts, Spinning
  <1> DEFINE d == tick_duration_us
             start == spin.start
             asked == spin.asked
             need == spin.need
  <1>6. /\ d \in Nat \ {0} /\ phase \in 0 .. d - 1 /\ systick_ticks \in 0 .. Word - 1 /\ age \in Nat
        /\ MaxAge \in Nat /\ Word \in Nat \ {0} /\ Ms \in Nat \ {0}
    BY <1>2, TimersAssumption DEF TimeTyped, TimersAssumption
  <1>7. DelayLasts'
    <2>1. SUFFICES ASSUME spin.kind = "delay"
                   PROVE  /\ asked < Word => age + 2 * d > asked
                          /\ age <= asked \/ age <= d
      BY <1>1, <1>4 DEF DelayLasts
    <2>2. Ticked >= need /\ DelayCounts
      BY <2>1 DEF Finish, Over, DelayOver, Ticked, TimeInv
    <2>3. start \in 0 .. Word - 1
      BY <1>3, <1>6, <2>1, <2>2 DEF DelayCounts
    <2>4. Ticked \in 0 .. Word - 1
      BY <1>6, <2>3, Apart DEF Ticked
    <2>5. Ticked = need /\ phase = 0
      BY <1>3, <1>6, <2>1, <2>2, <2>4 DEF DelayCounts
    <2>6. /\ asked < MaxAge /\ (d * need <= asked \/ need = 1)
          /\ asked < Word => asked < d * need + d
          /\ age <= d * need /\ (age >= MaxAge \/ age + d > d * need)
      BY <1>3, <1>6, <2>1, <2>2, <2>4, <2>5 DEF DelayCounts
    <2> QED BY <1>3, <1>6, <2>6, TicksLast
  <1>8. TimeoutLasts'
    <2>1. SUFFICES ASSUME spin.kind = "timeout", ~wrapped
                   PROVE  age + Ms + d > asked * Ms
      BY <1>1, <1>2, <1>4 DEF TimeoutLasts, Spinning
    <2> DEFINE a == start * Ms
               b == asked * Ms
               m == Micros
    <2>2. /\ need = asked /\ b < MaxAge /\ a <= m
          /\ age >= MaxAge \/ age + d + a + Ms > m + phase
      BY <2>1 DEF TimeInv, TimeoutCounts
    <2>3. m \in 0 .. Word - 1 /\ start \in Nat /\ asked \in Nat
      BY <1>2, <1>3, MicrosTyped
    <2>4. ((m \div Ms) - start) % Word >= asked
      BY <2>1, <2>2 DEF Finish, Over, TimeoutOver, Millis
    <2> HIDE DEF m, start, asked
    <2>5. m >= a + b /\ a \in Nat /\ b \in Nat
      BY <1>6, <2>2, <2>3, <2>4, MillisOn
    <2> HIDE DEF a, b, d
    <2>6. age + Ms + d > b
      BY <1>6, <2>2, <2>3, <2>5
    <2> QED BY <2>6 DEF b
  <1> QED BY <1>5, <1>7, <1>8 DEF TimeInv

(* One action at a time.                                                   *)
LEMMA TimeNextStep ==
  ASSUME TimeInv, [TimebaseNext \/ FrequencyNext]_timevars
  PROVE  TimeInv'
  <1>1. ASSUME NEW n \in Waits, Delay(n) \/ DelayMs(n)
        PROVE  TimeInv'
    <2>1. n \in Nat /\ n * Ms \in Nat /\ n * Ms < MaxAge /\ n <= n * Ms
      BY TimersAssumption DEF TimersAssumption
    <2>2. (n * Ms) % Word \in Nat /\ (n * Ms) % Word <= n * Ms
      BY <2>1, DivNat, TimersAssumption DEF TimersAssumption
    <2>3. MaxAge \in Nat
      BY TimersAssumption DEF TimersAssumption
    <2>4. n < MaxAge
      BY <2>1, <2>3
    <2>5. n * Ms < Word => (n * Ms) % Word = n * Ms
      BY <2>1, InWord
    <2> QED BY <1>1, <2>1, <2>2, <2>4, <2>5, DelayStep DEF Delay, DelayMs
  <1>2. ASSUME FrequencyNext \/ UNCHANGED timevars
        PROVE  TimeInv'
    BY <1>2, TimeUnchanged DEF FrequencyNext, InitFreq, timevars
  <1> QED
    BY <1>1, <1>2, TimebaseInitStep, TimeoutStep, FinishStep, ElapseStep DEF TimebaseNext

(* What the theorems on the waits follow from.                             *)
THEOREM TimeInvariant == TimersSpec => []TimeInv
  <1>1. TimeInv /\ [TimebaseNext \/ FrequencyNext]_timevars => TimeInv'
    BY TimeNextStep
  <1> QED BY TimersInitHolds, <1>1, PTL DEF TimersSpec

(* A delay ends less than two ticks early, if its microseconds fit the     *)
(* word, and never late, wherever the counter stands when it begins and    *)
(* whether or not it wraps.                                                *)
THEOREM DelaysLast == TimersSpec => []DelayLasts
  <1>1. TimeInv => DelayLasts
    BY DEF TimeInv
  <1> QED BY TimeInvariant, <1>1, PTL

(* A time-out does not pass early by more than a millisecond and a tick,   *)
(* unless the microseconds wrap.                                           *)
THEOREM TimeoutsLast == TimersSpec => []TimeoutLasts
  <1>1. TimeInv => TimeoutLasts
    BY DEF TimeInv
  <1> QED BY TimeInvariant, <1>1, PTL

-----------------------------------------------------------------------------
(* The timers' dividers and periods.                                       *)

\* a divider and a count that come to the ticks asked for, but for less than
\* one count
Fits(set, top, ticks) ==
  /\ set.div \in Nat \ {0} /\ set.count \in 1 .. top
  /\ set.div * set.count <= ticks /\ ticks < set.div * (set.count + 1)

(* A divider whose quotient fits the counter gives such a count.           *)
LEMMA QuotientFits ==
  ASSUME NEW ticks \in Nat, NEW top \in Nat, NEW d \in Nat \ {0}, ticks \div d \in 1 .. top
  PROVE  Fits([div |-> d, count |-> ticks \div d], top, ticks)
  <1> DEFINE q == ticks \div d
  <1>1. d * q <= ticks /\ ticks < d * q + d
    BY DivNat
  <1>2. q \in 1 .. top
    OBVIOUS
  <1> HIDE DEF q
  <1>3. d * (q + 1) = d * q + d
    BY <1>2
  <1>4. Fits([div |-> d, count |-> q], top, ticks)
    BY <1>1, <1>2, <1>3 DEF Fits
  <1> QED BY <1>4 DEF q

(* stm32_timer_set_timebase: the search stays among dividers that fit.     *)
LEMMA SearchFits ==
  ASSUME NEW top \in Nat \ {0}, NEW ticks \in Nat \ {0}, ticks < top * top
  PROVE  Fits(Searched(top, ticks), top, ticks) /\ Searched(top, ticks).div <= top
  <1>1. CASE ticks <= top
    <2>1. Searched(top, ticks) = [div |-> 1, count |-> ticks]
      BY <1>1 DEF Searched
    <2> QED BY <1>1, <2>1 DEF Fits
  <1>2. CASE ~(ticks <= top)
    <2> DEFINE low == ticks \div top
               last == IF low + 9 < top THEN low + 9 ELSE top - 1
               over(p) == ticks % (p + 1)
               Best(p) == \A q \in low .. last : over(p) < over(q) \/ (over(p) = over(q) /\ p <= q)
               psc == CHOOSE p \in low .. last : Best(p)
               d == psc + 1
    <2>1. low \in Nat /\ low < top /\ ticks < top * low + top
      BY AtLeast, DivNat
    <2>2. low \in low .. last /\ low .. last \subseteq Nat
      BY <2>1
    <2>3. \E p \in low .. last : Best(p)
      <3>1. \A p \in low .. last : over(p) \in Nat
        BY <2>2, DivNat
      <3> DEFINE f == [p \in low .. last |-> over(p)]
      <3> HIDE DEF over, low, last
      <3>2. f \in [low .. last -> Nat]
        BY <3>1
      <3>3. \E p \in low .. last : \A q \in low .. last : f[p] < f[q] \/ (f[p] = f[q] /\ p <= q)
        BY <2>2, <3>2, LeastOver
      <3> QED BY <3>3
    <2>4. psc \in low .. last
      BY <2>3
    <2>5. Searched(top, ticks) = [div |-> d, count |-> 1 + (((ticks \div d) - 1) % top)]
      BY <1>2 DEF Searched
    <2> HIDE DEF psc
    <2>6. psc \in Nat /\ low <= psc /\ psc < top
      BY <2>1, <2>4
    <2> HIDE DEF low
    <2>7. d \in Nat \ {0} /\ d <= top /\ low + 1 <= d
      BY <2>1, <2>6
    <2> DEFINE n == ticks \div d
    <2>8. n \in 1 .. top
      <3>1. d * 1 <= ticks
        BY <1>2, <2>7
      <3>2. top * (low + 1) <= top * d
        BY <2>1, <2>7, Times
      <3>3. /\ top * (low + 1) = top * low + top /\ top * d = d * top
            /\ top * low \in Nat /\ d * top \in Nat
        BY <2>1, <2>7
      <3> HIDE DEF d
      <3>4. ticks < d * top
        BY <2>1, <3>2, <3>3
      <3>5. 1 <= n /\ n < top
        BY <2>7, <3>1, <3>4, AtLeast
      <3>6. n \in Nat
        BY <2>7, DivNat
      <3> QED BY <3>5, <3>6
    <2>9. Fits([div |-> d, count |-> n], top, ticks)
      BY <2>7, <2>8, QuotientFits
    <2> HIDE DEF d
    <2>10. 1 + ((n - 1) % top) = n
      <3> HIDE DEF n
      <3>1. (n - 1) % top = n - 1
        BY <2>8, ModIs, n - 1 = top * 0 + (n - 1)
      <3> QED BY <2>8, <3>1
    <2> QED BY <2>5, <2>7, <2>9, <2>10
  <1> QED BY <1>1, <1>2

(* The table's divider fits if any does.                                   *)
LEMMA TableFits ==
  ASSUME NEW chip, chip.top \in Nat \ {0}, chip.divs \in Seq(Nat \ {0}), NEW ticks \in Nat,
         Fitting(chip, ticks) # {}
  PROVE  Fits(Solved(chip, ticks), chip.top, ticks)
  <1>1. Fitting(chip, ticks) \subseteq Nat
    BY DEF Fitting
  <1> DEFINE i == CHOOSE i \in Fitting(chip, ticks) : \A j \in Fitting(chip, ticks) : i <= j
  <1>2. i \in Fitting(chip, ticks)
    BY <1>1, Least
  <1>3. Solved(chip, ticks) = [div |-> chip.divs[i], count |-> ticks \div chip.divs[i]]
    BY DEF Solved
  <1> HIDE DEF i
  <1>4. i \in DOMAIN chip.divs /\ ticks \div chip.divs[i] \in 1 .. chip.top
    BY <1>2 DEF Fitting
  <1>5. chip.divs[i] \in Nat \ {0}
    BY <1>4
  <1> QED BY <1>3, <1>4, <1>5, QuotientFits

(* The frequency read back is no lower than the one asked for.             *)
LEMMA FrequencyKept ==
  ASSUME NEW freq \in Nat \ {0}, freq <= Clk, NEW set, NEW top \in Nat,
         Fits(set, top, Clk \div freq)
  PROVE  Frequency(set) >= freq
  <1> DEFINE d == set.div
             n == set.count
             t == Clk \div freq
  <1>1. Clk \in Nat /\ d \in Nat \ {0} /\ n \in Nat \ {0} /\ d * n <= t
    BY TimersAssumption DEF TimersAssumption, Fits
  <1>2. t \in Nat /\ freq * t <= Clk
    BY <1>1, DivNat
  <1>3. Frequency(set) = (Clk \div d) \div n
    BY DEF Frequency
  <1> HIDE DEF d, n, t
  <1>4. freq * (d * n) <= freq * t
    BY <1>1, <1>2, Times
  <1>5. freq * (d * n) = d * (n * freq) /\ d * (n * freq) \in Nat /\ freq * t \in Nat
    BY <1>1, <1>2
  <1> DEFINE x == n * freq
             y == Clk \div d
  <1>6. d * x <= Clk
    BY <1>1, <1>2, <1>4, <1>5
  <1>7. x \in Nat /\ y \in Nat
    BY <1>1, DivNat
  <1>8. x <= y
    <2> HIDE DEF x
    <2> QED BY <1>1, <1>6, <1>7, AtLeast
  <1> HIDE DEF y
  <1>9. freq <= y \div n
    BY <1>1, <1>7, <1>8, AtLeast
  <1>10. y \div n \in Nat
    BY <1>1, <1>7, DivNat
  <1> QED BY <1>3, <1>9, <1>10 DEF y

(* hal_timer_init_freq.                                                    *)
LEMMA InitFreqFits ==
  ASSUME NEW c \in DOMAIN Chips, NEW freq \in 1 .. (Clk + 1), InitFreq(c, freq)
  PROVE  PeriodFits'
  <1> DEFINE chip == Chips[c]
             whole == Clk \div freq
             ticks == IF whole = 0 THEN 1 ELSE whole
             set == Split(chip, ticks)
  <1>1. /\ chip.top \in Nat \ {0} /\ chip.divs \in Seq(Nat \ {0}) /\ Clk \in Nat \ {0}
        /\ chip.divs = <<>> => Clk < chip.top * chip.top
    BY TimersAssumption DEF TimersAssumption
  <1>2. SUFFICES ASSUME timer' # NoTimer
                 PROVE  PeriodFits'
    BY DEF PeriodFits
  <1>3. /\ timer' = [chip |-> c, freq |-> freq, ticks |-> ticks, set |-> set]
        /\ chip.divs = <<>> \/ Fitting(chip, ticks) # {}
    BY <1>2 DEF InitFreq
  <1>4. /\ freq \in Nat \ {0} /\ whole \in Nat /\ whole <= Clk
        /\ freq <= Clk => ticks = whole
    <2>0. freq \in Nat \ {0}
      BY <1>1
    <2>1. whole \in Nat /\ freq * whole <= Clk
      BY <1>1, <2>0, DivNat
    <2>2. freq <= Clk => 1 <= whole
      BY <1>1, <2>0, AtLeast, freq * 1 = freq
    <2> HIDE DEF whole
    <2>3. whole <= freq * whole /\ freq * whole \in Nat
      BY <2>0, <2>1
    <2> QED BY <1>1, <2>0, <2>1, <2>2, <2>3
  <1> HIDE DEF chip, whole
  <1>5. ticks \in Nat \ {0} /\ ticks <= Clk
    BY <1>1, <1>4
  <1> HIDE DEF ticks
  <1>6. Fits(set, chip.top, ticks) /\ (chip.divs = <<>> => set.div <= chip.top)
    <2>1. CASE chip.divs = <<>>
      <3>1. ticks < chip.top * chip.top
        BY <1>1, <1>5, <2>1
      <3> QED BY <1>1, <1>5, <2>1, <3>1, SearchFits DEF Split
    <2>2. CASE chip.divs # <<>>
      BY <1>1, <1>3, <1>5, <2>2, TableFits DEF Split
    <2> QED BY <2>1, <2>2
  <1> HIDE DEF set
  <1>7. freq <= Clk => Frequency(set) >= freq
    BY <1>1, <1>4, <1>6, FrequencyKept DEF whole
  <1> QED BY <1>3, <1>6, <1>7 DEF PeriodFits, Fits, Frequency, chip

(* A timer is given only a period that fits it, for every clock, counter   *)
(* and table of dividers, and never a slower one than was asked for.       *)
THEOREM PeriodsFit == TimersSpec => []PeriodFits
  <1>1. TimersInit => PeriodFits
    BY DEF TimersInit, PeriodFits
  <1>2. PeriodFits /\ [TimebaseNext \/ FrequencyNext]_timevars => PeriodFits'
    <2> SUFFICES ASSUME PeriodFits, [TimebaseNext \/ FrequencyNext]_timevars
                 PROVE  PeriodFits'
      OBVIOUS
    <2>1. CASE FrequencyNext
      BY <2>1, InitFreqFits DEF FrequencyNext
    <2>2. CASE TimebaseNext \/ UNCHANGED timevars
      <3>1. timer' = timer
        BY <2>2
        DEF TimebaseNext, TimebaseInit, Delay, DelayMs, DelayFor, Timeout, StartSpin, Finish, Elapse,
            timevars
      <3> QED BY <3>1 DEF PeriodFits, Frequency
    <2> QED BY <2>1, <2>2
  <1> QED BY <1>1, <1>2, PTL DEF TimersSpec
=============================================================================
