--------------------------------- MODULE UsbProofs --------------------------
(***************************************************************************)
(* The USB CDC device for every ring, packet size, chunk, set of lengths   *)
(* and of line codings.  Received bytes come in order and none is dropped; *)
(* the busy flags end, and the host sees the boundaries of the writes; the *)
(* driver knows whether it is connected, keeps the host's line coding and  *)
(* ends its answers.                                                       *)
(***************************************************************************)
EXTENDS UsbRx, UsbTx, UsbControl, TLAPS

-----------------------------------------------------------------------------
(* Receiving.                                                              *)

RxTyped ==
  /\ head \in Slots /\ tail \in Slots /\ fifo \in Nat
  /\ pc \in {"compare", "store"} => next \in Slots

\* nothing of the endpoint is left to be served
Quiet == ~rxlvl /\ ~xfrc

Drained == fifo > 0 => rxlvl

\* the endpoint, its interrupt and the reader take turns
Turns ==
  forced \/ /\ fifo <= Packet
            /\ epena => Quiet
            /\ ~(rxlvl /\ xfrc)
            /\ configured /\ ~armed => Quiet /\ (epena => stall)
            /\ pc = "rearm" => ~armed /\ Quiet /\ (epena => stall)

\* a read in the middle of taking a byte
Taking ==
  torn \/ /\ pc = "compare" => next = tail
          /\ pc = "take" => head # tail
          /\ pc = "store" => head # tail /\ next = (tail + 1) % RingSize

Room ==
  forced \/ torn \/ /\ fifo + (IF epena THEN Packet ELSE 0) <= ring_free
                    /\ pc = "rearm" => Packet <= ring_free

RxInv == RxTyped /\ Drained /\ Turns /\ Taking /\ Room

(* The remainder of a number less than a modulus away from its range.      *)
LEMMA ModSame ==
  ASSUME NEW n \in Nat \ {0}, NEW x \in Int, 0 <= x, x < n
  PROVE  x % n = x
  OBVIOUS

(* One modulus too many.                                                   *)
LEMMA ModOver ==
  ASSUME NEW n \in Nat \ {0}, NEW x \in Int, n <= x, x - n < n
  PROVE  x % n = x - n
  BY SMTT(60)

(* One modulus too few.                                                    *)
LEMMA ModUnder ==
  ASSUME NEW n \in Nat \ {0}, NEW x \in Int, -n <= x, x < 0
  PROVE  x % n = x + n
  BY SMTT(60)

(* ring_used without the remainder.                                        *)
LEMMA UsedIs ==
  ASSUME NEW h \in Slots, NEW t \in Slots
  PROVE  Used(h, t) = IF h >= t THEN h - t ELSE h - t + RingSize
  <1>1. /\ RingSize \in Nat \ {0} /\ h - t \in Int
        /\ -RingSize <= h - t /\ h - t < RingSize /\ (h >= t <=> 0 <= h - t)
    BY UsbRxConstants DEF Slots
  <1>2. CASE h >= t
    BY <1>1, <1>2, ModSame DEF Used
  <1>3. CASE ~(h >= t)
    BY <1>1, <1>3, ModUnder DEF Used
  <1> QED BY <1>2, <1>3

(* ring_used and ring_free share the ring, and one slot stays empty.       *)
LEMMA FreeIs ==
  ASSUME RxTyped
  PROVE  /\ RingSize \in Nat /\ Packet \in Nat /\ 0 < Packet /\ Packet < RingSize
         /\ ring_used \in Nat /\ ring_free \in Nat /\ ring_free + ring_used = RingSize - 1
         /\ head # tail => ring_used > 0
  <1>1. RingSize \in Nat /\ Packet \in Nat /\ 0 < Packet /\ Packet < RingSize
    BY UsbRxConstants
  <1>2. ring_used = IF head >= tail THEN head - tail ELSE head - tail + RingSize
    BY UsedIs DEF RxTyped, ring_used
  <1>3. head \in Nat /\ tail \in Nat /\ head < RingSize /\ tail < RingSize
    BY <1>1 DEF RxTyped, Slots
  <1> QED BY <1>1, <1>2, <1>3 DEF ring_free

(* ring_push of what fits moves the head without passing the tail.         *)
LEMMA PushUses ==
  ASSUME NEW h \in Slots, NEW t \in Slots, NEW k \in Nat, k <= (RingSize - 1) - Used(h, t)
  PROVE  /\ (h + k) % RingSize \in Slots
         /\ Used((h + k) % RingSize, t) = Used(h, t) + k
         /\ h # t => (h + k) % RingSize # t
  <1>1. RingSize \in Nat \ {0} /\ h \in Nat /\ t \in Nat /\ h < RingSize /\ t < RingSize
    BY UsbRxConstants DEF Slots
  <1>2. Used(h, t) = IF h >= t THEN h - t ELSE h - t + RingSize
    BY UsedIs
  <1>3. (h + k) % RingSize = IF h + k < RingSize THEN h + k ELSE h + k - RingSize
    <2>1. h + k \in Int /\ 0 <= h + k /\ h + k < 2 * RingSize
      BY <1>1, <1>2
    <2>2. CASE h + k < RingSize
      BY <1>1, <2>1, <2>2, ModSame
    <2>3. CASE ~(h + k < RingSize)
      <3>1. RingSize <= h + k /\ (h + k) - RingSize < RingSize
        BY <1>1, <2>1, <2>3
      <3>2. (h + k) % RingSize = (h + k) - RingSize
        BY <1>1, <2>1, <3>1, ModOver
      <3> QED BY <1>1, <2>3, <3>2
    <2> QED BY <2>2, <2>3
  <1>4. (h + k) % RingSize \in Slots
    BY <1>1, <1>2, <1>3 DEF Slots
  <1>5. Used((h + k) % RingSize, t)
          = IF (h + k) % RingSize >= t THEN ((h + k) % RingSize) - t
                                       ELSE ((h + k) % RingSize) - t + RingSize
    BY <1>4, UsedIs
  <1> QED BY <1>1, <1>2, <1>3, <1>4, <1>5

(* A byte taken out of a ring, which holds one less if it was not empty.   *)
LEMMA TakeFrees ==
  ASSUME NEW h \in Slots, NEW t \in Slots
  PROVE  /\ (t + 1) % RingSize \in Slots
         /\ h # t => Used(h, (t + 1) % RingSize) = Used(h, t) - 1
  <1>1. RingSize \in Nat \ {0} /\ h \in Nat /\ t \in Nat /\ h < RingSize /\ t < RingSize
    BY UsbRxConstants DEF Slots
  <1>2. (t + 1) % RingSize = IF t + 1 < RingSize THEN t + 1 ELSE 0
    <2>1. CASE t + 1 < RingSize
      BY <1>1, <2>1, ModSame
    <2>2. CASE ~(t + 1 < RingSize)
      <3>1. t + 1 \in Int /\ RingSize <= t + 1 /\ (t + 1) - RingSize < RingSize
        BY <1>1, <2>2
      <3>2. (t + 1) % RingSize = (t + 1) - RingSize
        BY <1>1, <3>1, ModOver
      <3> QED BY <1>1, <2>2, <3>2
    <2> QED BY <2>1, <2>2
  <1>3. (t + 1) % RingSize \in Slots
    BY <1>1, <1>2 DEF Slots
  <1> QED BY <1>1, <1>2, <1>3, UsedIs

(* The least of two.                                                       *)
LEMMA MinOfTwo ==
  ASSUME NEW a \in Int, NEW b \in Int
  PROVE  Min({a, b}) = IF a <= b THEN a ELSE b
  <1>1. \E x \in {a, b} : \A y \in {a, b} : x <= y
    OBVIOUS
  <1>2. /\ Min({a, b}) \in {a, b}
        /\ \A y \in {a, b} : Min({a, b}) <= y
    BY <1>1 DEF Min
  <1> QED BY <1>2

(* The ring is empty at first and after a bus reset.                       *)
LEMMA EmptyRing == 0 \in Slots /\ Used(0, 0) = 0
  <1>1. 0 \in Slots
    BY UsbRxConstants DEF Slots
  <1> QED BY <1>1, UsedIs

(* The ring and the FIFO are empty at start-up.                            *)
LEMMA RxInitHolds == Init => RxInv
  BY EmptyRing, UsbRxConstants
     DEF Init, PortInit, RxInv, RxTyped, Drained, Turns, Taking, Room, Quiet, ring_free, ring_used

(* Bring-up, and a bus reset: whatever happened before is forgotten, except *)
(* a packet that the FIFO still holds.                                      *)
LEMMA RxBusStep ==
  ASSUME RxInv, UsbInit \/ UsbDeinit \/ BusReset
  PROVE  RxInv'
  <1> USE DEF RxInv, RxTyped, Drained, Turns, Taking, Room, Quiet
  <1>0. /\ RingSize \in Nat /\ Packet \in Nat /\ 0 < Packet /\ Packet < RingSize
        /\ ring_free \in Nat
    BY FreeIs
  <1>1. CASE UsbInit
    <2>1. ring_free' = ring_free
      BY <1>1 DEF UsbInit, ringv, ring_free, ring_used
    <2> QED BY <1>0, <1>1, <2>1 DEF UsbInit, ringv, call
  <1>2. CASE UsbDeinit
    BY <1>2 DEF UsbDeinit, rxvars, ringv, out, call, hist, ring_free, ring_used
  <1>3. CASE BusReset
    <2>1. head' = 0 /\ tail' = 0 /\ 0 \in Slots /\ Used(0, 0) = 0
      BY <1>3, EmptyRing DEF BusReset
    <2>2. ring_free' = RingSize - 1
      BY <1>0, <2>1 DEF ring_free, ring_used
    <2>3. /\ ~epena' /\ ~xfrc' /\ ~configured'
          /\ UNCHANGED <<fifo, rxlvl, pc, next>>
          /\ pc \in {"take", "store"} \/ (pc = "compare" /\ next # 0) => torn'
          /\ ~forced' => ~forced \/ ~rxlvl
      BY <1>3 DEF BusReset, call
    <2>4. RxTyped' /\ Drained' /\ Taking'
      BY <2>1, <2>3
    <2>5. Turns'
      BY <1>0, <1>3, <2>3 DEF BusReset
    <2>6. Room'
      BY <1>0, <2>2, <2>3
    <2> QED BY <2>4, <2>5, <2>6
  <1> QED BY <1>1, <1>2, <1>3

(* The control requests: one that finds the endpoint busy is forced.       *)
LEMMA RxRequestStep ==
  ASSUME RxInv, \/ EpOpen \/ EpClose \/ EpResetToggles
                \/ \E e \in OutEps : EpHalt(e) \/ EpClearHalt(e)
  PROVE  RxInv'
  <1>0. Packet \in Nat /\ ring_free \in Nat /\ RxTyped /\ Drained /\ Turns /\ Taking /\ Room
    BY FreeIs DEF RxInv
  <1> DEFINE past == ring_free < Packet \/ epena \/ pc = "rearm"
  <1>1. /\ UNCHANGED <<head, tail, fifo, rxlvl, xfrc, pc, next, torn>>
        /\ forced' \/ (~forced /\ ~rxlvl /\ ~xfrc)
    BY DEF EpOpen, EpClose, EpHalt, EpClearHalt, EpResetToggles, Request, ringv, call
  <1>2. \/ forced'
        \/ armed' /\ epena' /\ ~(pc = "rearm") /\ Packet <= ring_free
        \/ ~armed' /\ ~epena'
        \/ ~armed' /\ stall' /\ epena' = epena
    <2>0. /\ Request(TRUE) => /\ armed' /\ epena'
                              /\ past => forced'
          /\ Request(FALSE) => ~armed' /\ (epena' /\ ~stall' => forced')
      BY DEF Request, out_arm
    <2>1. CASE EpOpen
      BY <1>0, <2>0, <2>1 DEF EpOpen
    <2>2. CASE EpClose
      BY <2>0, <2>2 DEF EpClose
    <2>3. CASE \E e \in OutEps : EpHalt(e)
      BY <2>0, <2>3 DEF EpHalt
    <2>4. CASE \E e \in OutEps : EpClearHalt(e)
      BY <1>0, <2>0, <2>4 DEF EpClearHalt
    <2>5. CASE EpResetToggles
      BY <1>0, <2>0, <2>5 DEF EpResetToggles
    <2> QED BY <2>1, <2>2, <2>3, <2>4, <2>5
  <1>3. ring_free' = ring_free
    BY <1>1 DEF ring_free, ring_used
  <1>4. RxTyped' /\ Drained' /\ Taking'
    BY <1>0, <1>1 DEF RxTyped, Drained, Taking
  <1>5. Turns'
    BY <1>0, <1>1, <1>2 DEF Turns, Quiet
  <1>6. Room'
    BY <1>0, <1>1, <1>2, <1>3 DEF RxTyped, Drained, Room
  <1> QED BY <1>4, <1>5, <1>6 DEF RxInv

(* A packet taken into the FIFO: its bytes take the place kept for them.   *)
LEMMA RxHostStep ==
  ASSUME RxInv, NEW n \in 0 .. Packet, HostSend(n)
  PROVE  RxInv'
  <1>0. Packet \in Nat /\ ring_free \in Nat /\ RxTyped /\ Drained /\ Turns /\ Taking /\ Room
    BY FreeIs DEF RxInv
  <1>1. /\ configured /\ epena /\ ~stall /\ fifo' = fifo + n /\ rxlvl' /\ ~epena'
        /\ UNCHANGED <<head, tail, configured, armed, stall, xfrc, pc, next, torn, forced>>
    BY DEF HostSend, port, ringv, call, hist
  <1>2. ring_free' = ring_free
    BY <1>1 DEF ring_free, ring_used
  <1>3. RxTyped' /\ Drained' /\ Taking'
    BY <1>0, <1>1 DEF RxTyped, Drained, Taking
  <1>4. ~forced => fifo = 0 /\ armed /\ ~(pc = "rearm")
    BY <1>0, <1>1 DEF RxTyped, Drained, Turns, Quiet
  <1>5. Turns'
    BY <1>0, <1>1, <1>4 DEF Turns, Quiet
  <1>6. Room'
    BY <1>0, <1>1, <1>2, <1>4 DEF Room
  <1> QED BY <1>3, <1>5, <1>6 DEF RxInv

(* on_rxflvl: what is pushed fits, and the head does not reach the tail.   *)
LEMMA RxflvlStep ==
  ASSUME RxInv, OnRxflvl
  PROVE  RxInv'
  <1>0. /\ RingSize \in Nat /\ Packet \in Nat /\ ring_used \in Nat /\ ring_free \in Nat
        /\ ring_free + ring_used = RingSize - 1
        /\ RxTyped /\ Drained /\ Turns /\ Taking /\ Room
    BY FreeIs DEF RxInv
  <1>1. /\ rxlvl /\ ~rxlvl' /\ fifo' = 0 /\ xfrc'
        /\ UNCHANGED <<configured, tail, armed, epena, stall, pc, next, torn, forced>>
    BY DEF OnRxflvl, port, call
  <1>2. \E k \in Nat : k <= fifo /\ k <= ring_free /\ head' = (head + k) % RingSize
    <2>1. CASE cb
      <3>1. head' = head
        BY <2>1 DEF OnRxflvl
      <3>2. head = (head + 0) % RingSize
        BY <1>0, UsbRxConstants, ModSame DEF RxTyped, Slots
      <3> QED BY <3>1, <3>2, <1>0 DEF RxTyped
    <2>2. CASE ~cb
      <3> DEFINE k == Min({fifo, ring_free})
      <3>1. k \in Nat /\ k <= fifo /\ k <= ring_free
        BY <1>0, MinOfTwo DEF RxTyped
      <3>2. head' = (head + k) % RingSize
        BY <2>2 DEF OnRxflvl, RingPush
      <3> QED BY <3>1, <3>2
    <2> QED BY <2>1, <2>2
  <1>3. /\ head' \in Slots /\ ring_free' >= ring_free - fifo /\ ring_free' \in Int
        /\ head # tail => head' # tail
    <2>1. PICK k \in Nat : k <= fifo /\ k <= ring_free /\ head' = (head + k) % RingSize
      BY <1>2
    <2>2. k <= (RingSize - 1) - Used(head, tail)
      BY <2>1 DEF ring_free, ring_used
    <2>3. /\ head' \in Slots /\ Used(head', tail) = ring_used + k
          /\ head # tail => head' # tail
      BY <1>0, <2>1, <2>2, PushUses DEF RxTyped, ring_used
    <2>4. ring_free' = (RingSize - 1) - (ring_used + k)
      BY <1>1, <2>3 DEF ring_free, ring_used
    <2> QED BY <1>0, <2>1, <2>3, <2>4 DEF RxTyped
  <1>4. RxTyped' /\ Drained' /\ Taking'
    BY <1>0, <1>1, <1>3 DEF RxTyped, Drained, Taking
  <1>5. ~forced => ~epena /\ ~(pc = "rearm") /\ (configured => armed)
    BY <1>0, <1>1 DEF Turns, Quiet
  <1>6. Turns'
    BY <1>0, <1>1, <1>5 DEF Turns, Quiet
  <1>7. Room'
    BY <1>0, <1>1, <1>3, <1>5 DEF Room, RxTyped
  <1> QED BY <1>4, <1>6, <1>7 DEF RxInv

(* on_out_ep_int: armed again when a packet has room.                      *)
LEMMA RxOutStep ==
  ASSUME RxInv, OnOutEpInt
  PROVE  RxInv'
  <1>0. Packet \in Nat /\ ring_free \in Nat /\ RxTyped /\ Drained /\ Turns /\ Taking /\ Room
    BY FreeIs DEF RxInv
  <1>1. /\ configured /\ xfrc /\ ~xfrc'
        /\ UNCHANGED <<head, tail, configured, stall, fifo, rxlvl, pc, next, torn, forced>>
        /\ \/ Packet <= ring_free /\ armed' /\ epena'
           \/ ~armed' /\ epena' = epena
    BY <1>0 DEF OnOutEpInt, out_arm, port, ringv, call, hist
  <1>2. ring_free' = ring_free
    BY <1>1 DEF ring_free, ring_used
  <1>3. RxTyped' /\ Drained' /\ Taking'
    BY <1>0, <1>1 DEF RxTyped, Drained, Taking
  <1>4. ~forced => ~rxlvl /\ ~epena /\ fifo = 0 /\ ~(pc = "rearm")
    BY <1>0, <1>1 DEF Turns, Quiet, Drained, RxTyped
  <1>5. Turns'
    BY <1>0, <1>1, <1>4 DEF Turns, Quiet
  <1>6. Room'
    BY <1>0, <1>1, <1>2, <1>4 DEF Room
  <1> QED BY <1>3, <1>5, <1>6 DEF RxInv

(* hal_usb_cdc_read.                                                       *)
LEMMA ReadStep ==
  ASSUME RxInv, Read \/ ReadSteps
  PROVE  RxInv'
  <1>0. /\ RingSize \in Nat /\ Packet \in Nat /\ ring_used \in Nat /\ ring_free \in Nat
        /\ ring_free + ring_used = RingSize - 1
        /\ RxTyped /\ Drained /\ Turns /\ Taking /\ Room
    BY FreeIs DEF RxInv
  <1> USE DEF port, ringv, out, call, hist
  <1>1. CASE Read \/ ReadTest \/ ReadCompare \/ ReadTake \/ ReadCheck
    <2>1. UNCHANGED <<head, tail, configured, armed, epena, stall, xfrc, fifo, rxlvl, torn, forced>>
      BY <1>1 DEF Read, ReadCall, ReadTest, ReadCompare, ReadTake, ReadCheck
    <2>2. ring_free' = ring_free
      BY <2>1 DEF ring_free, ring_used
    <2>3. /\ pc' = "compare" => next' = tail
          /\ torn \/ (pc' = "take" => head # tail)
          /\ pc' = "store" => pc = "take" /\ next' = (tail + 1) % RingSize
          /\ pc' = "rearm" => ~armed /\ configured /\ Packet <= ring_free
      <3>1. CASE Read
        BY <3>1 DEF Read, ReadCall
      <3>2. CASE ReadTest
        BY <3>2 DEF ReadTest
      <3>3. CASE ReadTake
        BY <3>3 DEF ReadTake
      <3>5. CASE ReadCompare
        BY <1>0, <3>5 DEF ReadCompare, Taking
      <3>4. CASE ReadCheck
        BY <1>0, <3>4 DEF ReadCheck
      <3> QED BY <1>1, <3>1, <3>2, <3>3, <3>4, <3>5
    <2>4. RxTyped' /\ Drained' /\ Taking'
      BY <1>0, <2>1, <2>3, TakeFrees DEF RxTyped, Drained, Taking
    <2>5. Turns'
      BY <1>0, <2>1, <2>3 DEF Turns, Quiet
    <2>6. Room'
      BY <1>0, <2>1, <2>2, <2>3 DEF Room
    <2> QED BY <2>4, <2>5, <2>6 DEF RxInv
  <1>2. CASE ReadStore
    <2>1. /\ pc = "store" /\ pc' = "test" /\ tail' = next
          /\ UNCHANGED <<head, configured, armed, epena, stall, xfrc, fifo, rxlvl, torn, forced>>
      BY <1>2 DEF ReadStore
    <2>2. RxTyped' /\ Drained' /\ Taking' /\ Turns'
      BY <1>0, <2>1 DEF RxTyped, Drained, Taking, Turns, Quiet
    <2>3. ~torn => ring_free' = ring_free + 1
      <3> SUFFICES ASSUME ~torn PROVE ring_free' = ring_free + 1
        OBVIOUS
      <3>1. next = (tail + 1) % RingSize /\ head # tail
        BY <1>0, <2>1 DEF Taking
      <3>2. Used(head, next) = ring_used - 1
        BY <1>0, <3>1, TakeFrees DEF RxTyped, ring_used
      <3>3. ring_free' = (RingSize - 1) - Used(head, next)
        BY <2>1 DEF ring_free, ring_used
      <3> QED BY <1>0, <3>2, <3>3
    <2>4. Room'
      BY <1>0, <2>1, <2>3 DEF Room, RxTyped
    <2> QED BY <2>2, <2>4 DEF RxInv
  <1>3. CASE ReadRearm
    <2>1. /\ pc = "rearm" /\ pc' = "idle"
          /\ UNCHANGED <<head, tail, configured, stall, xfrc, fifo, rxlvl, torn, forced>>
          /\ (armed /\ armed' = armed /\ epena' = epena) \/ (~armed /\ armed' /\ epena')
      BY <1>3 DEF ReadRearm, out_arm
    <2>2. ring_free' = ring_free
      BY <2>1 DEF ring_free, ring_used
    <2>3. RxTyped' /\ Drained' /\ Taking'
      BY <1>0, <2>1 DEF RxTyped, Drained, Taking
    <2>4. ~forced => fifo = 0 /\ ~armed
      BY <1>0, <2>1 DEF RxTyped, Drained, Turns, Quiet
    <2>5. Turns'
      BY <1>0, <2>1, <2>4 DEF Turns, Quiet
    <2>6. Room'
      BY <1>0, <2>1, <2>2, <2>4 DEF Room
    <2> QED BY <2>3, <2>5, <2>6 DEF RxInv
  <1> QED BY <1>1, <1>2, <1>3 DEF ReadSteps

(* One action at a time.                                                   *)
LEMMA RxNextStep ==
  ASSUME RxInv, [Next]_vars
  PROVE  RxInv'
  <1>1. CASE UsbInit \/ UsbDeinit \/ BusReset
    BY <1>1, RxBusStep
  <1>2. CASE \/ EpOpen \/ EpClose \/ EpResetToggles
             \/ \E e \in OutEps : EpHalt(e) \/ EpClearHalt(e)
    BY <1>2, RxRequestStep
  <1>3. CASE \E n \in 0 .. Packet : HostSend(n)
    BY <1>3, RxHostStep
  <1>4. CASE OnRxflvl \/ OnOutEpInt
    BY <1>4, RxflvlStep, RxOutStep
  <1>5. CASE Read \/ ReadSteps
    BY <1>5, ReadStep
  <1>6. CASE SetCallback \/ UNCHANGED vars
    BY <1>6 DEF SetCallback, vars, rxvars, port, ringv, out, call, hist, RxInv, RxTyped, Drained,
                Turns, Taking, Room, Quiet, ring_free, ring_used
  <1> QED BY <1>1, <1>2, <1>3, <1>4, <1>5, <1>6 DEF Next

(* What the theorem below follows from: the endpoint's flags, the FIFO and *)
(* the place the reader has reached agree, for every order of packets,     *)
(* requests, resets and reads.                                             *)
THEOREM RxInvariant == Spec => []RxInv
  <1>1. RxInv /\ [Next]_vars => RxInv'
    BY RxNextStep
  <1> QED BY RxInitHolds, <1>1, PTL DEF Spec

(* on_out_ep_int and hal_usb_cdc_read arm the OUT endpoint only when the   *)
(* ring has room for what can arrive, so ring_push drops nothing: for      *)
(* every ring that holds a packet.                                         *)
THEOREM NothingDropped == Spec => []FlowControl
  <1>1. RxInv => FlowControl
    BY DEF RxInv, Room, FlowControl
  <1> QED BY RxInvariant, <1>1, PTL

-----------------------------------------------------------------------------
(* The bytes in the ring.                                                  *)

Held == Used(head, From)
Slot(i) == (From + i - 1) % RingSize

BytesTyped == sent \in Nat /\ got \in Int /\ ring \in [Slots -> Int]

\* what waits lies between the last byte read and the first in the FIFO, in
\* order, and with nothing missing unless there is a gap
InPlace ==
  torn \/ /\ got <= sent - fifo
          /\ \A i \in 1 .. Held : ring[Slot(i)] > got /\ ring[Slot(i)] <= sent - fifo
          /\ \A i, j \in 1 .. Held : i < j => ring[Slot(i)] < ring[Slot(j)]
          /\ gap \/ (Held + fifo = sent - got /\ \A i \in 1 .. Held : ring[Slot(i)] = got + i)

OrderInv == RxInv /\ BytesTyped /\ InPlace

(* Where the reader stands, and how much it has before it.                 *)
LEMMA HeldFits ==
  ASSUME RxTyped
  PROVE  /\ From \in Slots /\ head \in Slots /\ Held \in Nat /\ Held < RingSize
         /\ RingSize \in Nat \ {0}
  <1>1. From \in Slots /\ head \in Slots /\ RingSize \in Nat \ {0}
    BY UsbRxConstants DEF RxTyped, From
  <1>2. Held = IF head >= From THEN head - From ELSE head - From + RingSize
    BY <1>1, UsedIs DEF Held
  <1>3. From \in Nat /\ head \in Nat /\ From < RingSize /\ head < RingSize
    BY <1>1 DEF Slots
  <1> QED BY <1>1, <1>2, <1>3

(* The i-th slot from t, without the remainder.                            *)
LEMMA SlotIs ==
  ASSUME NEW t \in Slots, NEW i \in 1 .. RingSize
  PROVE  /\ (t + i - 1) % RingSize
              = IF t + i - 1 < RingSize THEN t + i - 1 ELSE t + i - 1 - RingSize
         /\ (t + i - 1) % RingSize \in Slots
  <1>1. /\ RingSize \in Nat \ {0} /\ t \in Nat /\ t < RingSize
        /\ i \in Nat /\ 1 <= i /\ i <= RingSize
    BY UsbRxConstants DEF Slots
  <1>2. CASE t + i - 1 < RingSize
    <2>1. (t + i - 1) % RingSize = t + i - 1
      BY <1>1, <1>2, ModSame
    <2> QED BY <1>1, <1>2, <2>1 DEF Slots
  <1>3. CASE ~(t + i - 1 < RingSize)
    <2>1. t + i - 1 \in Int /\ RingSize <= t + i - 1 /\ (t + i - 1) - RingSize < RingSize
      BY <1>1, <1>3
    <2>2. (t + i - 1) % RingSize = (t + i - 1) - RingSize
      BY <1>1, <2>1, ModOver
    <2> QED BY <1>1, <1>3, <2>1, <2>2 DEF Slots
  <1> QED BY <1>2, <1>3

(* How far the i-th slot from the tail is from the head: what waits is     *)
(* behind it, what is free before it.                                      *)
LEMMA PastHead ==
  ASSUME NEW h \in Slots, NEW t \in Slots, NEW i \in 1 .. RingSize
  PROVE  (((t + i - 1) % RingSize) - h) % RingSize
           = IF i > Used(h, t) THEN i - 1 - Used(h, t) ELSE i - 1 - Used(h, t) + RingSize
  <1> DEFINE s == (t + i - 1) % RingSize
             u == Used(h, t)
  <1>1. /\ RingSize \in Nat \ {0} /\ t \in Nat /\ t < RingSize /\ h \in Nat /\ h < RingSize
        /\ i \in Nat /\ 1 <= i /\ i <= RingSize
    BY UsbRxConstants DEF Slots
  <1>2. s = IF t + i - 1 < RingSize THEN t + i - 1 ELSE t + i - 1 - RingSize
    BY SlotIs
  <1>3. u = IF h >= t THEN h - t ELSE h - t + RingSize
    BY UsedIs
  <1>4. s \in Nat /\ s < RingSize /\ u \in Nat /\ u < RingSize
    BY <1>1, <1>2, <1>3
  <1> HIDE DEF s, u
  <1>5. (s - h = i - 1 - u) \/ (s - h = i - 1 - u + RingSize) \/ (s - h = i - 1 - u - RingSize)
    BY <1>1, <1>2, <1>3, <1>4
  <1>6. (s - h) % RingSize = IF s >= h THEN s - h ELSE s - h + RingSize
    <2>1. CASE s >= h
      <3>1. s - h \in Int /\ 0 <= s - h /\ s - h < RingSize
        BY <1>1, <1>4, <2>1
      <3> QED BY <1>1, <2>1, <3>1, ModSame
    <2>2. CASE ~(s >= h)
      <3>1. s - h \in Int /\ -RingSize <= s - h /\ s - h < 0
        BY <1>1, <1>4, <2>2
      <3> QED BY <1>1, <2>2, <3>1, ModUnder
    <2> QED BY <2>1, <2>2
  <1>7. (s - h) % RingSize = IF i > u THEN i - 1 - u ELSE i - 1 - u + RingSize
    BY <1>1, <1>4, <1>5, <1>6
  <1> QED BY <1>7 DEF s, u

(* ring_push behind what waits: the bytes that wait stay where they are.   *)
LEMMA PushOrdered ==
  ASSUME RxTyped, BytesTyped, NEW k \in Nat, k <= fifo, k <= (RingSize - 1) - Held,
         RingPush(k)
  PROVE  /\ head' \in Slots /\ Used(head', From) = Held + k /\ ring' \in [Slots -> Int]
         /\ \A i \in 1 .. Held + k :
              ring'[Slot(i)] = IF i <= Held THEN ring[Slot(i)] ELSE sent - fifo + (i - Held)
  <1>1. /\ From \in Slots /\ head \in Slots /\ Held \in Nat /\ Held < RingSize
        /\ RingSize \in Nat \ {0}
    BY HeldFits
  <1>2. /\ head' = (head + k) % RingSize
        /\ ring' = [s \in Slots |-> IF (s - head) % RingSize < k
                                    THEN sent - fifo + ((s - head) % RingSize) + 1 ELSE ring[s]]
    BY DEF RingPush
  <1>3. head' \in Slots /\ Used(head', From) = Held + k
    BY <1>1, <1>2, PushUses DEF Held
  <1>4. ring' \in [Slots -> Int]
    <2>1. ASSUME NEW s \in Slots PROVE (s - head) % RingSize \in Int
      BY <1>1 DEF Slots
    <2> QED BY <1>2, <2>1 DEF BytesTyped, RxTyped
  <1>5. ASSUME NEW i \in 1 .. Held + k
        PROVE  ring'[Slot(i)] = IF i <= Held THEN ring[Slot(i)] ELSE sent - fifo + (i - Held)
    <2>1. i \in 1 .. RingSize /\ i \in Nat
      BY <1>1
    <2>2. Slot(i) \in Slots
      BY <1>1, <2>1, SlotIs DEF Slot
    <2>3. (Slot(i) - head) % RingSize
            = IF i > Held THEN i - 1 - Held ELSE i - 1 - Held + RingSize
      BY <1>1, <2>1, PastHead DEF Slot, Held
    <2>4. CASE i <= Held
      <3>1. ~((Slot(i) - head) % RingSize < k)
        BY <1>1, <2>1, <2>3, <2>4
      <3> QED BY <1>2, <2>2, <2>4, <3>1
    <2>5. CASE ~(i <= Held)
      <3>1. (Slot(i) - head) % RingSize = i - 1 - Held /\ i - 1 - Held < k
        BY <1>1, <2>1, <2>3, <2>5
      <3>2. ring'[Slot(i)] = sent - fifo + (i - 1 - Held) + 1
        BY <1>2, <2>2, <3>1
      <3> QED BY <1>1, <2>1, <2>5, <3>2 DEF BytesTyped, RxTyped
    <2> QED BY <2>4, <2>5
  <1> QED BY <1>3, <1>4, <1>5

(* The slots after the first one are the slots of the reader a step on.    *)
LEMMA NextSlot ==
  ASSUME NEW t \in Slots, NEW i \in 1 .. RingSize - 1
  PROVE  (((t + 1) % RingSize) + i - 1) % RingSize = (t + (i + 1) - 1) % RingSize
  <1>1. /\ RingSize \in Nat \ {0} /\ t \in Nat /\ t < RingSize /\ i \in Nat /\ 1 <= i
        /\ i <= RingSize - 1 /\ i + 1 \in 1 .. RingSize /\ i \in 1 .. RingSize
        /\ 1 \in 1 .. RingSize /\ 2 \in 1 .. RingSize
    BY UsbRxConstants DEF Slots
  <1> DEFINE n == (t + 1) % RingSize
  <1>2. n = (t + 2 - 1) % RingSize
    BY <1>1
  <1>3. n = (IF t + 2 - 1 < RingSize THEN t + 2 - 1 ELSE t + 2 - 1 - RingSize) /\ n \in Slots
    BY <1>1, <1>2, SlotIs
  <1> HIDE DEF n
  <1>4. (n + i - 1) % RingSize = IF n + i - 1 < RingSize THEN n + i - 1 ELSE n + i - 1 - RingSize
    BY <1>1, <1>3, SlotIs
  <1>5. (t + (i + 1) - 1) % RingSize
          = IF t + (i + 1) - 1 < RingSize THEN t + (i + 1) - 1 ELSE t + (i + 1) - 1 - RingSize
    BY <1>1, SlotIs
  <1>6. (n + i - 1) % RingSize = (t + (i + 1) - 1) % RingSize
    BY <1>1, <1>3, <1>4, <1>5
  <1> QED BY <1>6 DEF n

(* What leaves the ring and the places of the reader alone.                *)
LEMMA OrderKept ==
  ASSUME OrderInv, RxInv', UNCHANGED <<head, ring, got, From, torn>>,
         BytesTyped', sent' - fifo' >= sent - fifo,
         gap => gap', gap' \/ sent' - fifo' = sent - fifo
  PROVE  OrderInv'
  <1>1. Held' = Held /\ \A i : Slot(i)' = Slot(i)
    BY DEF Held, Slot
  <1>2. /\ sent \in Int /\ fifo \in Int /\ sent' \in Int /\ fifo' \in Int /\ got \in Int
        /\ Held \in Int
    BY HeldFits DEF OrderInv, RxInv, BytesTyped, RxTyped
  <1>3. \A i \in 1 .. Held : ring[Slot(i)] \in Int
    <2>1. From \in Slots /\ Held < RingSize /\ Held \in Nat /\ RingSize \in Nat
      BY HeldFits DEF OrderInv, RxInv
    <2>2. \A i \in 1 .. Held : Slot(i) \in Slots
      BY <2>1, SlotIs DEF Slot
    <2> QED BY <2>2 DEF OrderInv, BytesTyped
  <1> DEFINE b(i) == ring[Slot(i)]
             Fits(lo, hi, n, g) ==
               /\ lo <= hi
               /\ \A i \in 1 .. n : b(i) > lo /\ b(i) <= hi
               /\ \A i, j \in 1 .. n : i < j => b(i) < b(j)
               /\ g \/ (n = hi - lo /\ \A i \in 1 .. n : b(i) = lo + i)
  <1>4. torn \/ Fits(got, sent - fifo, Held, gap)
    BY <1>2 DEF OrderInv, InPlace
  <1>5. (\A i : b(i)' = b(i)) /\ \A i \in 1 .. Held : b(i) \in Int
    BY <1>1, <1>3
  <1>6. torn \/ Fits(got, sent' - fifo', Held, gap')
    <2> HIDE DEF b
    <2> DEFINE hi == sent - fifo  s2 == sent'  f2 == fifo'  hi2 == s2 - f2
    <2>0. /\ s2 \in Int /\ f2 \in Int /\ s2 - f2 >= sent - fifo
          /\ gap' \/ s2 - f2 = sent - fifo
      BY <1>2
    <2> HIDE DEF s2, f2
    <2>1. hi \in Int /\ hi2 \in Int /\ hi2 >= hi /\ (gap' \/ hi2 = hi) /\ (gap => gap')
      BY <1>2, <2>0
    <2>2. torn \/ Fits(got, hi, Held, gap)
      BY <1>4
    <2> HIDE DEF hi, hi2
    <2>3. torn \/ Fits(got, hi2, Held, gap')
      BY <1>2, <1>5, <2>1, <2>2
    <2> QED BY <2>3 DEF hi2, s2, f2
  <1>7. InPlace'
    <2>1. torn' = torn /\ got' = got
      OBVIOUS
    <2>2. Held + fifo' = sent' - got <=> Held = (sent' - fifo') - got
      <3> DEFINE s2 == sent'  f2 == fifo'
      <3>1. s2 \in Int /\ f2 \in Int
        BY <1>2
      <3> HIDE DEF s2, f2
      <3>2. Held + f2 = s2 - got <=> Held = (s2 - f2) - got
        BY <1>2, <3>1
      <3> QED BY <3>2 DEF s2, f2
    <2> QED BY <1>1, <1>5, <1>6, <2>1, <2>2 DEF InPlace
  <1> QED BY <1>7 DEF OrderInv

(* The ring is empty, and what is in the FIFO comes next.                  *)
LEMMA OrderReset ==
  ASSUME OrderInv, BusReset
  PROVE  OrderInv'
  <1>1. RxInv'
    BY RxBusStep DEF OrderInv
  <1>2. BytesTyped'
    BY DEF BusReset, OrderInv, BytesTyped, RxInv, RxTyped
  <1>3. /\ head' = 0 /\ tail' = 0 /\ UNCHANGED <<pc, sent, fifo>> /\ got' = sent - fifo
        /\ ~torn' => pc # "store"
    BY DEF BusReset, call
  <1>4. ~torn' => Held' = 0
    BY <1>3, EmptyRing DEF Held, From
  <1>5. sent \in Int /\ fifo \in Int
    BY DEF OrderInv, BytesTyped, RxInv, RxTyped
  <1>6. InPlace'
    BY <1>3, <1>4, <1>5 DEF InPlace
  <1> QED BY <1>1, <1>2, <1>6 DEF OrderInv

(* on_rxflvl: what fits is pushed behind what waits.                       *)
LEMMA OrderPushed ==
  ASSUME OrderInv, OnRxflvl
  PROVE  OrderInv'
  <1>1. RxInv'
    BY RxflvlStep DEF OrderInv
  <1>2. /\ UNCHANGED <<tail, pc, next, sent, got, torn>> /\ fifo' = 0 /\ From' = From
        /\ sent \in Int /\ fifo \in Nat /\ got \in Int /\ RxTyped /\ BytesTyped
    BY DEF OnRxflvl, call, From, OrderInv, BytesTyped, RxInv, RxTyped
  <1>3. CASE cb
    <2>1. UNCHANGED <<head, ring>> /\ gap' = (gap \/ fifo > 0)
      BY <1>3 DEF OnRxflvl
    <2>2. BytesTyped'
      BY <1>2, <2>1 DEF BytesTyped
    <2>3. (gap => gap') /\ (fifo > 0 => gap')
      BY <2>1, Zenon
    <2>4. sent' - fifo' >= sent - fifo /\ (gap' \/ sent' - fifo' = sent - fifo)
      BY <1>2, <2>3
    <2> QED BY <1>1, <1>2, <2>1, <2>2, <2>3, <2>4, OrderKept
  <1>4. CASE ~cb
    <2> DEFINE k == Min({fifo, ring_free})
    <2>1. RingPush(k) /\ gap' = (gap \/ k < fifo)
      BY <1>4 DEF OnRxflvl
    <2>2. ring_free \in Nat /\ ring_free + ring_used = RingSize - 1 /\ RingSize \in Nat
      BY <1>2, FreeIs
    <2>3. k \in Nat /\ k <= fifo /\ k <= ring_free
      BY <1>2, <2>2, MinOfTwo
    <2> HIDE DEF k
    <2>4. CASE torn
      <3>1. ring' \in [Slots -> Int]
        <4>1. \A s \in Slots : (s - head) % RingSize \in Int
          BY <1>2, UsbRxConstants DEF Slots, RxTyped
        <4>2. ring' = [s \in Slots |-> IF (s - head) % RingSize < k
                                       THEN sent - fifo + ((s - head) % RingSize) + 1
                                       ELSE ring[s]]
          BY <2>1 DEF RingPush
        <4> QED BY <1>2, <4>1, <4>2 DEF BytesTyped
      <3>2. torn' /\ BytesTyped'
        BY <1>2, <2>4, <3>1 DEF BytesTyped
      <3> QED BY <1>1, <3>2 DEF OrderInv, InPlace
    <2>5. CASE ~torn
      <3>1. Held \in Nat /\ Held <= ring_used
        <4>1. CASE pc = "store"
          <5>1. head # tail /\ next = (tail + 1) % RingSize
            BY <2>5, <4>1 DEF OrderInv, RxInv, Taking
          <5>2. Held = ring_used - 1
            BY <1>2, <4>1, <5>1, TakeFrees DEF Held, From, ring_used, RxTyped
          <5> QED BY <1>2, <2>2, <5>2, HeldFits, FreeIs
        <4>2. CASE pc # "store"
          BY <1>2, <4>2, FreeIs DEF Held, From, ring_used
        <4> QED BY <4>1, <4>2
      <3>2. k <= (RingSize - 1) - Held
        <4>1. ring_used \in Nat
          BY <1>2, FreeIs
        <4> QED BY <2>2, <2>3, <3>1, <4>1
      <3>3. /\ Used(head', From) = Held + k /\ ring' \in [Slots -> Int]
            /\ \A i \in 1 .. Held + k :
                 ring'[Slot(i)] = IF i <= Held THEN ring[Slot(i)] ELSE sent - fifo + (i - Held)
        BY <1>2, <2>1, <2>3, <3>2, PushOrdered
      <3>4. Held' = Held + k /\ \A i : Slot(i)' = Slot(i)
        BY <1>2, <3>3 DEF Held, Slot
      <3>5. /\ got <= sent - fifo
            /\ \A i \in 1 .. Held : ring[Slot(i)] > got /\ ring[Slot(i)] <= sent - fifo
            /\ \A i, j \in 1 .. Held : i < j => ring[Slot(i)] < ring[Slot(j)]
            /\ gap \/ (Held + fifo = sent - got /\ \A i \in 1 .. Held : ring[Slot(i)] = got + i)
        BY <2>5 DEF OrderInv, InPlace
      <3>6. \A i \in 1 .. Held : ring[Slot(i)] \in Int
        <4>1. From \in Slots /\ Held < RingSize
          BY <1>2, HeldFits
        <4>2. \A i \in 1 .. Held : Slot(i) \in Slots
          BY <2>2, <3>1, <4>1, SlotIs DEF Slot
        <4> QED BY <1>2, <4>2 DEF BytesTyped
      <3> DEFINE b(i) == ring'[Slot(i)]
      <3>7. \A i \in 1 .. Held + k :
              b(i) = IF i <= Held THEN ring[Slot(i)] ELSE sent - fifo + (i - Held)
        BY <3>3
      <3> HIDE DEF b
      <3>8. \A i \in 1 .. Held + k : b(i) > got /\ b(i) <= sent
        BY <1>2, <2>3, <3>1, <3>5, <3>6, <3>7
      <3>9. \A i, j \in 1 .. Held + k : i < j => b(i) < b(j)
        BY <1>2, <2>3, <3>1, <3>5, <3>6, <3>7
      <3>10. gap' \/ (Held + k = sent - got /\ \A i \in 1 .. Held + k : b(i) = got + i)
        <4>1. (gap => gap') /\ (k < fifo => gap')
          BY <2>1, Zenon
        <4> QED BY <1>2, <2>3, <3>1, <3>5, <3>7, <4>1
      <3>11. InPlace'
        BY <1>2, <3>1, <2>3, <3>4, <3>5, <3>8, <3>9, <3>10 DEF InPlace, b
      <3>12. BytesTyped'
        BY <1>2, <3>3 DEF BytesTyped
      <3> QED BY <1>1, <3>11, <3>12 DEF OrderInv
    <2> QED BY <2>4, <2>5
  <1> QED BY <1>3, <1>4

(* A byte is taken: it was the first that waited.                          *)
LEMMA OrderTaken ==
  ASSUME OrderInv, ReadTake
  PROVE  OrderInv'
  <1>1. RxInv'
    BY ReadStep DEF OrderInv, ReadSteps
  <1>2. /\ pc = "take" /\ pc' = "store" /\ got' = ring[tail] /\ next' = (tail + 1) % RingSize
        /\ UNCHANGED <<head, tail, ring, sent, fifo, torn, gap>>
        /\ sent \in Int /\ fifo \in Nat /\ got \in Int /\ RxTyped /\ BytesTyped
    BY DEF ReadTake, ringv, hist, OrderInv, BytesTyped, RxInv, RxTyped
  <1>3. BytesTyped'
    BY <1>2 DEF BytesTyped, RxTyped
  <1>4. CASE torn
    BY <1>1, <1>2, <1>3, <1>4 DEF OrderInv, InPlace
  <1>5. CASE ~torn
    <2>1. head # tail /\ From = tail /\ From' = (tail + 1) % RingSize
      BY <1>2, <1>5 DEF OrderInv, RxInv, Taking, From
    <2>2. /\ Held \in Nat /\ Held < RingSize /\ RingSize \in Nat \ {0} /\ tail \in Slots
          /\ head \in Slots
      BY <1>2, HeldFits DEF RxTyped
    <2>3. Held' = Held - 1 /\ Held > 0
      <3>1. Held = Used(head, tail) /\ Held' = Used(head, (tail + 1) % RingSize)
        BY <1>2, <2>1 DEF Held
      <3>2. Held' = Held - 1
        BY <2>1, <2>2, <3>1, TakeFrees
      <3>3. Held > 0
        BY <1>2, <2>1, <3>1, FreeIs DEF ring_used
      <3> QED BY <3>2, <3>3
    <2>4. \A i \in 1 .. Held - 1 : Slot(i)' = Slot(i + 1)
      <3> SUFFICES ASSUME NEW i \in 1 .. Held - 1 PROVE Slot(i)' = Slot(i + 1)
        OBVIOUS
      <3>1. i \in 1 .. RingSize - 1
        BY <2>2
      <3> QED BY <2>1, <2>2, <3>1, NextSlot DEF Slot
    <2>5. Slot(1) = tail
      <3>1. tail \in Nat /\ tail < RingSize /\ (tail + 1) - 1 = tail
        BY <2>2 DEF Slots
      <3> QED BY <2>1, <2>2, <3>1, ModSame DEF Slot
    <2> DEFINE b(i) == ring[Slot(i)]
    <2>6. \A i \in 1 .. Held : b(i) \in Int
      <3>1. \A i \in 1 .. Held : Slot(i) \in Slots
        BY <2>1, <2>2, SlotIs DEF Slot
      <3> QED BY <1>2, <3>1 DEF BytesTyped
    <2>7. /\ \A i \in 1 .. Held : b(i) > got /\ b(i) <= sent - fifo
          /\ \A i, j \in 1 .. Held : i < j => b(i) < b(j)
          /\ gap \/ (Held + fifo = sent - got /\ \A i \in 1 .. Held : b(i) = got + i)
      BY <1>5 DEF OrderInv, InPlace
    <2>8. got' = b(1) /\ \A i \in 1 .. Held - 1 : (ring[Slot(i)])' = b(i + 1)
      BY <1>2, <2>4, <2>5
    <2> HIDE DEF b
    <2>9. 1 \in 1 .. Held /\ \A i \in 1 .. Held - 1 : i + 1 \in 1 .. Held /\ 1 < i + 1
      BY <2>2, <2>3
    <2>10. /\ b(1) <= sent - fifo
           /\ \A i \in 1 .. Held - 1 : b(i + 1) > b(1) /\ b(i + 1) <= sent - fifo
           /\ \A i, j \in 1 .. Held - 1 : i < j => b(i + 1) < b(j + 1)
      BY <2>2, <2>6, <2>7, <2>9
    <2>11. gap \/ (Held - 1 + fifo = sent - b(1) /\ \A i \in 1 .. Held - 1 : b(i + 1) = b(1) + i)
      BY <1>2, <2>2, <2>6, <2>7, <2>9
    <2>12. InPlace'
      BY <1>2, <2>3, <2>8, <2>10, <2>11 DEF InPlace
    <2> QED BY <1>1, <1>3, <2>12 DEF OrderInv
  <1> QED BY <1>4, <1>5

(* One action at a time.                                                   *)
LEMMA OrderStep ==
  ASSUME OrderInv, [Next]_vars
  PROVE  OrderInv'
  <1>1. RxInv'
    BY RxNextStep DEF OrderInv
  <1>2. sent \in Nat /\ fifo \in Nat /\ BytesTyped /\ RxInv
    BY DEF OrderInv, BytesTyped, RxInv, RxTyped
  <1> USE DEF port, ringv, out, call, hist
  <1>3. CASE BusReset \/ OnRxflvl \/ ReadTake
    BY <1>3, OrderReset, OrderPushed, OrderTaken
  <1>4. CASE UsbInit
    <2>1. /\ UNCHANGED <<head, ring, got, From, torn, sent>> /\ fifo' = 0 /\ gap'
      BY <1>4 DEF UsbInit, From
    <2>2. BytesTyped' /\ sent' - fifo' >= sent - fifo
      BY <1>2, <2>1 DEF BytesTyped
    <2> QED BY <1>1, <2>1, <2>2, OrderKept
  <1>5. CASE \E n \in 0 .. Packet : HostSend(n)
    <2>1. PICK n \in 0 .. Packet : HostSend(n)
      BY <1>5
    <2>2. /\ UNCHANGED <<head, ring, got, From, torn, gap>> /\ sent' = sent + n /\ fifo' = fifo + n
          /\ n \in Nat
      BY <2>1, FreeIs DEF HostSend, From
    <2>3. BytesTyped' /\ sent' - fifo' = sent - fifo /\ sent' - fifo' >= sent - fifo
      BY <1>2, <2>2 DEF BytesTyped
    <2> QED BY <1>1, <2>2, <2>3, OrderKept
  <1> DEFINE Requests == \/ EpOpen \/ EpClose \/ EpResetToggles
                         \/ \E e \in OutEps : EpHalt(e) \/ EpClearHalt(e)
  <1>6. CASE \/ UsbDeinit \/ Requests \/ OnOutEpInt \/ Read \/ ReadTest \/ ReadCompare
             \/ ReadStore \/ ReadCheck \/ ReadRearm \/ SetCallback \/ UNCHANGED vars
    <2>1. UNCHANGED <<head, ring, got, torn, gap, sent, fifo>>
      <3>1. CASE Requests
        BY <3>1 DEF EpOpen, EpClose, EpHalt, EpClearHalt, EpResetToggles, Request
      <3>2. CASE UsbDeinit \/ OnOutEpInt \/ SetCallback \/ UNCHANGED vars
        BY <3>2 DEF UsbDeinit, OnOutEpInt, SetCallback, vars, rxvars
      <3>3. CASE Read \/ ReadTest \/ ReadCompare \/ ReadStore \/ ReadCheck \/ ReadRearm
        BY <3>3 DEF Read, ReadCall, ReadTest, ReadCompare, ReadStore, ReadCheck, ReadRearm
      <3> QED BY <1>6, <3>1, <3>2, <3>3
    <2>2. UNCHANGED From
      <3>1. CASE Requests
        BY <3>1 DEF EpOpen, EpClose, EpHalt, EpClearHalt, EpResetToggles, Request, From
      <3>2. CASE UsbDeinit \/ OnOutEpInt \/ SetCallback \/ UNCHANGED vars
        BY <3>2 DEF UsbDeinit, OnOutEpInt, SetCallback, vars, rxvars, From
      <3>3. CASE Read \/ ReadTest \/ ReadCompare \/ ReadStore \/ ReadCheck \/ ReadRearm
        BY <3>3 DEF Read, ReadCall, ReadTest, ReadCompare, ReadStore, ReadCheck, ReadRearm,
                      From
      <3> QED BY <1>6, <3>1, <3>2, <3>3
    <2>3. BytesTyped' /\ sent' - fifo' = sent - fifo /\ sent' - fifo' >= sent - fifo
      BY <1>2, <2>1 DEF BytesTyped
    <2> QED BY <1>1, <2>1, <2>2, <2>3, OrderKept
  <1> QED BY <1>3, <1>4, <1>5, <1>6 DEF Next, ReadSteps

(* hal_usb_cdc_read gives the bytes the host sent, each once, in order and *)
(* none left out: for every ring, packet size and length of read.          *)
THEOREM BytesInOrder == Spec => []InOrder
  <1>1. Init => OrderInv
    <2> SUFFICES ASSUME Init PROVE OrderInv
      OBVIOUS
    <2>1. RxInv
      BY RxInitHolds
    <2>2. Held = 0 /\ sent = 0 /\ got = 0 /\ fifo = 0 /\ ring = [s \in Slots |-> 0]
      BY EmptyRing DEF Init, Held, From
    <2>3. BytesTyped
      BY <2>2 DEF BytesTyped
    <2>4. 0 <= 0 - 0 /\ 0 + 0 = 0 - 0 /\ 1 .. 0 = {}
      OBVIOUS
    <2>5. InPlace
      BY <2>2, <2>4 DEF InPlace
    <2> QED BY <2>1, <2>3, <2>5 DEF OrderInv
  <1>2. OrderInv /\ [Next]_vars => OrderInv'
    BY OrderStep
  <1>3. OrderInv => InOrder
    <2> SUFFICES ASSUME OrderInv, ~torn PROVE InOrder
      BY DEF InOrder
    <2>1. Held \in Nat /\ Waiting = [i \in 1 .. Held |-> ring[Slot(i)]]
      BY HeldFits DEF OrderInv, RxInv, Waiting, Held, Slot
    <2>2. DOMAIN Waiting = 1 .. Held /\ Len(Waiting) = Held
      BY <2>1
    <2> QED BY <2>1, <2>2 DEF OrderInv, InPlace, InOrder
  <1> QED BY <1>1, <1>2, <1>3, PTL DEF Spec

-----------------------------------------------------------------------------
(* Sending.                                                                *)

TxTyped ==
  /\ busy \in [InEps -> BOOLEAN] /\ live \in [InEps -> BOOLEAN]
  /\ done \in [InEps -> BOOLEAN] /\ yanked \in [InEps -> BOOLEAN]
  /\ size \in Nat /\ msg \in Nat /\ wlen \in Nat /\ unsent \in Nat
  /\ tpc \in {"idle", "wait", "arm"} /\ ep \in InEps /\ zlp \in BOOLEAN

\* an endpoint is armed on the word of a flag seen clear
Waited == tpc = "arm" => ~busy[ep]

\* a write under way: what the host has, with the packet it is still to take
Sofar == IF live["data"] THEN msg + size ELSE msg

InWrite ==
  /\ wlen > 0 /\ unsent <= wlen /\ (wlen - unsent) % PacketSize = 0
  /\ zlp <=> wlen % PacketSize = 0
  /\ unsent = 0 => zlp
  /\ unsent = wlen => IF live["data"] THEN EndsMessage(size) ELSE msg = 0
  /\ unsent # wlen => /\ Sofar = wlen - unsent
                      /\ live["data"] => ~EndsMessage(size)

BetweenWrites ==
  IF live["data"] THEN msg + size = wlen /\ EndsMessage(size) ELSE msg = 0

Unbroken ==
  broken \/ /\ live["data"] \/ done["data"] => busy["data"]
            /\ ~(live["data"] /\ done["data"])
            /\ IF Writing THEN InWrite ELSE BetweenWrites

TxInv == TxTyped /\ Waited /\ BusyIsLive /\ OneInFlight /\ Unbroken

(* Whole packets before a last one.                                        *)
LEMMA WholeBefore ==
  ASSUME NEW n \in Nat \ {0}, NEW a \in Nat, NEW b \in Nat, a % n = 0
  PROVE  (a + b) % n = b % n
  <1>1. PICK p \in Int : a = n * p
    BY SMTT(60)
  <1>2. PICK q \in Int : \E r \in Nat : b = n * q + r /\ r < n /\ b % n = r
    BY SMTT(60)
  <1>3. PICK r \in Nat : b = n * q + r /\ r < n /\ b % n = r
    BY <1>2
  <1>4. a + b = n * (p + q) + r
    BY <1>1, <1>3, SMTT(60)
  <1>5. (n * (p + q) + r) % n = r
    BY <1>3, SMTT(60)
  <1> QED BY <1>3, <1>4, <1>5

(* No flag set.                                                            *)
LEMMA OffTyped == Off \in [InEps -> BOOLEAN] /\ \A e \in InEps : ~Off[e]
  BY Zenon DEF Off

(* The two IN endpoints.                                                   *)
LEMMA Eps == "data" \in InEps /\ "notif" \in InEps
  BY DEF InEps

(* No transfer and no call at start-up.                                    *)
LEMMA TxInitHolds == TxInit => TxInv
  <1> SUFFICES ASSUME TxInit PROVE TxInv
    OBVIOUS
  <1>1. TxTyped
    BY OffTyped, Eps DEF TxInit, TxTyped
  <1>2. Waited /\ BusyIsLive /\ OneInFlight
    BY OffTyped DEF TxInit, Waited, BusyIsLive, OneInFlight
  <1>3. Unbroken
    BY OffTyped, Eps DEF TxInit, Unbroken, BetweenWrites, Writing
  <1> QED BY <1>1, <1>2, <1>3 DEF TxInv

(* The bus and the control requests: they clear flags, end transfers or    *)
(* both, and record whose write they cut.                                  *)
LEMMA TxBusStep ==
  ASSUME TxInv,
         \/ TxReset \/ TxOpen \/ TxClose \/ TxResetToggles
         \/ \E e \in InEps, h \in BOOLEAN : TxHalt(e, h)
  PROVE  TxInv'
  <1> USE OffTyped, Eps DEF caller, seen
  <1>0. TxTyped /\ Waited /\ BusyIsLive /\ OneInFlight /\ Unbroken
    BY DEF TxInv
  <1>1. CASE TxReset
    <2>1. TxTyped'
      BY <1>0, <1>1 DEF TxReset, TxTyped
    <2>2. Waited' /\ BusyIsLive' /\ OneInFlight'
      BY <1>0, <1>1 DEF TxReset, Waited, BusyIsLive, OneInFlight, TxTyped
    <2>3. Unbroken'
      BY <1>1 DEF TxReset, Unbroken, BetweenWrites, Writing
    <2> QED BY <2>1, <2>2, <2>3 DEF TxInv
  <1>2. CASE TxOpen
    <2>1. TxTyped'
      <3>1. busy' \in [InEps -> BOOLEAN] /\ yanked' \in [InEps -> BOOLEAN]
        BY <1>0, <1>2 DEF TxOpen, TxTyped
      <3> QED BY <1>0, <1>2, <3>1 DEF TxOpen, TxTyped
    <2>2. Waited' /\ BusyIsLive' /\ OneInFlight'
      BY <1>0, <1>2 DEF TxOpen, Waited, BusyIsLive, OneInFlight, TxTyped, InEps
    <2>3. Unbroken'
      BY <1>2 DEF TxOpen, Unbroken, BetweenWrites, Writing
    <2> QED BY <2>1, <2>2, <2>3 DEF TxInv
  <1>3. CASE TxClose
    <2>1. TxTyped'
      BY <1>0, <1>3 DEF TxClose, TxTyped
    <2>2. Waited' /\ BusyIsLive' /\ OneInFlight'
      BY <1>0, <1>3 DEF TxClose, Waited, BusyIsLive, OneInFlight, TxTyped
    <2>3. Unbroken'
      BY <1>0, <1>3 DEF TxClose, Unbroken, BetweenWrites, Writing, Unfinished
    <2> QED BY <2>1, <2>2, <2>3 DEF TxInv
  <1>4. CASE TxResetToggles
    <2>1. TxTyped'
      BY <1>0, <1>4 DEF TxResetToggles, TxTyped
    <2>2. Waited' /\ BusyIsLive' /\ OneInFlight'
      BY <1>0, <1>4 DEF TxResetToggles, Waited, BusyIsLive, OneInFlight, TxTyped
    <2>3. Unbroken'
      BY <1>0, <1>4 DEF TxResetToggles, Unbroken, BetweenWrites, Writing, Unfinished
    <2> QED BY <2>1, <2>2, <2>3 DEF TxInv
  <1>5. ASSUME NEW e \in InEps, NEW h \in BOOLEAN, TxHalt(e, h) PROVE TxInv'
    <2>1. TxTyped'
      BY <1>0, <1>5 DEF TxHalt, TxTyped
    <2>2. Waited' /\ BusyIsLive' /\ OneInFlight'
      BY <1>0, <1>5 DEF TxHalt, Waited, BusyIsLive, OneInFlight, TxTyped
    <2>3. Unbroken'
      BY <1>0, <1>5 DEF TxHalt, Unbroken, BetweenWrites, InWrite, Sofar, Writing, Unfinished,
                        TxTyped, InEps
    <2> QED BY <2>1, <2>2, <2>3 DEF TxInv
  <1> QED BY <1>1, <1>2, <1>3, <1>4, <1>5

(* The host takes a packet, and the driver hears of it.                    *)
LEMMA TxHostStep ==
  ASSUME TxInv, NEW e \in InEps, HostCollect(e) \/ OnInEpInt(e)
  PROVE  TxInv'
  <1> USE Eps DEF caller, seen
  <1>0. TxTyped /\ Waited /\ BusyIsLive /\ OneInFlight /\ Unbroken
    BY DEF TxInv
  <1>1. CASE HostCollect(e)
    <2>1. TxTyped'
      BY <1>0, <1>1 DEF HostCollect, TxTyped
    <2>2. Waited' /\ BusyIsLive' /\ OneInFlight'
      BY <1>0, <1>1 DEF HostCollect, Waited, BusyIsLive, OneInFlight, TxTyped
    <2>3. Unbroken'
      <3>1. CASE e = "notif"
        BY <1>0, <1>1, <3>1 DEF HostCollect, Unbroken, BetweenWrites, InWrite, Sofar, Writing,
                                EndsMessage, TxTyped
      <3>2. CASE e = "data"
        <4> SUFFICES ASSUME ~broken PROVE Unbroken'
          BY <1>1 DEF HostCollect, Unbroken
        <4>1. /\ live["data"] /\ ~live'["data"] /\ done'["data"] /\ busy' = busy
              /\ msg' = IF EndsMessage(size) THEN 0 ELSE msg + size
              /\ UNCHANGED <<size, tpc, ep, unsent, zlp, wlen>>
          BY <1>0, <1>1, <3>2 DEF HostCollect, TxTyped
        <4>2. busy'["data"]
          BY <1>0, <4>1 DEF Unbroken
        <4>3. Writing => InWrite'
          BY <1>0, <4>1 DEF Unbroken, InWrite, Sofar, TxTyped
        <4>4. ~Writing => BetweenWrites'
          BY <1>0, <4>1 DEF Unbroken, BetweenWrites, TxTyped
        <4> QED BY <4>1, <4>2, <4>3, <4>4 DEF Unbroken, Writing
      <3> QED BY <3>1, <3>2 DEF InEps
    <2> QED BY <2>1, <2>2, <2>3 DEF TxInv
  <1>2. CASE OnInEpInt(e)
    <2>1. TxTyped'
      BY <1>0, <1>2 DEF OnInEpInt, TxTyped
    <2>2. Waited' /\ BusyIsLive' /\ OneInFlight'
      BY <1>0, <1>2 DEF OnInEpInt, Waited, BusyIsLive, OneInFlight, TxTyped
    <2>3. Unbroken'
      BY <1>0, <1>2 DEF OnInEpInt, Unbroken, BetweenWrites, InWrite, Sofar, Writing,
                        EndsMessage, TxTyped, InEps
    <2> QED BY <2>1, <2>2, <2>3 DEF TxInv
  <1> QED BY <1>1, <1>2

(* The thread up to the arming.                                            *)
LEMMA CallStep ==
  ASSUME TxInv,
         \/ \E n \in WriteLens : WriteCall(n)
         \/ NotifyCall \/ WaitFails \/ WaitEnds \/ ArmNotif
  PROVE  TxInv'
  <1> USE Eps DEF flags, seen
  <1>0. TxTyped /\ Waited /\ BusyIsLive /\ OneInFlight /\ Unbroken
    BY DEF TxInv
  <1>1. ASSUME NEW n \in WriteLens, WriteCall(n) PROVE TxInv'
    <2>1. n \in Nat \ {0} /\ PacketSize \in Nat \ {0}
      BY UsbTxConstants
    <2>2. TxTyped' /\ Waited' /\ BusyIsLive' /\ OneInFlight'
      BY <1>0, <1>1, <2>1 DEF WriteCall, TxTyped, Waited, BusyIsLive, OneInFlight
    <2>3. n - n = 0 /\ 0 % PacketSize = 0
      BY <2>1
    <2>4. /\ ~Writing /\ Writing' /\ wlen' = n /\ unsent' = n
          /\ zlp' = (wlen' % PacketSize = 0)
          /\ UNCHANGED <<busy, live, done, size, msg, broken>>
      BY <1>1 DEF WriteCall, Writing
    <2>5. wlen' - unsent' = 0
      BY <2>1, <2>4
    <2>6. (wlen' - unsent') % PacketSize = 0
      BY <2>3, <2>5
    <2>7. ~broken => IF live["data"] THEN EndsMessage(size) ELSE msg = 0
      BY <1>0, <2>4 DEF Unbroken, BetweenWrites
    <2>8. ~broken => InWrite'
      <3>1. wlen' > 0 /\ unsent' <= wlen' /\ unsent' = wlen' /\ unsent' # 0
        BY <2>1, <2>4
      <3>2. zlp' <=> wlen' % PacketSize = 0
        BY <2>4, Zenon
      <3>3. ~broken => IF live'["data"] THEN EndsMessage(size') ELSE msg' = 0
        BY <2>4, <2>7
      <3> HIDE DEF EndsMessage
      <3> QED BY <2>6, <3>1, <3>2, <3>3, Zenon DEF InWrite
    <2>9. Unbroken'
      BY <1>0, <2>4, <2>8 DEF Unbroken
    <2> QED BY <2>2, <2>9 DEF TxInv
  <1>2. CASE NotifyCall \/ WaitFails
    <2>1. CASE NotifyCall
      BY <1>0, <2>1 DEF NotifyCall, TxTyped, Waited, BusyIsLive, OneInFlight, Unbroken,
                        BetweenWrites, Writing, EndsMessage, TxInv
    <2>2. CASE WaitFails
      BY <1>0, <2>2 DEF WaitFails, TxTyped, Waited, BusyIsLive, OneInFlight, Unbroken,
                        BetweenWrites, Writing, EndsMessage, TxInv
    <2> QED BY <1>2, <2>1, <2>2
  <1>3. CASE WaitEnds
    <2>1. TxTyped' /\ Waited' /\ BusyIsLive' /\ OneInFlight'
      BY <1>0, <1>3 DEF WaitEnds, TxTyped, Waited, BusyIsLive, OneInFlight
    <2>2. Unbroken'
      BY <1>0, <1>3 DEF WaitEnds, Unbroken, BetweenWrites, InWrite, Sofar, Writing, EndsMessage
    <2> QED BY <2>1, <2>2 DEF TxInv
  <1>4. CASE ArmNotif
    <2>1. TxTyped'
      BY <1>0, <1>4 DEF ArmNotif, TxTyped
    <2>2. Waited' /\ BusyIsLive' /\ OneInFlight'
      BY <1>0, <1>4 DEF ArmNotif, TxTyped, Waited, BusyIsLive, OneInFlight
    <2>3. Unbroken'
      BY <1>0, <1>4 DEF ArmNotif, Unbroken, BetweenWrites, Writing, EndsMessage, TxTyped, InEps
    <2> QED BY <2>1, <2>2, <2>3 DEF TxInv
  <1> QED BY <1>1, <1>2, <1>3, <1>4

(* ep_in_transfer of a chunk: whole packets until the last, and an empty   *)
(* one after it when the last is full.                                     *)
LEMMA ArmStep ==
  ASSUME TxInv, ArmData
  PROVE  TxInv'
  <1> USE Eps
  <1>0. TxTyped /\ Waited /\ BusyIsLive /\ OneInFlight /\ Unbroken
    BY DEF TxInv
  <1>1. /\ PacketSize \in Nat \ {0} /\ TxChunk \in Nat \ {0} /\ TxChunk % PacketSize = 0
    BY UsbTxConstants
  <1>2. /\ tpc = "arm" /\ ep = "data"
        /\ busy' = [busy EXCEPT !["data"] = TRUE] /\ live' = [live EXCEPT !["data"] = TRUE]
        /\ size' = (IF unsent <= TxChunk THEN unsent ELSE TxChunk) /\ unsent' = unsent - size'
        /\ zlp' = (zlp /\ unsent > 0)
        /\ tpc' = IF unsent' > 0 \/ zlp' THEN "wait" ELSE "idle"
        /\ UNCHANGED <<usb_configured, done, ep, msg, wlen, yanked, reopened, broken>>
    BY <1>0, <1>1, MinOfTwo DEF ArmData, seen, TxTyped
  <1>3. size' \in Nat /\ unsent' \in Nat /\ (unsent > 0 => size' > 0) /\ unsent' + size' = unsent
    BY <1>0, <1>1, <1>2 DEF TxTyped
  <1>4. TxTyped'
    BY <1>0, <1>2, <1>3 DEF TxTyped
  <1>5. Waited' /\ BusyIsLive' /\ OneInFlight'
    BY <1>0, <1>2 DEF TxTyped, Waited, BusyIsLive, OneInFlight
  <1>6. ASSUME ~broken
        PROVE  /\ live'["data"] \/ done'["data"] => busy'["data"]
               /\ ~(live'["data"] /\ done'["data"])
               /\ IF Writing' THEN InWrite' ELSE BetweenWrites'
    <2>1. Writing /\ ~live["data"] /\ ~done["data"] /\ InWrite
      BY <1>0, <1>2, <1>6 DEF Waited, Unbroken, Writing
    <2>2. live'["data"] /\ ~done'["data"] /\ busy'["data"]
      BY <1>0, <1>2, <2>1 DEF TxTyped
    <2>3. /\ wlen > 0 /\ unsent <= wlen /\ (wlen - unsent) % PacketSize = 0
          /\ (zlp <=> wlen % PacketSize = 0) /\ (unsent = 0 => zlp)
          /\ msg = wlen - unsent
      BY <1>0, <2>1 DEF InWrite, Sofar, TxTyped
    <2>4. wlen \in Nat /\ unsent \in Nat /\ wlen - unsent \in Nat
      BY <1>0, <2>3 DEF TxTyped
    <2>5. ((wlen - unsent) + unsent) % PacketSize = unsent % PacketSize
      BY <1>1, <2>3, <2>4, WholeBefore
    <2>6. (wlen - unsent) + unsent = wlen
      BY <2>4
    <2>7. wlen % PacketSize = unsent % PacketSize
      BY <2>5, <2>6
    <2>12. /\ (wlen - unsent) + size' = wlen - unsent' /\ unsent' <= wlen
           /\ unsent' = 0 => size' = unsent
           /\ size' > 0 => unsent' # wlen /\ unsent > 0
      <3> DEFINE v == unsent'
                 s == size'
      <3>1. /\ v \in Nat /\ s \in Nat /\ v + s = unsent /\ unsent <= wlen
            /\ wlen \in Nat /\ unsent \in Nat
        BY <1>3, <2>3, <2>4
      <3> HIDE DEF v, s
      <3>2. /\ (wlen - unsent) + s = wlen - v /\ v <= wlen /\ (v = 0 => s = unsent)
            /\ s > 0 => v # wlen /\ unsent > 0
        BY <3>1
      <3> QED BY <3>2, Zenon DEF v, s
    <2>8. msg + size' = wlen - unsent'
      <3>1. msg = wlen - unsent
        BY <2>3
      <3>2. (wlen - unsent) + size' = wlen - unsent'
        BY <2>12
      <3> QED BY <3>1, <3>2, Zenon
    <2>9. CASE unsent' > 0
      <3>1. size' = TxChunk
        <4>1. CASE unsent <= TxChunk
          <5>1. size' = unsent /\ unsent' = unsent - size'
            BY <1>2, <4>1
          <5>2. unsent' = 0
            BY <2>4, <5>1
          <5> QED BY <2>9, <5>2
        <4>2. CASE ~(unsent <= TxChunk)
          BY <1>2, <4>2
        <4> QED BY <4>1, <4>2
      <3>2. ((wlen - unsent) + size') % PacketSize = 0
        BY <1>1, <1>3, <2>3, <2>4, <3>1, WholeBefore
      <3>3. size' > 0
        BY <1>1, <3>1
      <3>4. (wlen - unsent') % PacketSize = 0
        BY <2>12, <3>2
      <3>9. unsent' <= wlen /\ unsent' # wlen /\ unsent > 0
        BY <2>12, <3>3
      <3>5. ~EndsMessage(size')
        BY <1>1, <3>1 DEF EndsMessage
      <3>6. (zlp' <=> wlen % PacketSize = 0) /\ Writing'
        <4>1. zlp' = zlp /\ tpc' = "wait" /\ ep' = "data"
          BY <1>0, <1>2, <2>9, <3>9, Zenon DEF TxTyped
        <4> QED BY <2>3, <4>1 DEF Writing
      <3>7. Sofar' = wlen - unsent'
        BY <1>2, <2>2, <2>8 DEF Sofar
      <3>8. InWrite'
        BY <1>2, <2>2, <2>3, <2>9, <3>4, <3>5, <3>6, <3>7, <3>9 DEF InWrite, EndsMessage
      <3> QED BY <2>2, <3>6, <3>8
    <2>10. CASE unsent' = 0 /\ zlp'
      <3>1. /\ unsent > 0 /\ size' = unsent /\ zlp /\ wlen % PacketSize = 0
        <4>1. unsent > 0 /\ zlp
          BY <1>2, <2>10
        <4>2. size' = unsent
          BY <2>10, <2>12
        <4> QED BY <2>3, <4>1, <4>2
      <3>2. ~EndsMessage(size') /\ Writing'
        BY <1>2, <2>7, <2>10, <3>1 DEF EndsMessage, Writing
      <3>3. Sofar' = wlen /\ wlen - unsent' = wlen
        BY <1>2, <2>2, <2>4, <2>8, <2>10 DEF Sofar
      <3>4. InWrite'
        <4>1. wlen' = wlen /\ wlen > 0 /\ unsent' = 0 /\ zlp' /\ wlen % PacketSize = 0
          BY <1>2, <2>3, <2>10, <3>1
        <4>2. unsent' <= wlen' /\ unsent' # wlen' /\ (wlen' - unsent') % PacketSize = 0
          BY <2>4, <3>3, <4>1
        <4>3. Sofar' = wlen' - unsent' /\ ~EndsMessage(size')
          BY <3>2, <3>3, <4>1
        <4> HIDE DEF EndsMessage
        <4> QED BY <4>1, <4>2, <4>3, Zenon DEF InWrite
      <3> QED BY <2>2, <3>2, <3>4
    <2>11. CASE unsent' = 0 /\ ~zlp'
      <3>1. ~Writing' /\ size' = unsent
        BY <1>2, <1>3, <2>11 DEF Writing
      <3>2. EndsMessage(size')
        <4>1. CASE unsent > 0
          <5>1. ~(wlen % PacketSize = 0)
            BY <1>2, <2>3, <2>11, <4>1
          <5> QED BY <2>7, <3>1, <5>1 DEF EndsMessage
        <4>2. CASE unsent = 0
          BY <3>1, <4>2 DEF EndsMessage
        <4> QED BY <2>4, <4>1, <4>2
      <3>3. msg' + size' = wlen'
        BY <1>2, <2>4, <2>8, <2>11
      <3>4. BetweenWrites'
        BY <2>2, <3>2, <3>3 DEF BetweenWrites, EndsMessage
      <3> QED BY <2>2, <3>1, <3>4
    <2> QED BY <1>3, <2>9, <2>10, <2>11
  <1>7. Unbroken'
    BY <1>2, <1>6 DEF Unbroken
  <1> QED BY <1>4, <1>5, <1>7 DEF TxInv

(* One action at a time.                                                   *)
LEMMA TxNextStep ==
  ASSUME TxInv, [TxNext]_sendvars
  PROVE  TxInv'
  <1>1. CASE UNCHANGED sendvars
    BY <1>1 DEF sendvars, txvars, flags, caller, seen, TxInv, TxTyped, Waited, BusyIsLive,
                OneInFlight, Unbroken, BetweenWrites, InWrite, Sofar, Writing, EndsMessage
  <1> QED BY <1>1, TxBusStep, TxHostStep, CallStep, ArmStep DEF TxNext

(* What the theorems below follow from: between its wait and its arming a  *)
(* write that nobody cut finds the endpoint as its flag said.              *)
THEOREM TxInvariant == TxSpec => []TxInv
  <1>1. TxInv /\ [TxNext]_sendvars => TxInv'
    BY TxNextStep
  <1> QED BY TxInitHolds, <1>1, PTL DEF TxSpec

(* A busy flag that no transfer will clear is left only by the two cases   *)
(* named for the notification endpoint.                                    *)
THEOREM BusyFlagsEnd == TxSpec => []BusyIsLive
  <1>1. TxInv => BusyIsLive
    BY DEF TxInv
  <1> QED BY TxInvariant, <1>1, PTL

(* ep_in_transfer and hal_usb_cdc_notify_serial_state never arm an         *)
(* endpoint over a transfer, unless a request cleared its flag.            *)
THEOREM ArmedOnce == TxSpec => []OneInFlight
  <1>1. TxInv => OneInFlight
    BY DEF TxInv
  <1> QED BY TxInvariant, <1>1, PTL

(* hal_usb_cdc_write ends every message it sends, whatever its length is   *)
(* to the packet and to the chunk.                                         *)
THEOREM BoundariesSeen == TxSpec => []WriteBoundary
  <1>1. TxInv => WriteBoundary
    BY DEF TxInv, Unbroken, Writing, BetweenWrites, WriteBoundary
  <1> QED BY TxInvariant, <1>1, PTL

-----------------------------------------------------------------------------
(* The control endpoint.                                                   *)

\* as long as no two events met, the driver is one event behind the host
Behind ==
  mixed \/ /\ pending = {} \/ \E e \in Events : pending = {e}
           /\ pending = {"reset"} => ~told.conf /\ ~told.dtr /\ ~asleep
           /\ pending # {"reset"} => conf = told.conf /\ line_state = told.dtr
           /\ pending = {} => suspended = asleep
           /\ pending = {"suspend"} => asleep
           /\ pending = {"wakeup"} => ~asleep

\* the data of a SET_LINE_CODING is expected exactly when the host owes it
Expected ==
  /\ stage = "coding" => ctrl_out_request
  /\ "reset" \in pending => stage = "setup"
  /\ dropped \/ (ctrl_out_request => stage = "coding" \/ "reset" \in pending)

CtlTyped ==
  /\ told \in [conf : BOOLEAN, dtr : BOOLEAN]
  /\ {conf, line_state, suspended, asleep} \subseteq BOOLEAN

CtlInv == CtlTyped /\ Behind /\ Expected /\ CodingWasAsked /\ ReplyEnds

(* Nothing is pending, owed or told at start-up.                           *)
LEMMA CtlInitHolds == CtlInit => CtlInv
  <1> SUFFICES ASSUME CtlInit PROVE CtlInv
    OBVIOUS
  <1>1. CtlTyped /\ Behind
    BY DEF CtlInit, CtlTyped, Behind
  <1>2. Expected /\ CodingWasAsked /\ ReplyEnds
    BY DEF CtlInit, Expected, CodingWasAsked, ReplyEnds, NoReply
  <1> QED BY <1>1, <1>2 DEF CtlInv

(* A number of packets rounded up.                                         *)
LEMMA RoundedUp ==
  ASSUME NEW n \in Nat, NEW m \in Nat \ {0}
  PROVE  LET q == (n + m - 1) \div m
         IN  q \in Int /\ n <= q * m /\ (q - 1) * m < n /\ n - (q - 1) * m <= m
  BY SMTT(60)

(* A last packet that is full leaves no remainder.                         *)
LEMMA WholePackets ==
  ASSUME NEW n \in Nat, NEW m \in Nat \ {0}, NEW q \in Int, n - (q - 1) * m = m
  PROVE  n % m = 0
  BY SMTT(60)

(* ep0_send: the packets cover the payload, and one more ends a short      *)
(* answer of whole packets.                                                *)
LEMMA SendEnds ==
  ASSUME NEW len \in Nat, NEW wanted \in Nat, Ep0Send(len, wanted)
  PROVE  ReplyEnds'
  <1> DEFINE n == IF len > wanted THEN wanted ELSE len
             last == n > 0 /\ n < wanted /\ n % MaxPacket = 0
             q == (n + MaxPacket - 1) \div MaxPacket
  <1>1. MaxPacket \in Nat \ {0} /\ n \in Nat /\ n <= wanted
    BY UsbControlConstants
  <1>2. /\ reply'.len = n /\ reply'.wanted = wanted
        /\ reply'.packets = (IF n = 0 THEN 1 ELSE q) + (IF last THEN 1 ELSE 0)
    BY DEF Ep0Send
  <1>3. CASE n = wanted
    BY <1>2, <1>3 DEF ReplyEnds
  <1>4. CASE n = 0
    BY <1>1, <1>2, <1>4 DEF ReplyEnds
  <1>5. CASE 0 < n /\ n < wanted
    <2>1. q \in Int /\ n <= q * MaxPacket /\ n - (q - 1) * MaxPacket <= MaxPacket
      BY <1>1, RoundedUp
    <2>2. CASE last
      <3>1. reply'.packets - 1 = q
        BY <1>2, <1>5, <2>1, <2>2
      <3>2. q * MaxPacket \in Int
        BY <1>1, <2>1
      <3>3. n - q * MaxPacket < MaxPacket
        BY <1>1, <2>1, <3>2
      <3> QED BY <1>2, <3>1, <3>3 DEF ReplyEnds
    <2>3. CASE ~last
      <3>1. n % MaxPacket # 0
        BY <1>5, <2>3
      <3>2. reply'.packets = q
        BY <1>2, <1>5, <2>1, <2>3
      <3>3. n - (q - 1) * MaxPacket # MaxPacket
        BY <1>1, <2>1, <3>1, WholePackets
      <3>4. (q - 1) * MaxPacket \in Int
        BY <1>1, <2>1
      <3>5. n - (q - 1) * MaxPacket < MaxPacket
        BY <1>1, <2>1, <3>3, <3>4
      <3> QED BY <1>2, <3>2, <3>5 DEF ReplyEnds
    <2> QED BY <2>2, <2>3
  <1> QED BY <1>1, <1>3, <1>4, <1>5

(* The events of the bus, and the handler that serves them.                *)
LEMMA EventStep ==
  ASSUME CtlInv, HostReset \/ HostSleeps \/ HostWakes \/ UsbIrqHandler
  PROVE  CtlInv'
  <1> USE DEF CtlInv
  <1>1. CodingWasAsked' /\ ReplyEnds'
    BY DEF HostReset, HostSleeps, HostWakes, UsbIrqHandler, ep0, CodingWasAsked, ReplyEnds
  <1>2. Expected'
    <2>1. CASE HostReset
      BY <2>1 DEF HostReset, Raise, Expected
    <2>2. CASE HostSleeps \/ HostWakes
      BY <2>2 DEF HostSleeps, HostWakes, Raise, ep0, Expected
    <2>3. CASE UsbIrqHandler
      BY <2>3 DEF UsbIrqHandler, Expected
    <2> QED BY <2>1, <2>2, <2>3
  <1>3. CtlTyped'
    <2>1. CASE HostReset
      BY <2>1 DEF HostReset, Raise, CtlTyped
    <2>2. CASE HostSleeps \/ HostWakes
      BY <2>2 DEF HostSleeps, HostWakes, Raise, CtlTyped
    <2>3. CASE UsbIrqHandler
      BY <2>3 DEF UsbIrqHandler, CtlTyped
    <2> QED BY <2>1, <2>2, <2>3
  <1>4. Behind'
    <2>1. CASE HostReset
      BY <2>1 DEF HostReset, Raise, Behind, Events
    <2>2. CASE HostSleeps
      BY <2>2 DEF HostSleeps, Raise, Behind, Events
    <2>3. CASE HostWakes
      BY <2>3 DEF HostWakes, Raise, Behind, Events
    <2>4. CASE UsbIrqHandler
      BY <2>4 DEF UsbIrqHandler, Behind, Events, CtlTyped
    <2> QED BY <2>1, <2>2, <2>3, <2>4
  <1> QED BY <1>1, <1>2, <1>3, <1>4

(* The control requests.                                                   *)
LEMMA SetupStep ==
  ASSUME CtlInv,
         \/ SetLineCoding \/ Stalled
         \/ \E b \in BOOLEAN : SetControlLineState(b) \/ SetConfiguration(b)
         \/ \E n \in Replies, w \in Replies, b \in BOOLEAN : GetRequest(n, w, b)
  PROVE  CtlInv'
  <1> USE DEF CtlInv
  <1>1. /\ UNCHANGED <<pending, suspended, asleep, line_coding, asked>>
        /\ mixed' = (mixed \/ pending # {})
    BY DEF SetLineCoding, Stalled, SetControlLineState, SetConfiguration, GetRequest, Setup
  <1>2. Expected' /\ CodingWasAsked'
    <2>1. CASE SetLineCoding
      BY <1>1, <2>1 DEF SetLineCoding, Setup, Expected, CodingWasAsked
    <2>2. CASE ~SetLineCoding
      <3>1. /\ dropped' = (dropped \/ stage = "coding") /\ ctrl_out_request' = ctrl_out_request
            /\ stage' # "coding" /\ ("reset" \in pending => stage' = stage)
        BY <2>2 DEF Expected, Stalled, SetControlLineState, SetConfiguration, GetRequest, Setup, GivesUp
      <3>2. pending' = pending /\ line_coding' = line_coding /\ asked' = asked
        BY <1>1
      <3>3. Expected'
        <4>1. (dropped => dropped') /\ (stage = "coding" => dropped')
          BY <3>1, Zenon
        <4>2. "reset" \in pending' => stage' = "setup"
          BY <3>1, <3>2 DEF Expected
        <4>3. dropped' \/ (ctrl_out_request' => stage' = "coding" \/ "reset" \in pending')
          BY <3>1, <3>2, <4>1 DEF Expected
        <4> QED BY <3>1, <4>2, <4>3 DEF Expected
      <3>4. CodingWasAsked'
        BY <3>1, <3>2 DEF CodingWasAsked
      <3> QED BY <3>3, <3>4
    <2> QED BY <2>1, <2>2
  <1>3. CtlTyped' /\ Behind'
    BY <1>1 DEF SetLineCoding, Stalled, SetControlLineState, SetConfiguration, GetRequest,
                CtlTyped, Behind
  <1>4. ReplyEnds'
    <2>1. CASE SetLineCoding \/ Stalled
      BY <2>1 DEF SetLineCoding, Stalled, ReplyEnds
    <2>2. CASE \E b \in BOOLEAN : SetControlLineState(b) \/ SetConfiguration(b)
      BY <2>2, SendEnds DEF SetControlLineState, SetConfiguration
    <2>3. CASE \E n \in Replies, w \in Replies, b \in BOOLEAN : GetRequest(n, w, b)
      BY <2>3, SendEnds, UsbControlConstants DEF GetRequest
    <2> QED BY <2>1, <2>2, <2>3
  <1> QED BY <1>2, <1>3, <1>4

(* The OUT packets: a SET_LINE_CODING's data, or the end of an answer.     *)
LEMMA CtlOutStep ==
  ASSUME CtlInv, StatusStage \/ ShortStage \/ \E c \in Codings : DataStage(c)
  PROVE  CtlInv'
  <1> USE DEF CtlInv
  <1>1. CASE StatusStage
    <2>1. ReplyEnds'
      BY <1>1, SendEnds DEF StatusStage, OutPacket, ReplyEnds
    <2>2. CtlTyped' /\ Behind'
      BY <1>1 DEF StatusStage, OutPacket, device, CtlTyped, Behind
    <2>3. Expected' /\ CodingWasAsked'
      BY <1>1 DEF StatusStage, OutPacket, device, Expected, CodingWasAsked
    <2> QED BY <2>1, <2>2, <2>3
  <1>3. CASE ShortStage
    <2>1. ReplyEnds'
      BY <1>3, SendEnds DEF ShortStage, OutPacket, ReplyEnds
    <2>2. CtlTyped' /\ Behind'
      BY <1>3 DEF ShortStage, OutPacket, device, CtlTyped, Behind
    <2>3. Expected' /\ CodingWasAsked'
      BY <1>3 DEF ShortStage, OutPacket, device, Expected, CodingWasAsked
    <2> QED BY <2>1, <2>2, <2>3
  <1>2. CASE \E c \in Codings : DataStage(c)
    <2>1. ReplyEnds'
      BY <1>2, SendEnds DEF DataStage, OutPacket, ReplyEnds
    <2>2. CtlTyped' /\ Behind'
      BY <1>2 DEF DataStage, OutPacket, device, CtlTyped, Behind
    <2>3. Expected' /\ CodingWasAsked'
      BY <1>2 DEF DataStage, OutPacket, device, Expected, CodingWasAsked
    <2> QED BY <2>1, <2>2, <2>3
  <1> QED BY <1>1, <1>2, <1>3

(* One action at a time.                                                   *)
LEMMA CtlNextStep ==
  ASSUME CtlInv, [CtlNext]_ctlvars
  PROVE  CtlInv'
  <1>1. CASE UNCHANGED ctlvars
    BY <1>1 DEF ctlvars, device, ep0, CtlInv, CtlTyped, Behind, Expected, CodingWasAsked, ReplyEnds
  <1> QED BY <1>1, EventStep, SetupStep, CtlOutStep DEF CtlNext

(* What the theorems below follow from.                                    *)
THEOREM CtlInvariant == CtlSpec => []CtlInv
  <1>1. CtlInv /\ [CtlNext]_ctlvars => CtlInv'
    BY CtlNextStep
  <1> QED BY CtlInitHolds, <1>1, PTL DEF CtlSpec

(* hal_usb_cdc_connected answers for the host: a reset, a suspend and a    *)
(* resume each leave the driver's three flags as the host has them.        *)
THEOREM ConnectedForHost == CtlSpec => []ConnectedIsTrue
  <1>1. CtlInv => ConnectedIsTrue
    BY DEF CtlInv, Behind, ConnectedIsTrue, hal_usb_cdc_connected, CtlTyped
  <1> QED BY CtlInvariant, <1>1, PTL

(* The line coding is never what another request left in ep0_buf: a stale  *)
(* ctrl_out_request needs a SET_LINE_CODING that was given up.             *)
THEOREM CodingIsTheHosts == CtlSpec => []CodingWasAsked
  <1>1. CtlInv => CodingWasAsked
    BY DEF CtlInv
  <1> QED BY CtlInvariant, <1>1, PTL

(* ep0_send ends every answer, for every packet size and length.           *)
THEOREM AnswersEnd == CtlSpec => []ReplyEnds
  <1>1. CtlInv => ReplyEnds
    BY DEF CtlInv
  <1> QED BY CtlInvariant, <1>1, PTL
=============================================================================
