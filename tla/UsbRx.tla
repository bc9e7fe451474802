------------------------------- MODULE UsbRx --------------------------------
(***************************************************************************)
(* The receive path of the USB CDC driver, src/vendor/stm32/usb/usb_cdc.c: *)
(* the ring filled by the OTG_FS interrupt and emptied by                  *)
(* hal_usb_cdc_read, and the flow control on the bulk OUT endpoint.        *)
(*                                                                         *)
(* A received byte is the number of its place in what the host sent.  An   *)
(* interrupt handler runs to its end before the thread goes on, so each of *)
(* its parts is one action; a read is split where the interrupt can change *)
(* what it goes by.                                                        *)
(***************************************************************************)
EXTENDS Integers, Sequences, FiniteSetsExt

CONSTANTS RingSize,   \* RX_RING_SIZE
          Packet,     \* HAL_USB_CDC_PACKET_SIZE
          MaxByte,    \* bound on the bytes the host sends
          MaxReset    \* bound on the bus resets

ASSUME UsbRxConstants ==
  /\ RingSize \in Nat /\ Packet \in 1 .. RingSize - 1
  /\ MaxByte \in Nat /\ MaxReset \in Nat

VARIABLES
  bus, configured, resets,   \* attachment, usb_configured, bus resets so far
  cb,                        \* rx_cb is set
  head, tail, ring, armed,   \* rx_head, rx_tail, rx_ring, out_ep_armed
  epena, stall, xfrc,        \* the OUT endpoint's EPENA, STALL and XFRC
  fifo, rxlvl,               \* bytes in the receive FIFO, RXFLVL
  pc, left, next,            \* hal_usb_cdc_read: where it is and its locals
  sent, got,                 \* last byte the host sent, last byte read
  torn, gap, forced          \* what has happened since the bus reset

port == <<bus, configured, resets>>
ringv == <<head, tail, ring>>
out == <<armed, epena, stall, xfrc>>
call == <<pc, left, next>>
hist == <<torn, gap, forced>>
rxvars == <<cb, ringv, out, fifo, rxlvl, call, sent, got, hist>>
vars == <<port, rxvars>>

Slots == 0 .. RingSize - 1

\* The OUT endpoints ep_set_halt takes; the driver opens the first.
OutEps == {"data", "notif"}   \* addresses 0x01 and 0x02

Used(h, t) == (h - t) % RingSize
ring_used == Used(head, tail)
\* Mutant: the slot kept empty is forgotten.
ring_freeFull == RingSize - ring_used
ring_free == (RingSize - 1) - ring_used

PortInit == bus = "off" /\ configured = FALSE /\ resets = 0

Init ==
  /\ PortInit /\ cb = FALSE
  /\ head = 0 /\ tail = 0 /\ ring = [s \in Slots |-> 0]
  /\ armed = FALSE /\ epena = FALSE /\ stall = FALSE /\ xfrc = FALSE
  /\ fifo = 0 /\ rxlvl = FALSE
  /\ pc = "idle" /\ left = 0 /\ next = 0 /\ sent = 0 /\ got = 0
  /\ torn = FALSE /\ gap = FALSE /\ forced = FALSE

-----------------------------------------------------------------------------
(* Bring-up and the bus.                                                   *)

\* hal_usb_cdc_init at start or after a deinit: the endpoint registers and the
\* FIFOs are cleared, the driver's own flags are as they were.  When the clock
\* is wrong or the core times out it stays off, and nothing has changed.
UsbInit ==
  /\ pc = "idle" /\ bus = "off" /\ bus' = "attached"
  /\ epena' = FALSE /\ stall' = FALSE /\ xfrc' = FALSE /\ fifo' = 0 /\ rxlvl' = FALSE
  /\ gap' = TRUE
  /\ UNCHANGED <<configured, resets, cb, ringv, armed, call, sent, got, torn, forced>>

UsbDeinit ==
  /\ pc = "idle" /\ bus # "off" /\ bus' = "off" /\ configured' = FALSE
  /\ UNCHANGED <<resets, rxvars>>

\* on_reset.  The receive FIFO is not flushed.
BusReset ==
  /\ bus # "off" /\ resets < MaxReset
  /\ bus' = "default" /\ configured' = FALSE /\ resets' = resets + 1
  /\ head' = 0 /\ tail' = 0 /\ armed' = FALSE
  /\ epena' = FALSE /\ stall' = FALSE /\ xfrc' = FALSE
  /\ got' = sent - fifo
  /\ torn' = (pc \in {"take", "store"} \/ (pc = "compare" /\ next # 0))
  /\ gap' = FALSE
  /\ forced' = (forced /\ rxlvl)
  /\ UNCHANGED <<cb, ring, fifo, rxlvl, call, sent>>

-----------------------------------------------------------------------------
(* Arming the OUT endpoint, and the control requests that do (handle_setup).*)

out_arm == armed' = TRUE /\ epena' = TRUE

\* A request sets or clears out_ep_armed whatever the ring holds and whatever
\* packet is on its way to the ring, also while a read is between its own test
\* of the room and its own arming, and also when the endpoint it names is
\* another one: EP_DATA may be left enabled with the flag clear.
Request(arm) ==
  /\ bus = "default" /\ resets' = resets /\ bus' = bus
  /\ IF arm THEN out_arm ELSE armed' = FALSE
  /\ forced' = ( \/ forced \/ rxlvl \/ xfrc
                 \/ arm /\ (ring_free < Packet \/ epena \/ pc = "rearm")
                 \/ ~arm /\ epena' /\ ~stall' )
  /\ UNCHANGED <<cb, ringv, xfrc, fifo, rxlvl, call, sent, got, torn, gap>>

\* SET_CONFIGURATION with a value: ep_open.
EpOpen == Request(TRUE) /\ configured' = TRUE /\ stall' = FALSE

\* SET_CONFIGURATION with zero: ep_close.
EpClose == configured' = FALSE /\ stall' = FALSE /\ epena' = FALSE /\ Request(FALSE)

\* SET_FEATURE and CLEAR_FEATURE of ENDPOINT_HALT: ep_set_halt of an OUT
\* address.  The stall is the named endpoint's, the arming always EP_DATA's.
EpHalt(e) ==
  stall' = (stall \/ e = "data") /\ UNCHANGED <<configured, epena>> /\ Request(FALSE)
EpClearHalt(e) ==
  stall' = (stall /\ e # "data") /\ UNCHANGED configured /\ Request(TRUE)

\* SET_INTERFACE: ep_reset_toggles.
EpResetToggles == Request(TRUE) /\ UNCHANGED <<configured, stall>>

-----------------------------------------------------------------------------
(* The host's packet, on_rxflvl and on_out_ep_int.                         *)

\* External: the core takes a packet into its FIFO on an enabled endpoint.
HostSend(n) ==
  /\ bus = "default" /\ configured /\ epena /\ ~stall
  /\ sent + n <= MaxByte /\ fifo + n <= 2 * Packet
  /\ sent' = sent + n /\ fifo' = fifo + n /\ rxlvl' = TRUE /\ epena' = FALSE
  /\ UNCHANGED <<port, cb, ringv, armed, stall, xfrc, call, got, hist>>

\* ring_push of the k bytes that fit.
RingPush(k) ==
  /\ ring' = [s \in Slots |-> LET i == (s - head) % RingSize
                              IN  IF i < k THEN sent - fifo + i + 1 ELSE ring[s]]
  /\ head' = (head + k) % RingSize

OnRxflvl ==
  /\ bus = "default" /\ rxlvl
  /\ rxlvl' = FALSE /\ fifo' = 0 /\ xfrc' = TRUE
  /\ IF cb
     THEN gap' = (gap \/ fifo > 0) /\ UNCHANGED <<ring, head>>
     ELSE LET k == Min({fifo, ring_free})
          IN  RingPush(k) /\ gap' = (gap \/ k < fifo)
  /\ UNCHANGED <<port, cb, tail, armed, epena, stall, call, sent, got, torn, forced>>

\* Mutant: room for one byte is taken for room for a packet.
OnOutEpIntByte ==
  /\ bus = "default" /\ configured /\ xfrc
  /\ xfrc' = FALSE
  /\ IF ring_free > 0 THEN out_arm ELSE armed' = FALSE /\ UNCHANGED epena
  /\ UNCHANGED <<port, cb, ringv, stall, fifo, rxlvl, call, sent, got, hist>>

\* Mutant: out_ep_armed stays set when the endpoint is not armed again.
OnOutEpIntArmed ==
  /\ bus = "default" /\ configured /\ xfrc
  /\ xfrc' = FALSE
  /\ IF ring_free >= Packet THEN out_arm ELSE UNCHANGED <<armed, epena>>
  /\ UNCHANGED <<port, cb, ringv, stall, fifo, rxlvl, call, sent, got, hist>>

\* The endpoint's interrupt is masked while the endpoint is closed.
OnOutEpInt ==
  /\ bus = "default" /\ configured /\ xfrc
  /\ xfrc' = FALSE
  /\ IF ring_free >= Packet THEN out_arm ELSE armed' = FALSE /\ UNCHANGED epena
  /\ UNCHANGED <<port, cb, ringv, stall, fifo, rxlvl, call, sent, got, hist>>

-----------------------------------------------------------------------------
(* hal_usb_cdc_read: the loop's test loads the tail, then the head; then   *)
(* the byte is taken, the tail stored, and at the end the endpoint armed.  *)

ReadCall(n) ==
  /\ pc = "idle" /\ pc' = "test" /\ left' = n
  /\ UNCHANGED <<port, cb, ringv, out, fifo, rxlvl, next, sent, got, hist>>

ReadTest ==
  /\ pc = "test"
  /\ IF left > 0 THEN pc' = "compare" /\ next' = tail ELSE pc' = "check" /\ UNCHANGED next
  /\ UNCHANGED <<port, cb, ringv, out, fifo, rxlvl, left, sent, got, hist>>

ReadCompare ==
  /\ pc = "compare" /\ pc' = (IF next # head THEN "take" ELSE "check") /\ next' = 0
  /\ UNCHANGED <<port, cb, ringv, out, fifo, rxlvl, left, sent, got, hist>>

ReadTake ==
  /\ pc = "take" /\ pc' = "store"
  /\ got' = ring[tail] /\ next' = (tail + 1) % RingSize /\ left' = left - 1
  /\ UNCHANGED <<port, cb, ringv, out, fifo, rxlvl, sent, hist>>

ReadStore ==
  /\ pc = "store" /\ pc' = "test" /\ tail' = next /\ next' = 0
  /\ UNCHANGED <<port, cb, head, ring, out, fifo, rxlvl, left, sent, got, hist>>

\* In one step: what it reads can only grow stale towards more room, but for
\* a request, and the arming is a step of its own.
ReadCheck ==
  /\ pc = "check"
  /\ pc' = IF ~armed /\ configured /\ ring_free >= Packet THEN "rearm" ELSE "idle"
  /\ left' = 0
  /\ UNCHANGED <<port, cb, ringv, out, fifo, rxlvl, next, sent, got, hist>>

\* With the interrupts masked.
ReadRearm ==
  /\ pc = "rearm" /\ pc' = "idle"
  /\ IF armed THEN UNCHANGED <<armed, epena>> ELSE out_arm
  /\ UNCHANGED <<port, cb, ringv, stall, xfrc, fifo, rxlvl, left, next, sent, got, hist>>

Read == \E n \in 1 .. Packet : ReadCall(n)
ReadSteps ==
  ReadTest \/ ReadCompare \/ ReadTake \/ ReadStore \/ ReadCheck \/ ReadRearm

\* hal_usb_cdc_attach_rx_callback and hal_usb_cdc_detach_rx_callback.
SetCallback ==
  /\ pc = "idle" /\ cb' = ~cb
  /\ UNCHANGED <<port, ringv, out, fifo, rxlvl, call, sent, got, hist>>

-----------------------------------------------------------------------------
Next ==
  \/ UsbInit \/ UsbDeinit \/ BusReset
  \/ EpOpen \/ EpClose \/ EpResetToggles
  \/ (\E e \in OutEps : EpHalt(e) \/ EpClearHalt(e))
  \/ (\E n \in 0 .. Packet : HostSend(n)) \/ OnRxflvl \/ OnOutEpInt
  \/ Read \/ ReadSteps \/ SetCallback

Spec == Init /\ [][Next]_vars

\* A raised interrupt is served, a read goes on to its end, and the
\* application reads again and again.
Fairness ==
  WF_vars(OnRxflvl) /\ WF_vars(OnOutEpInt) /\ WF_vars(ReadSteps) /\ WF_vars(Read)

-----------------------------------------------------------------------------
\* The bytes waiting, past the one a read is taking out.
From == IF pc = "store" THEN next ELSE tail
Waiting == [i \in 1 .. Used(head, From) |-> ring[(From + i - 1) % RingSize]]

\* hal_usb_cdc_read returns the bytes the host sent, each once, in order and
\* none left out: what waits in the ring and in the FIFO is what was sent
\* after the last byte read.  Bytes are missing only when a callback took
\* them, when ring_push dropped them, or when the driver was initialised
\* again (gap); a bus reset inside a read (torn) is the one case left out.
InOrder ==
  torn \/ LET w == Waiting IN
            /\ \A i \in DOMAIN w : w[i] > got /\ w[i] <= sent - fifo
            /\ \A i, j \in DOMAIN w : i < j => w[i] < w[j]
            /\ gap \/ Len(w) + fifo = sent - got

\* The flow control of on_out_ep_int and hal_usb_cdc_read: there is room in
\* the ring for every byte in the FIFO and, while the endpoint is enabled, for
\* one more packet, so ring_push drops nothing.  A control request that set
\* out_ep_armed past it (forced) and a bus reset inside a read (torn) are the
\* exceptions.
FlowControl ==
  forced \/ torn \/ fifo + (IF epena THEN Packet ELSE 0) <= ring_free

\* A closed OUT endpoint is opened again while the application reads: no
\* order of packets, reads and requests leaves a configured port deaf.
Reopens ==
  (configured /\ bus = "default" /\ ~epena)
    ~> (epena \/ ~configured \/ bus # "default")
=============================================================================
