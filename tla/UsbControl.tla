----------------------------- MODULE UsbControl -----------------------------
(***************************************************************************)
(* Endpoint 0 of the USB CDC driver, src/vendor/stm32/usb/usb_cdc.c: the   *)
(* control requests and their data stage, and what the interrupt handler   *)
(* makes of the bus events it finds pending together.                      *)
(*                                                                         *)
(* The host may give up a control transfer at any point and start another  *)
(* with a SETUP packet.  A line coding is one of a few values.             *)
(***************************************************************************)
EXTENDS Integers

CONSTANTS Codings,    \* line codings the host sends
          MaxPacket,  \* EP0_MAX_PACKET
          Replies     \* lengths of the descriptors and of the other answers

ASSUME UsbControlConstants == MaxPacket \in Nat \ {0} /\ Replies \subseteq Nat \ {0}

DefaultCoding == "115200 8N1"
Answer == "an answer"          \* what an IN request leaves in ep0_buf
Short == "a part of one"       \* a coding's first bytes over what ep0_buf held

Events == {"reset", "suspend", "wakeup"}   \* USBRST, USBSUSP, WKUPINT

VARIABLES
  conf, line_state, suspended,   \* usb_configured, DTR of usb_line_state, usb_suspended
  pending, mixed,                \* GINTSTS; two events were ever pending together
  asleep, told,                  \* the host: bus suspended; what it has set
  ctrl_out_request, ep0_buf, line_coding,
  stage,                         \* what the host sends next in its control transfer
  reply,                         \* the last ep0_send: length, requested, packets
  asked, dropped                 \* codings sent; a SET_LINE_CODING without its data

device == <<conf, line_state, suspended, pending, mixed, asleep, told>>
ep0 == <<ctrl_out_request, ep0_buf, line_coding, stage, reply, asked, dropped>>
ctlvars == <<device, ep0>>

NoReply == [len |-> 0, wanted |-> 0, packets |-> 1]

CtlInit ==
  /\ conf = FALSE /\ line_state = FALSE /\ suspended = FALSE
  /\ pending = {} /\ mixed = FALSE
  /\ asleep = FALSE /\ told = [conf |-> FALSE, dtr |-> FALSE]
  /\ ctrl_out_request = FALSE /\ ep0_buf = Answer /\ line_coding = DefaultCoding
  /\ stage = "setup" /\ reply = NoReply /\ asked = {} /\ dropped = FALSE

-----------------------------------------------------------------------------
(* The bus: the host's events, and usb_irq_handler on those it finds.       *)

Raise(e) ==
  /\ pending' = pending \union {e} /\ mixed' = (mixed \/ pending # {})
  /\ UNCHANGED <<conf, line_state, suspended>>

HostReset ==
  /\ Raise("reset")
  /\ asleep' = FALSE /\ told' = [conf |-> FALSE, dtr |-> FALSE]
  /\ stage' = "setup"
  /\ UNCHANGED <<ctrl_out_request, ep0_buf, line_coding, reply, asked, dropped>>

HostSleeps == ~asleep /\ Raise("suspend") /\ asleep' = TRUE /\ UNCHANGED <<told, ep0>>
HostWakes == asleep /\ Raise("wakeup") /\ asleep' = FALSE /\ UNCHANGED <<told, ep0>>

\* Mutant: a reset leaves the line state as it was.
UsbIrqHandlerDtr ==
  /\ pending # {} /\ pending' = {}
  /\ suspended' = ( /\ "wakeup" \notin pending
                    /\ "suspend" \in pending \/ (suspended /\ "reset" \notin pending))
  /\ conf' = (conf /\ "reset" \notin pending)
  /\ ctrl_out_request' = (ctrl_out_request /\ "reset" \notin pending)
  /\ UNCHANGED <<line_state, mixed, asleep, told, ep0_buf, line_coding, stage, reply, asked,
                 dropped>>

\* Reset first, then suspend, then wake-up, in whatever order they came.
UsbIrqHandler ==
  /\ pending # {} /\ pending' = {}
  /\ suspended' = ( /\ "wakeup" \notin pending
                    /\ "suspend" \in pending \/ (suspended /\ "reset" \notin pending))
  /\ conf' = (conf /\ "reset" \notin pending)
  /\ line_state' = (line_state /\ "reset" \notin pending)
  /\ ctrl_out_request' = (ctrl_out_request /\ "reset" \notin pending)
  /\ UNCHANGED <<mixed, asleep, told, ep0_buf, line_coding, stage, reply, asked, dropped>>

-----------------------------------------------------------------------------
(* handle_setup, and the OUT packets that follow a SETUP (on_rxflvl,        *)
(* on_out_ep_int).                                                          *)

\* Mutant: no zero-length packet after a short answer of whole packets.
Ep0SendNoZlp(len, wanted) ==
  LET n == IF len > wanted THEN wanted ELSE len
  IN  reply' = [len |-> n, wanted |-> wanted,
                packets |-> IF n = 0 THEN 1 ELSE (n + MaxPacket - 1) \div MaxPacket]

\* ep0_send: the payload cut to what was asked, and its packets.
Ep0Send(len, wanted) ==
  LET n == IF len > wanted THEN wanted ELSE len
      zlp == n > 0 /\ n < wanted /\ n % MaxPacket = 0
  IN  reply' = [len |-> n, wanted |-> wanted,
                packets |-> (IF n = 0 THEN 1 ELSE (n + MaxPacket - 1) \div MaxPacket)
                            + (IF zlp THEN 1 ELSE 0)]

\* The host talks on a bus that is awake; what it sent before an event may
\* still be served while that is pending.
Heard == ~asleep \/ pending # {}

\* A SETUP packet; it may find an earlier transfer unfinished.  Served with a
\* reset pending it is of a transfer the host has left; served after the reset
\* it is the next one, whichever of them the handler found first.
Setup(next) ==
  /\ Heard /\ mixed' = (mixed \/ pending # {})
  /\ stage' = IF "reset" \in pending THEN stage ELSE next
  /\ UNCHANGED <<suspended, pending, asleep, line_coding, asked>>

SetLineCoding ==
  /\ Setup("coding") /\ ctrl_out_request' = TRUE
  /\ UNCHANGED <<conf, line_state, told, ep0_buf, reply, dropped>>

\* Leaving a SET_LINE_CODING without its data.
GivesUp == dropped' = (dropped \/ stage = "coding")

SetControlLineState(dtr) ==
  /\ Setup("setup") /\ line_state' = dtr /\ told' = [told EXCEPT !.dtr = dtr]
  /\ Ep0Send(0, 0) /\ GivesUp /\ UNCHANGED <<conf, ctrl_out_request, ep0_buf>>

SetConfiguration(c) ==
  /\ Setup("setup") /\ conf' = c /\ told' = [told EXCEPT !.conf = c]
  /\ Ep0Send(0, 0) /\ GivesUp /\ UNCHANGED <<line_state, ctrl_out_request, ep0_buf>>

\* GET_DESCRIPTOR, GET_STATUS, GET_CONFIGURATION, GET_INTERFACE and
\* GET_LINE_CODING; many of the answers are built in ep0_buf.  The host ends
\* the transfer with an empty OUT packet.
GetRequest(len, wanted, built) ==
  /\ Setup("status") /\ Ep0Send(len, wanted)
  /\ ep0_buf' = IF built THEN Answer ELSE ep0_buf
  /\ GivesUp /\ UNCHANGED <<conf, line_state, told, ctrl_out_request>>

\* ep0_stall: requests the device does not have.
Stalled ==
  /\ Setup("setup")
  /\ GivesUp /\ UNCHANGED <<conf, line_state, told, ctrl_out_request, ep0_buf, reply>>

\* Mutant: the request waits on for more data.
OutPacketAgain(buf) ==
  /\ Heard /\ stage' = "setup" /\ ep0_buf' = buf
  /\ IF ctrl_out_request THEN line_coding' = buf /\ Ep0Send(0, 0)
                         ELSE UNCHANGED <<line_coding, reply>>
  /\ UNCHANGED <<device, ctrl_out_request>>

\* The transfer-complete part of on_out_ep_int for endpoint 0, after on_rxflvl
\* has put the packet's bytes, if it had any, in ep0_buf.
OutPacket(buf) ==
  /\ Heard /\ stage' = "setup" /\ ep0_buf' = buf
  /\ IF ctrl_out_request
     THEN line_coding' = buf /\ ctrl_out_request' = FALSE /\ Ep0Send(0, 0)
     ELSE UNCHANGED <<line_coding, ctrl_out_request, reply>>
  /\ UNCHANGED device

DataStage(c) ==
  stage = "coding" /\ OutPacket(c) /\ asked' = asked \union {c} /\ dropped' = FALSE
\* A data stage of less than seven bytes: all seven are copied.
ShortStage == stage = "coding" /\ OutPacket(Short) /\ dropped' = TRUE /\ UNCHANGED asked
StatusStage == stage = "status" /\ OutPacket(ep0_buf) /\ UNCHANGED <<asked, dropped>>

-----------------------------------------------------------------------------
CtlNext ==
  \/ HostReset \/ HostSleeps \/ HostWakes \/ UsbIrqHandler
  \/ SetLineCoding \/ Stalled \/ ShortStage \/ StatusStage
  \/ \E b \in BOOLEAN : SetControlLineState(b) \/ SetConfiguration(b)
  \/ \E n \in Replies, w \in Replies, b \in BOOLEAN : GetRequest(n, w, b)
  \/ \E c \in Codings : DataStage(c)

CtlSpec == CtlInit /\ [][CtlNext]_ctlvars

-----------------------------------------------------------------------------
hal_usb_cdc_connected == conf /\ ~suspended /\ line_state

\* hal_usb_cdc_connected answers for the host: with every event served, it
\* holds exactly when the host has configured the device, has raised DTR and
\* has not suspended the bus.  A suspend does not lose DTR, and a reset loses
\* both.  Events that were pending together, or with a request, are served in
\* a fixed order, so the claim is made for as long as each was served before
\* the next (mixed).
ConnectedIsTrue ==
  pending = {} /\ ~mixed => hal_usb_cdc_connected = (told.conf /\ told.dtr /\ ~asleep)

\* The line coding is the default or one the host sent for it, not what
\* another request left in ep0_buf; a SET_LINE_CODING whose data never came,
\* or came short, (dropped) is the exception, as only its data makes it good.
CodingWasAsked == dropped \/ line_coding \in {DefaultCoding} \union asked

\* The host's IN transfer ends: it has all it asked for, or its last packet
\* is short.
ReplyEnds ==
  reply.len = reply.wanted \/ reply.len - (reply.packets - 1) * MaxPacket < MaxPacket
=============================================================================
