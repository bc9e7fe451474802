------------------------------- MODULE UsbTx --------------------------------
(***************************************************************************)
(* The send path of the USB CDC driver, src/vendor/stm32/usb/usb_cdc.c:    *)
(* hal_usb_cdc_write and hal_usb_cdc_notify_serial_state wait for the      *)
(* endpoint's busy flag and arm it with the interrupts masked; the flag is *)
(* cleared by the interrupt and by the host's control requests.            *)
(*                                                                         *)
(* The thread can be interrupted between the wait and the arming.          *)
(***************************************************************************)
EXTENDS Integers, FiniteSetsExt

CONSTANTS PacketSize, \* HAL_USB_CDC_PACKET_SIZE
          TxChunk,    \* TX_CHUNK
          WriteLens   \* lengths the application writes

ASSUME UsbTxConstants ==
  /\ PacketSize \in Nat \ {0} /\ TxChunk \in Nat \ {0} /\ TxChunk % PacketSize = 0
  /\ WriteLens \subseteq Nat \ {0}

InEps == {"data", "notif"}   \* EP_DATA's and EP_NOTIF's IN endpoints

VARIABLES
  usb_configured,           \* the device has a configuration
  busy,                     \* ep_in_busy and ep_notif_busy
  live, halted, done, size, \* EPENA, STALL and XFRC of each; XFRSIZ of EP_DATA
  tpc, ep, unsent, zlp,       \* the thread: waiting or arming, for what
  msg, wlen,                \* what the host has of the message; the last write
  yanked, reopened, broken  \* flag cleared early, left set; a write was cut

flags == <<busy, live, halted, done, size>>
caller == <<tpc, ep, unsent, zlp>>
seen == <<msg, wlen>>
txvars == <<flags, caller, seen, yanked, reopened, broken>>
sendvars == <<usb_configured, txvars>>

Off == [e \in InEps |-> FALSE]

TxInit ==
  /\ usb_configured = FALSE
  /\ busy = Off /\ live = Off /\ halted = Off /\ done = Off /\ size = 0
  /\ tpc = "idle" /\ ep = "data" /\ unsent = 0 /\ zlp = FALSE
  /\ msg = 0 /\ wlen = 0
  /\ yanked = Off /\ reopened = FALSE /\ broken = FALSE

\* A write is in the thread's hands; a write is not over yet for the host.
Writing == tpc # "idle" /\ ep = "data"
Unfinished == Writing \/ live["data"] \/ done["data"] \/ msg # 0

-----------------------------------------------------------------------------
(* The bus and the control requests (on_reset, handle_setup).              *)

\* on_reset, and hal_usb_cdc_deinit and hal_usb_cdc_init with the reset the
\* host then gives.
TxReset ==
  /\ usb_configured' = FALSE
  /\ busy' = Off /\ live' = Off /\ halted' = Off /\ done' = Off
  /\ msg' = 0 /\ broken' = Writing
  /\ yanked' = Off /\ reopened' = (tpc = "arm" /\ ep = "notif")
  /\ UNCHANGED <<size, caller, wlen>>

\* Mutant: an opened endpoint keeps its busy flag.
TxOpenBusy ==
  /\ usb_configured' = TRUE /\ halted' = Off /\ live' = Off /\ busy' = busy
  /\ reopened' = (reopened \/ busy["notif"] \/ (tpc = "arm" /\ ep = "notif"))
  /\ yanked' = [yanked EXCEPT !["data"] = done["data"]]
  /\ msg' = 0 /\ broken' = (done["data"] \/ Writing)
  /\ UNCHANGED <<done, size, caller, wlen>>

\* SET_CONFIGURATION with a value: ep_open.
TxOpen ==
  /\ usb_configured' = TRUE /\ halted' = Off /\ live' = Off
  /\ busy' = [busy EXCEPT !["data"] = FALSE]
  /\ reopened' = (reopened \/ busy["notif"] \/ (tpc = "arm" /\ ep = "notif"))
  /\ yanked' = [yanked EXCEPT !["data"] = done["data"]]
  /\ msg' = 0 /\ broken' = (done["data"] \/ Writing)
  /\ UNCHANGED <<done, size, caller, wlen>>

\* SET_CONFIGURATION with zero: ep_close.
TxClose ==
  /\ usb_configured' = FALSE /\ halted' = Off /\ live' = Off
  /\ broken' = (broken \/ Unfinished)
  /\ reopened' = (reopened \/ busy["notif"])
  /\ UNCHANGED <<busy, done, size, caller, seen, yanked>>

\* SET_FEATURE and CLEAR_FEATURE of ENDPOINT_HALT on an IN endpoint: ep_set_halt.
\* Halting tears the transfer down, clearing the halt does not.
TxHalt(e, halt) ==
  /\ halted' = [halted EXCEPT ![e] = halt]
  /\ live' = [live EXCEPT ![e] = @ /\ ~halt]
  /\ busy' = [busy EXCEPT ![e] = FALSE]
  /\ yanked' = [yanked EXCEPT ![e] = @ \/ live'[e] \/ done[e]]
  /\ broken' = (broken \/ (e = "data" /\ Unfinished))
  /\ UNCHANGED <<usb_configured, done, size, caller, seen, reopened>>

\* SET_INTERFACE: ep_reset_toggles.
TxResetToggles ==
  /\ busy' = Off
  /\ yanked' = [e \in InEps |-> yanked[e] \/ live[e] \/ done[e]]
  /\ broken' = (broken \/ Unfinished)
  /\ UNCHANGED <<usb_configured, live, halted, done, size, caller, seen, reopened>>

-----------------------------------------------------------------------------
(* The host's collection of a transfer, and on_in_ep_int.                  *)

EndsMessage(n) == n = 0 \/ n % PacketSize # 0

\* External: a short packet ends the host's read.  What cut writes leave in the
\* host's buffer is not counted.
HostCollect(e) ==
  /\ usb_configured /\ live[e] /\ ~halted[e]
  /\ live' = [live EXCEPT ![e] = FALSE] /\ done' = [done EXCEPT ![e] = TRUE]
  /\ msg' = IF e = "notif" \/ broken THEN msg
            ELSE IF EndsMessage(size) THEN 0 ELSE msg + size
  /\ UNCHANGED <<usb_configured, busy, halted, size, caller, wlen, yanked, reopened, broken>>

\* The interrupts of a closed endpoint are masked.
OnInEpInt(e) ==
  /\ usb_configured /\ done[e]
  /\ done' = [done EXCEPT ![e] = FALSE] /\ busy' = [busy EXCEPT ![e] = FALSE]
  /\ yanked' = [yanked EXCEPT ![e] = @ \/ live[e]]
  /\ UNCHANGED <<usb_configured, live, halted, size, caller, seen, reopened, broken>>

-----------------------------------------------------------------------------
(* The thread: hal_usb_cdc_write, a chunk at a time and a zero-length       *)
(* packet on a boundary, and hal_usb_cdc_notify_serial_state.               *)

\* Mutant: no zero-length packet after a full last one.
WriteCallShort(n) ==
  /\ tpc = "idle" /\ usb_configured
  /\ tpc' = "wait" /\ ep' = "data" /\ unsent' = n /\ zlp' = FALSE /\ wlen' = n
  /\ UNCHANGED <<usb_configured, flags, msg, yanked, reopened, broken>>

WriteCall(n) ==
  /\ tpc = "idle" /\ usb_configured
  /\ tpc' = "wait" /\ ep' = "data" /\ unsent' = n /\ zlp' = (n % PacketSize = 0) /\ wlen' = n
  /\ UNCHANGED <<usb_configured, flags, msg, yanked, reopened, broken>>

NotifyCall ==
  /\ tpc = "idle" /\ usb_configured
  /\ tpc' = "wait" /\ ep' = "notif"
  /\ UNCHANGED <<usb_configured, flags, unsent, zlp, seen, yanked, reopened, broken>>

\* Not configured any more, or the spins ran out: the call gives up.
WaitFails ==
  /\ tpc = "wait" /\ busy[ep]
  /\ tpc' = "idle" /\ unsent' = 0 /\ zlp' = FALSE
  /\ broken' = (broken \/ ep = "data")
  /\ UNCHANGED <<usb_configured, flags, ep, seen, yanked, reopened>>

WaitEnds ==
  /\ tpc = "wait" /\ ~busy[ep] /\ tpc' = "arm"
  /\ UNCHANGED <<usb_configured, flags, ep, unsent, zlp, seen, yanked, reopened, broken>>

\* Mutant: the notification endpoint is armed without its flag.
ArmNotifFree ==
  /\ tpc = "arm" /\ ep = "notif" /\ tpc' = "idle" /\ live' = [live EXCEPT ![ep] = TRUE]
  /\ UNCHANGED <<usb_configured, busy, halted, done, size, ep, unsent, zlp, seen, yanked,
                 reopened, broken>>

ArmNotif ==
  /\ tpc = "arm" /\ ep = "notif" /\ tpc' = "idle"
  /\ busy' = [busy EXCEPT ![ep] = TRUE] /\ live' = [live EXCEPT ![ep] = TRUE]
  /\ UNCHANGED <<usb_configured, halted, done, size, ep, unsent, zlp, seen, yanked, reopened,
                 broken>>

\* ep_in_transfer of the next chunk, or of the zero-length packet.
ArmData ==
  /\ tpc = "arm" /\ ep = "data"
  /\ busy' = [busy EXCEPT ![ep] = TRUE] /\ live' = [live EXCEPT ![ep] = TRUE]
  /\ size' = Min({unsent, TxChunk}) /\ unsent' = unsent - size' /\ zlp' = (zlp /\ unsent > 0)
  /\ tpc' = IF unsent' > 0 \/ zlp' THEN "wait" ELSE "idle"
  /\ UNCHANGED <<usb_configured, halted, done, ep, seen, yanked, reopened, broken>>

-----------------------------------------------------------------------------
TxNext ==
  \/ TxReset \/ TxOpen \/ TxClose \/ TxResetToggles
  \/ \E e \in InEps : (\E h \in BOOLEAN : TxHalt(e, h)) \/ HostCollect(e) \/ OnInEpInt(e)
  \/ (\E n \in WriteLens : WriteCall(n)) \/ NotifyCall
  \/ WaitFails \/ WaitEnds \/ ArmNotif \/ ArmData

TxSpec == TxInit /\ [][TxNext]_sendvars

-----------------------------------------------------------------------------

\* A set busy flag of a configured device belongs to a transfer the host can
\* still collect or has collected, else every later call would time out.  The
\* notification endpoint's flag is left set when SET_CONFIGURATION closes the
\* endpoint under its transfer, or a reset comes between its wait and arming.
BusyIsLive ==
  \A e \in InEps : usb_configured /\ busy[e]
                   => live[e] \/ done[e] \/ (e = "notif" /\ reopened)

\* A transfer is armed only when the one before it on its endpoint is done,
\* unless a control request cleared the flag of a transfer in flight.
OneInFlight == \A e \in InEps : (live[e] \/ done[e]) /\ ~yanked[e] => busy[e]

\* The host sees the boundary of every write that was not cut: its transfers
\* add up to it and the last of them ends in a short packet.
WriteBoundary ==
  tpc = "idle" /\ ~broken =>
    IF live["data"] THEN msg + size = wlen /\ EndsMessage(size) ELSE msg = 0
=============================================================================
