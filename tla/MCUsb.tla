------------------------------- MODULE MCUsb --------------------------------
(***************************************************************************)
(* The USB device for TLC.  Its receive side, its transmit side and its    *)
(* control endpoint meet only in the hardware, which each module takes as  *)
(* doing anything, so one run explores them one at a time: part says which *)
(* one moves.                                                              *)
(***************************************************************************)
EXTENDS UsbRx, UsbTx, UsbControl

VARIABLE part   \* "rx", "tx" or "control"

MCInit ==
  /\ part \in {"rx", "tx", "control"}
  /\ Init /\ TxInit /\ CtlInit

MCNext ==
  /\ UNCHANGED part
  /\ \/ part = "rx" /\ Next /\ UNCHANGED <<sendvars, ctlvars>>
     \/ part = "tx" /\ TxNext /\ UNCHANGED <<vars, ctlvars>>
     \/ part = "control" /\ CtlNext /\ UNCHANGED <<vars, sendvars>>

MCSpec ==
  /\ MCInit /\ [][MCNext]_<<part, vars, sendvars, ctlvars>>
  /\ part = "rx" => Fairness
=============================================================================
