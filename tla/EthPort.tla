------------------------------ MODULE EthPort ------------------------------
(***************************************************************************)
(* What include/common/hal_eth.h promises of hal_eth_send and              *)
(* hal_eth_receive: two bounded queues of frames between the caller and    *)
(* the wire.  A frame sent goes out once, whole and in order; a frame that *)
(* came in is taken once, whole and in order.                              *)
(***************************************************************************)
EXTENDS Naturals, Sequences

CONSTANTS
  Frames,   \* the contents a frame can have
  RX,       \* NAVHAL_ETH_RX_DESC_COUNT
  TX        \* NAVHAL_ETH_TX_DESC_COUNT

VARIABLES
  out,   \* frames accepted and not yet on the wire
  in,    \* frames received and not yet taken
  wire,  \* the last frame put on the wire
  got    \* what the last hal_eth_receive that took a frame copied out

portVars == <<out, in, wire, got>>

Nothing == "nothing"

Send ==
  /\ Len(out) < TX /\ \E f \in Frames : out' = Append(out, f)
  /\ UNCHANGED <<in, wire, got>>

Transmit ==
  /\ out # <<>> /\ wire' = Head(out) /\ out' = Tail(out)
  /\ UNCHANGED <<in, got>>

Arrive ==
  /\ Len(in) < RX /\ \E f \in Frames : in' = Append(in, f)
  /\ UNCHANGED <<out, wire, got>>

\* a damaged frame, or one longer than the caller's buffer, is dropped
Take ==
  /\ in # <<>> /\ got' \in {Head(in), Nothing} /\ in' = Tail(in)
  /\ UNCHANGED <<out, wire>>

\* hal_eth_deinit, then hal_eth_init
Restart == out' = <<>> /\ in' = <<>> /\ UNCHANGED <<wire, got>>

PortInit == out = <<>> /\ in = <<>> /\ wire = Nothing /\ got = Nothing
PortNext == Send \/ Transmit \/ Arrive \/ Take \/ Restart

PortSpec == PortInit /\ [][PortNext]_portVars
=============================================================================
