----------------------------- MODULE MCEthRing -----------------------------
(***************************************************************************)
(* EthRing on rings of two descriptors and frames of two contents.  The    *)
(* two directions share no descriptor and no line, so frames travel one    *)
(* way in a behaviour: either nothing is sent, or nothing comes in.        *)
(***************************************************************************)
EXTENDS EthRing

VARIABLE way   \* "in" or "out"

mcVars == <<vars, way>>

MCInit == Init /\ way \in {"in", "out"}

MCNext ==
  /\ Next /\ UNCHANGED way
  /\ way = "in"  => txPc' = "idle"
  /\ way = "out" => rxDesc' \in [Rx -> {"dma", "cpu"}]

MCSpec == MCInit /\ [][MCNext]_mcVars /\ Fairness
=============================================================================
