---------------------------- MODULE MCBootUpdate ----------------------------
(***************************************************************************)
(* The operator installs the second release over the first.                *)
(***************************************************************************)
EXTENDS BootUpdate, TLC

CONSTANTS s2, app1, app2

MCLayout  == [stage2 |-> <<{1, 2}>>, app |-> <<{1}, {2}>>]
MCImages  == {s2, app1, app2}
MCKind    == (s2 :> "stage2") @@ (app1 :> "app") @@ (app2 :> "app")
MCVersion == (s2 :> 1) @@ (app1 :> 1) @@ (app2 :> 2)
MCRelease == [stage2 |-> s2, app |-> app2]
=============================================================================
