---------------------------- MODULE MCBootChain ----------------------------
(***************************************************************************)
(* BootChain with a stage-2 in one sector of two cells, an application     *)
(* over two sectors of one cell each, two releases of the application and  *)
(* one content that carries no signature.                                  *)
(***************************************************************************)
EXTENDS BootChain, TLC

CONSTANTS s2, app1, app2, unsigned

MCLayout  == [stage2 |-> <<{1, 2}>>, app |-> <<{1}, {2}>>]
MCImages  == {s2, app1, app2}
MCForeign == {unsigned}
MCKind    == (s2 :> "stage2") @@ (app1 :> "app") @@ (app2 :> "app")
MCVersion == (s2 :> 1) @@ (app1 :> 1) @@ (app2 :> 2)
=============================================================================
