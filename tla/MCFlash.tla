------------------------------ MODULE MCFlash -------------------------------
(***************************************************************************)
(* The STM32 flash driver for TLC: the key/value store, on four-bit bytes, *)
(* where 6 + 15 wraps to 5 as 6 + 255 does in eight bits, and the raw      *)
(* interface, on a part of eight small sectors that ends below the last    *)
(* address, with half-words of one bit.  The store and the raw range are   *)
(* different sectors, so one run explores them one at a time: part says    *)
(* which of the two moves.  In three-bit bytes a half-word and its header  *)
(* wrap to zero, as 250 bytes and their header do in eight.                *)
(***************************************************************************)
EXTENDS FlashKV, FlashRaw, Bitwise

CONSTANT Parts   \* those a run explores

VARIABLE part    \* "store" or "raw"

ASSUME PartsAssumption == Parts \subseteq {"store", "raw"}
ASSUME TornAssumption == TornIsSeen

\* of two bytes
MCAnd(a, b) == a & b
MCXor(a, b) == a ^^ b

\* one half-word each, its two bytes different
MCPairs == {<<3, 5>>, <<6, 4>>}

MCBase == [s \in 0..7 |-> IF s <= 5 THEN 4 + 2 * s ELSE 6 + 2 * s]
MCSize == [s \in 0..7 |-> IF s = 5 THEN 4 ELSE 2]

MCInit == Init /\ RawInit /\ part \in Parts

MCNext ==
  /\ UNCHANGED part
  /\ \/ part = "store" /\ Next /\ UNCHANGED rawvars
     \/ part = "raw" /\ RawNext /\ UNCHANGED vars

MCSpec == MCInit /\ [][MCNext]_<<vars, rawvars, part>> /\ WF_vars(Step)
=============================================================================
