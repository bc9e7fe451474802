------------------------------- MODULE MCBoot -------------------------------
(***************************************************************************)
(* The boot block and the watcher for TLC.  They meet only in the request  *)
(* the watcher makes, so one run explores them one at a time: part says    *)
(* which of the two moves.  Words have five bits: request words 16 and 17  *)
(* differ in the low bit as 0x10ADED00 and 0x10ADED01 do, and strike       *)
(* counts stay below them.  The watcher's sequence has three bytes, and    *)
(* one byte is outside it.                                                 *)
(***************************************************************************)
EXTENDS BootBlock, BootMatch, Bitwise

CONSTANTS b0, b1, b2, other

VARIABLE part   \* "block" or "watcher"

MCXor(x, y) == x ^^ y

\* SRAM all zero, all ones, and the magic with a check that does not match
MCGarbage ==
  {[magic |-> 0,     request |-> 0,     attempts |-> 0,  check |-> 0],
   [magic |-> 31,    request |-> 31,    attempts |-> 31, check |-> 31],
   [magic |-> 11,    request |-> 16,    attempts |-> 2,  check |-> 0]}

MCBytes == {b0, b1, b2, other}
MCSEQ   == <<b0, b1, b2>>

MCInit ==
  /\ Init /\ MatchInit /\ part \in {"block", "watcher"}
  /\ part = "watcher" => sboot.magic = 0

MCNext ==
  /\ UNCHANGED part
  /\ \/ part = "block" /\ Next /\ UNCHANGED matchvars
     \/ part = "watcher" /\ MatchNext /\ UNCHANGED vars

MCSpec == MCInit /\ [][MCNext]_<<vars, matchvars, part>>
=============================================================================
