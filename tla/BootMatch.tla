------------------------------ MODULE BootMatch ------------------------------
(***************************************************************************)
(* The console watcher of src/common/hal_boot.c: bytes arrive one at a     *)
(* time or in buffers, and the board reboots into the loader when they     *)
(* spell hal_boot_seq.  The matcher keeps one number, s_pos; the stream    *)
(* itself is kept here as history, to say what the number must mean.       *)
(***************************************************************************)
EXTENDS Naturals, Sequences

CONSTANTS
  Bytes,      \* the byte values a link can deliver
  SEQ,        \* hal_boot_seq
  MaxBuffer,  \* longest buffer handed to hal_boot_feed
  MaxHeard    \* bound on the stream's length between two restarts

SEQ_LEN == Len(SEQ)

ASSUME SeqAssumption ==
  /\ SEQ \in Seq(Bytes) /\ Len(SEQ) > 0
  /\ MaxBuffer \in Nat /\ MaxHeard \in Nat

(* hal_boot.c:44: the bytes of the sequence are all distinct.              *)
ASSUME DistinctAssumption ==
  \A i, j \in 1..Len(SEQ) : SEQ[i] = SEQ[j] => i = j

VARIABLES
  s_pos,     \* s_pos
  entry_disabled,  \* s_entry_disabled
  buffer,    \* what hal_boot_feed has still to walk
  outcome,   \* what hal_boot_match_byte did last
  heard      \* history: the bytes matched against since the last restart

matchvars == <<s_pos, entry_disabled, buffer, outcome, heard>>

Outcomes == {"none", "busy", "reset"}

\* hal_boot_request: refused while entry is disabled, else it resets the board
Request == IF entry_disabled THEN "busy" ELSE "reset"

\* mutant: a mismatch always starts from nothing
MatchNoResync(b) ==
  /\ heard' = Append(heard, b)
  /\ s_pos' = IF b = SEQ[s_pos + 1] THEN (s_pos + 1) % SEQ_LEN ELSE 0
  /\ outcome' = IF s_pos + 1 = SEQ_LEN /\ b = SEQ[SEQ_LEN] THEN Request ELSE "none"

\* hal_boot_match_byte
MatchByte(b) ==
  /\ heard' = Append(heard, b)
  /\ \/ /\ b = SEQ[s_pos + 1] /\ s_pos + 1 = SEQ_LEN
        /\ s_pos' = 0 /\ outcome' = Request
     \/ /\ b = SEQ[s_pos + 1] /\ s_pos + 1 < SEQ_LEN
        /\ s_pos' = s_pos + 1 /\ outcome' = "none"
     \/ /\ b # SEQ[s_pos + 1]
        /\ s_pos' = IF b = SEQ[1] THEN 1 ELSE 0
        /\ outcome' = "none"

-----------------------------------------------------------------------------
Watching == outcome # "reset"

Byte(b) ==
  /\ Watching /\ buffer = <<>> /\ Len(heard) < MaxHeard
  /\ MatchByte(b)
  /\ UNCHANGED <<entry_disabled, buffer>>

\* hal_boot_feed; a NULL buffer is an empty one
Feed(data) ==
  /\ Watching /\ buffer = <<>> /\ Len(data) \in 1..MaxBuffer
  /\ buffer' = data
  /\ UNCHANGED <<s_pos, entry_disabled, outcome, heard>>

FeedByte ==
  /\ Watching /\ buffer # <<>> /\ Len(heard) < MaxHeard
  /\ MatchByte(Head(buffer))
  /\ buffer' = Tail(buffer)
  /\ UNCHANGED entry_disabled

\* hal_boot_match_reset, as after a link drop
MatchReset ==
  /\ Watching /\ buffer = <<>>
  /\ s_pos' = 0 /\ heard' = <<>> /\ outcome' = "none"
  /\ UNCHANGED <<entry_disabled, buffer>>

EntryDisable ==
  /\ Watching /\ entry_disabled' = TRUE
  /\ UNCHANGED <<s_pos, buffer, outcome, heard>>

EntryEnable ==
  /\ Watching /\ entry_disabled' = FALSE
  /\ UNCHANGED <<s_pos, buffer, outcome, heard>>

\* hal_system_reset, or any other: .bss and .data start over
WatchRestart ==
  /\ s_pos' = 0 /\ entry_disabled' = FALSE /\ buffer' = <<>>
  /\ outcome' = "none" /\ heard' = <<>>

MatchInit ==
  /\ s_pos = 0 /\ entry_disabled = FALSE /\ buffer = <<>>
  /\ outcome = "none" /\ heard = <<>>

Buffers == UNION {[1..n -> Bytes] : n \in 1..MaxBuffer}

MatchNext ==
  \/ \E b \in Bytes : Byte(b)
  \/ \E data \in Buffers : Feed(data)
  \/ FeedByte \/ MatchReset \/ EntryDisable \/ EntryEnable \/ WatchRestart

MatchSpec == MatchInit /\ [][MatchNext]_matchvars

-----------------------------------------------------------------------------
MatchTypeOK ==
  /\ s_pos \in 0..(SEQ_LEN - 1)
  /\ entry_disabled \in BOOLEAN
  /\ buffer \in Seq(Bytes)
  /\ outcome \in Outcomes
  /\ heard \in Seq(Bytes)

\* the stream ends with the first k bytes of the sequence
Ends(k) == k <= Len(heard) /\ \A i \in 1..k : heard[Len(heard) - k + i] = SEQ[i]

(* hal_boot.h:226: the watcher acts on a stream exactly when its last      *)
(* bytes are the whole sequence: none is missed, however it is split over  *)
(* buffers and whatever precedes it, and nothing else triggers.            *)
MatchExact == outcome # "none" <=> Ends(SEQ_LEN)

(* hal_boot.c:145: the one-byte resync never forgets a sequence that has   *)
(* begun: s_pos is always the longest part of it the stream ends with.     *)
LongestMatch == \A k \in 1..(SEQ_LEN - 1) : Ends(k) => k <= s_pos

MatchInv ==
  /\ MatchTypeOK
  /\ \A k \in 1..(SEQ_LEN - 1) : Ends(k) <=> k = s_pos
  /\ MatchExact
=============================================================================
