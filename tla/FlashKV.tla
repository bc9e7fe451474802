------------------------------ MODULE FlashKV ------------------------------
(***************************************************************************)
(* The key/value store of src/vendor/stm32/flash/flash.c: records appended *)
(* to a primary sector, and a compaction through a secondary one when the  *)
(* primary is full.  Flash is programmed a half-word at a time and bits    *)
(* only go from one to zero, so programming is an AND; an erase sets them  *)
(* all.  Every half-word and every sector erase is a step, and a power cut *)
(* can fall between any two.                                               *)
(*                                                                         *)
(* The two sectors are adjacent and of one size, as 2-3 and 6-7 are on     *)
(* every board.  A byte has ByteMax + 1 values and arithmetic kept in a    *)
(* uint8_t wraps there.  _flash_write_data_ ignores the controller's       *)
(* errors, so no step but a full store or an empty write fails.            *)
(***************************************************************************)
EXTENDS Naturals, Sequences

CONSTANTS
  ByteMax,     \* UINT8_MAX, and the value of an erased byte
  MAGIC,       \* FLASH_MAGIC_NUMBER
  Sector,      \* bytes in a storage sector
  Keys,
  Values,      \* sequences of bytes, of even length
  BitAnd(_, _), BitXor(_, _),   \* of two bytes
  MaxCalls,    \* bound on the calls between Init and the end
  MaxCuts      \* bound on power cuts

HDR     == 6   \* sizeof(hal_flash_record_t)
VALID   == 1
DELETED == 0
NULL    == 2 * Sector   \* an address outside the storage
Absent  == <<>>
Bytes   == 0..ByteMax

ASSUME StoreAssumption ==
  /\ ByteMax \in Nat /\ MAGIC \in 0..(ByteMax - 1) /\ Sector \in Nat /\ Sector % 2 = 0
  /\ Keys \subseteq Bytes
  /\ \A v \in Values : v \in Seq(Bytes) /\ Len(v) \in 1..ByteMax /\ Len(v) % 2 = 0

ASSUME BitsAssumption ==
  \A x, y \in Bytes :
    /\ BitXor(x, y) \in Bytes /\ BitAnd(x, y) \in Bytes
    /\ BitAnd(x, x) = x /\ BitAnd(ByteMax, x) = x /\ BitAnd(x, 0) = 0

VARIABLES
  mem,      \* the two sectors, primary first
  pc,       \* what the call under way does next
  call,     \* its arguments
  src,      \* ptr_primary or ptr_secondary, whichever is read
  dst,      \* ... and whichever is programmed
  left,     \* bytes of the record still to copy
  buf,      \* bytes of a header or value still to program, at dst
  free,     \* stm32_flash_save's ptr
  rc,       \* what the last call returned
  allowed,  \* history: what a read of each key may return
  calls, cuts

work == <<src, dst, left, buf, free>>
vars == <<mem, pc, call, work, rc, allowed, calls, cuts>>

Byte(a)   == IF a \in DOMAIN mem THEN mem[a] ELSE ByteMax
Magic(a)  == Byte(a)
Key(a)    == Byte(a + 1)
Size(a)   == Byte(a + 2)
Status(a) == Byte(a + 3)
Crc(a)    == Byte(a + 5)
Header(a) == [i \in 1..HDR |-> Byte(a + i - 1)]
Data(a)   == [i \in 1..Size(a) |-> Byte(a + HDR + i - 1)]

\* a record's length as the walks see it, and as a uint8_t total_size does
Reach == 0..(Sector + ByteMax + HDR)
NextRecord(a) == a + Size(a) + HDR
TotalSize(a)  == (HDR + Size(a)) % (ByteMax + 1)

CalculateCrc(v) ==
  LET xor[i \in 1..Len(v)] == IF i = 1 THEN v[1] ELSE BitXor(xor[i - 1], v[i])
  IN  IF v = <<>> THEN 0 ELSE xor[Len(v)]

FindNextFree ==
  LET walk[a \in Reach] ==
        IF Magic(a) = MAGIC /\ a < Sector THEN walk[NextRecord(a)] ELSE a
  IN  IF walk[0] >= Sector THEN NULL ELSE walk[0]

FindFirstValid(k) ==
  LET walk[a \in Reach] ==
        IF a >= Sector \/ Magic(a) # MAGIC THEN NULL
        ELSE IF Key(a) = k /\ Status(a) = VALID THEN a
        ELSE walk[NextRecord(a)]
  IN  walk[0]

\* mutant: the check byte is never compared
ReadUnchecked(k) ==
  IF FindFirstValid(k) = NULL THEN Absent ELSE Data(FindFirstValid(k))

\* stm32_flash_read; Absent is any status but HAL_OK
Read(k) ==
  LET rec == FindFirstValid(k)
  IN  IF rec = NULL THEN Absent
      ELSE IF Crc(rec) # CalculateCrc(Data(rec)) THEN Absent
      ELSE Data(rec)

NeedsCompaction == FindNextFree = NULL

-----------------------------------------------------------------------------
(* Half-words and sectors.                                                 *)

\* outside the two sectors nothing is modelled, and nothing is programmed; on
\* an odd address the controller may refuse, and nobody asks it
Program(a, lo, hi) ==
  \/ mem' = [x \in DOMAIN mem |-> IF x = a THEN BitAnd(mem[x], lo)
                                  ELSE IF x = a + 1 THEN BitAnd(mem[x], hi) ELSE mem[x]]
  \/ a % 2 = 1 /\ mem' = mem

Erased(first) ==
  [x \in DOMAIN mem |-> IF x \in first..(first + Sector - 1) THEN ByteMax ELSE mem[x]]

Goto(label) == pc' = label
Return(status) == pc' = "idle" /\ rc' = status
Quiet == UNCHANGED <<call, allowed, calls, cuts>>

\* one turn of _flash_write_data_'s loop over a buffer in RAM
ProgramBuf ==
  /\ Program(dst, buf[1], buf[2])
  /\ buf' = SubSeq(buf, 3, Len(buf)) /\ dst' = dst + 2

-----------------------------------------------------------------------------
(* Calls, up to the first half-word they program.                          *)

Called(c) ==
  /\ pc = "idle" /\ calls < MaxCalls /\ calls' = calls + 1
  /\ call' = c /\ UNCHANGED <<mem, cuts>>

Save(k, v) ==
  /\ Called([op |-> "save", key |-> k, value |-> v])
  /\ IF NeedsCompaction THEN Goto("toSecondary") /\ src' = 0 /\ dst' = Sector
     ELSE Goto("place") /\ UNCHANGED <<src, dst>>
  /\ UNCHANGED <<left, buf, free, rc, allowed>>

Mark(a) == dst' = a /\ buf' = [Header(a) EXCEPT ![4] = DELETED]

Delete(k) ==
  /\ Called([op |-> "delete", key |-> k])
  /\ LET rec == FindFirstValid(k) IN
     \/ rec = NULL /\ Return("ERR") /\ UNCHANGED <<src, dst, buf>>
     \/ rec # NULL /\ Goto("mark") /\ Mark(rec) /\ UNCHANGED <<src, rc>>
  /\ UNCHANGED <<left, free, allowed>>

EraseAll ==
  /\ Called([op |-> "erase"]) /\ Goto("clearPrimary")
  /\ UNCHANGED <<work, rc, allowed>>

ClearPrimary ==
  /\ pc = "clearPrimary" /\ mem' = Erased(0) /\ Goto("clearSecondary")
  /\ UNCHANGED <<work, rc>> /\ Quiet

ClearSecondary ==
  /\ pc = "clearSecondary" /\ mem' = Erased(Sector) /\ Return("OK")
  /\ allowed' = [k \in Keys |-> {Absent}]
  /\ UNCHANGED <<work, call, calls, cuts>>

-----------------------------------------------------------------------------
(* _flash_compact_storage_: out to the secondary sector and back.          *)

Compacting == pc \in {"toSecondary", "toPrimary"}
Limit == IF pc = "toSecondary" THEN Sector ELSE 2 * Sector
AtRecord == Compacting /\ left = 0 /\ Magic(src) = MAGIC /\ src < Limit

\* only the way out looks at the status
Dropped(a) == pc = "toSecondary" /\ Status(a) # VALID

\* mutant: the walk does not move past what it drops
SkipStays ==
  /\ AtRecord /\ Dropped(src) /\ src' = src
  /\ UNCHANGED <<mem, pc, dst, left, buf, free, rc>> /\ Quiet

SkipRecord ==
  /\ AtRecord /\ Dropped(src) /\ src' = src + TotalSize(src)
  /\ UNCHANGED <<mem, pc, dst, left, buf, free, rc>> /\ Quiet

CopyRecord ==
  /\ AtRecord /\ ~Dropped(src)
  /\ left' = TotalSize(src)
  /\ IF TotalSize(src) = 0 THEN Return("IO") ELSE UNCHANGED <<pc, rc>>
  /\ UNCHANGED <<mem, src, dst, buf, free>> /\ Quiet

\* the source is flash too, read as it is when its turn comes
CopyHalfWord ==
  /\ Compacting /\ left > 0
  /\ Program(dst, Byte(src), IF left > 1 THEN Byte(src + 1) ELSE ByteMax)
  /\ src' = src + (IF left > 1 THEN 2 ELSE 1) /\ dst' = dst + (IF left > 1 THEN 2 ELSE 1)
  /\ left' = IF left > 1 THEN left - 2 ELSE 0
  /\ UNCHANGED <<pc, buf, free, rc>> /\ Quiet

CopyDone ==
  /\ Compacting /\ left = 0 /\ ~(Magic(src) = MAGIC /\ src < Limit)
  /\ Goto(IF pc = "toSecondary" THEN "erasePrimary" ELSE "eraseSecondary")
  /\ UNCHANGED <<mem, work, rc>> /\ Quiet

ErasePrimary ==
  /\ pc = "erasePrimary" /\ mem' = Erased(0)
  /\ Goto("toPrimary") /\ src' = Sector /\ dst' = 0
  /\ UNCHANGED <<left, buf, free, rc>> /\ Quiet

EraseSecondary ==
  /\ pc = "eraseSecondary" /\ mem' = Erased(Sector) /\ Goto("place")
  /\ UNCHANGED <<work, rc>> /\ Quiet

-----------------------------------------------------------------------------
(* stm32_flash_save: mark the old record, then append the new one.         *)

\* mutant: the old record is left standing
PlaceUnmarked ==
  /\ pc = "place" /\ free' = FindNextFree
  /\ \/ FindNextFree = NULL /\ Return("IO")
     \/ FindNextFree # NULL /\ Goto("header") /\ UNCHANGED rc
  /\ UNCHANGED <<mem, src, left, dst, buf>> /\ Quiet

Place ==
  LET rec == FindFirstValid(call.key) IN
  /\ pc = "place" /\ free' = FindNextFree
  /\ \/ FindNextFree = NULL /\ Return("IO") /\ UNCHANGED <<dst, buf>>
     \/ FindNextFree # NULL /\ rec = NULL /\ Goto("header") /\ UNCHANGED <<dst, buf, rc>>
     \/ FindNextFree # NULL /\ rec # NULL /\ Goto("mark") /\ Mark(rec) /\ UNCHANGED rc
  /\ UNCHANGED <<mem, src, left>> /\ Quiet

MarkHalfWord ==
  /\ pc = "mark" /\ buf # <<>> /\ ProgramBuf
  /\ UNCHANGED <<pc, src, left, free, rc>> /\ Quiet

Marked ==
  /\ pc = "mark" /\ buf = <<>>
  /\ \/ call.op = "save" /\ Goto("header") /\ UNCHANGED <<rc, allowed>>
     \/ /\ call.op = "delete" /\ Return("OK")
        /\ allowed' = [allowed EXCEPT ![call.key] = {Absent}]
  /\ UNCHANGED <<mem, work, call, calls, cuts>>

\* rec.reserved is never assigned: whatever the stack held is programmed
WriteHeader ==
  /\ pc = "header" /\ Goto("record") /\ dst' = free
  /\ \E reserved \in {0, ByteMax} :
       buf' = <<MAGIC, call.key, Len(call.value), VALID, reserved, CalculateCrc(call.value)>>
              \o call.value
  /\ UNCHANGED <<mem, src, left, free, rc>> /\ Quiet

RecordHalfWord ==
  /\ pc = "record" /\ buf # <<>> /\ ProgramBuf
  /\ UNCHANGED <<pc, src, left, free, rc>> /\ Quiet

Saved ==
  /\ pc = "record" /\ buf = <<>> /\ Return("OK")
  /\ allowed' = [allowed EXCEPT ![call.key] = {call.value}]
  /\ UNCHANGED <<mem, work, call, calls, cuts>>

-----------------------------------------------------------------------------
(* A cut loses the call; the key it was about may read old, gone or new.   *)

Interrupted ==
  [k \in Keys |->
     IF pc = "idle" \/ call.op = "erase" THEN allowed[k] \cup (IF pc = "idle" THEN {} ELSE {Absent})
     ELSE IF k # call.key THEN allowed[k]
     ELSE allowed[k] \cup {Absent} \cup (IF call.op = "save" THEN {call.value} ELSE {})]

PowerCut ==
  /\ cuts < MaxCuts /\ cuts' = cuts + 1
  /\ Goto("idle") /\ allowed' = Interrupted
  /\ src' = 0 /\ dst' = 0 /\ left' = 0 /\ buf' = <<>> /\ free' = 0 /\ rc' = "none"
  /\ UNCHANGED <<mem, call, calls>>

-----------------------------------------------------------------------------
Init ==
  /\ mem = [a \in 0..(2 * Sector - 1) |-> ByteMax]
  /\ pc = "idle" /\ call = [op |-> "none"] /\ rc = "none"
  /\ src = 0 /\ dst = 0 /\ left = 0 /\ buf = <<>> /\ free = 0
  /\ allowed = [k \in Keys |-> {Absent}]
  /\ calls = 0 /\ cuts = 0

Compact == SkipRecord \/ CopyRecord \/ CopyHalfWord \/ CopyDone \/ ErasePrimary \/ EraseSecondary

Appending == Place \/ MarkHalfWord \/ Marked \/ WriteHeader \/ RecordHalfWord \/ Saved

Step == Compact \/ Appending \/ ClearPrimary \/ ClearSecondary

Next ==
  \/ \E k \in Keys, v \in Values : Save(k, v)
  \/ \E k \in Keys : Delete(k)
  \/ EraseAll \/ Step \/ PowerCut

\* a call runs to its end: it waits for nothing but the controller
Spec == Init /\ [][Next]_vars /\ WF_vars(Step)

-----------------------------------------------------------------------------

(* hal_flash.h:63: a save "supersedes any previous value" and lasts: after *)
(* any calls, compactions and refusals that no power cut interrupted, each *)
(* key reads as the last call that succeeded for it left it.               *)
ReadsBack == pc = "idle" /\ cuts = 0 => \A k \in Keys : Read(k) \in allowed[k]

\* v with the bytes behind the first n still blank
Torn(v, n) == [i \in 1..Len(v) |-> IF i <= n THEN v[i] ELSE ByteMax]

\* the check byte tells the values saved from all that programming them passes through
TornIsSeen ==
  \A v \in Values :
    /\ CalculateCrc(Torn(v, 0)) # ByteMax
    /\ \A n \in 0..Len(v) :
         n % 2 = 0 /\ CalculateCrc(Torn(v, n)) = CalculateCrc(v) => Torn(v, n) = v

(* flash.c:340: until the next call, the cut itself does no harm while a   *)
(* record is being superseded: the other keys read as before, and the one  *)
(* being saved reads as it was, as it was to be, or not at all.  For       *)
(* values as TornIsSeen has them.                                          *)
Whole == \A k \in Keys : Read(k) \in allowed[k]
CutInAppend ==
  [][PowerCut /\ pc \in {"place", "mark", "header", "record"} => Whole']_vars

(* flash.c:273: a call that began returns, a compaction included, also    *)
(* over whatever an earlier power cut left behind.                         *)
CallsReturn == pc # "idle" ~> pc = "idle"
=============================================================================
