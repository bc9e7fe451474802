------------------------------ MODULE FlashRaw ------------------------------
(***************************************************************************)
(* Raw partition access of src/vendor/stm32/flash/flash.c: the guard a     *)
(* loader's erases and writes pass, and the loop that programs half-words  *)
(* and reads each one back.  Flash is indexed by the even byte addresses;  *)
(* a half-word is the set of its bits that are one, so programming is an   *)
(* intersection and an erased half-word is Bits.                           *)
(***************************************************************************)
EXTENDS Integers

CONSTANTS
  AddrMax,     \* UINT32_MAX
  Base,        \* _sector_base
  SectorSize,        \* _sector_size
  PRIMARY,     \* PRIMARY_FLASH_SECTOR
  SECONDARY,   \* SECONDARY_FLASH_SECTOR
  Bits,        \* the bits of a half-word
  MaxLen       \* bound on the bytes one call programs

Sectors == 0..7
Words   == SUBSET Bits
Addr    == 0..AddrMax
Top     == Base[7] + SectorSize[7]
Inside(a, s) == Base[s] <= a /\ a < Base[s] + SectorSize[s]

\* the addresses of half-words, in the part and in a sector of it
Cells == {a \in Addr : a % 2 = 0 /\ Base[0] <= a /\ a < Top}
CellsOf(s) == {a \in Cells : Inside(a, s)}

(* The sectors tile the part, on even boundaries.                          *)
ASSUME MapAssumption ==
  /\ AddrMax \in Nat /\ PRIMARY \in Sectors /\ SECONDARY \in Sectors /\ MaxLen \in Addr
  /\ Base \in [Sectors -> Addr] /\ SectorSize \in [Sectors -> Nat \ {0}]
  /\ Top <= AddrMax
  /\ \A s \in Sectors : Base[s] % 2 = 0 /\ SectorSize[s] % 2 = 0
  /\ \A a \in Addr : Base[0] <= a /\ a < Top => \E s \in Sectors : Inside(a, s)
  /\ \A a \in Addr, s, t \in Sectors : Inside(a, s) /\ Inside(a, t) => s = t

VARIABLES
  flash,    \* the part
  locked,   \* FLASH_CR_LOCK
  job,      \* the call under way, or the last one
  at,       \* addr + off of the loop
  raw_rc        \* its status; "busy" while it runs

rawvars == <<flash, locked, job, at, raw_rc>>

-----------------------------------------------------------------------------
\* mutant: the key/value store's second sector is forgotten
SectorAllowedPrimary(s) == s <= 7 /\ s > 1 /\ s # PRIMARY

\* stage-1 has sectors 0 and 1, the key/value store its own two
SectorAllowed(s) == s <= 7 /\ s > 1 /\ s # PRIMARY /\ s # SECONDARY

Overlaps(addr, end, s) == addr < Base[s] + SectorSize[s] /\ end > Base[s]

\* uint32_t addition
Sum(x, y) == IF x + y <= AddrMax THEN x + y ELSE x + y - (AddrMax + 1)

RangeAllowed(addr, len) ==
  LET end == Sum(addr, len) IN
  /\ len # 0
  /\ end >= addr
  /\ \A s \in Sectors : Overlaps(addr, end, s) => SectorAllowed(s)
  /\ addr >= Base[0] /\ end <= Top

ProgramAllowed(addr, len) == addr % 2 = 0 /\ len % 2 = 0 /\ RangeAllowed(addr, len)

-----------------------------------------------------------------------------
NoJob == [op |-> "none"]
Refuse == job' = NoJob /\ raw_rc' = "INVALID" /\ UNCHANGED <<flash, locked, at>>
Begin(j, a) == job' = j /\ raw_rc' = "busy" /\ locked' = FALSE /\ at' = a /\ UNCHANGED flash
RawReturn(s) == raw_rc' = s /\ locked' = TRUE /\ UNCHANGED job

\* hal_flash_raw_program, up to its loop
RawProgram(addr, len, data) ==
  LET j == [op |-> "program", addr |-> addr, len |-> len, data |-> data] IN
  /\ raw_rc # "busy"
  /\ \/ ~ProgramAllowed(addr, len) /\ Refuse
     \/ ProgramAllowed(addr, len) /\ Begin(j, addr)

Programming == raw_rc = "busy" /\ job.op = "program"
Wanted == job.data[at - job.addr]

\* mutant: the half-word is not read back
ProgramUnread ==
  /\ Programming
  /\ flash' = [flash EXCEPT ![at] = @ \cap Wanted]
  /\ IF at + 2 = job.addr + job.len THEN RawReturn("OK") /\ UNCHANGED at
     ELSE at' = at + 2 /\ UNCHANGED <<job, locked, raw_rc>>

ProgramHalfWord ==
  /\ Programming
  /\ flash' = [flash EXCEPT ![at] = @ \cap Wanted]
  /\ IF flash'[at] # Wanted THEN RawReturn("IO") /\ UNCHANGED at
     ELSE IF at + 2 = job.addr + job.len THEN RawReturn("OK") /\ UNCHANGED at
     ELSE at' = at + 2 /\ UNCHANGED <<job, locked, raw_rc>>

\* BSY outlasts FLASH_BSY_SPINS, before the half-word is programmed or after
ProgramTimeout ==
  /\ Programming /\ RawReturn("TIMEOUT")
  /\ \E w \in {flash[at], flash[at] \cap Wanted} : flash' = [flash EXCEPT ![at] = w]
  /\ UNCHANGED at

RawErase(s) ==
  LET j == [op |-> "erase", sector |-> s] IN
  /\ raw_rc # "busy"
  /\ \/ ~SectorAllowed(s) /\ Refuse
     \/ SectorAllowed(s) /\ Begin(j, 0)

\* SNB is four bits wide: which sector the controller erases
Selected(s) == s % 16

Erasing == raw_rc = "busy" /\ job.op = "erase"

EraseSector ==
  /\ Erasing /\ RawReturn("OK")
  /\ flash' = [a \in Cells |-> IF a \in CellsOf(Selected(job.sector)) THEN Bits ELSE flash[a]]
  /\ UNCHANGED at

\* a sector whose erase did not finish holds anything
HalfErased ==
  \E junk \in [CellsOf(Selected(job.sector)) -> Words] :
    flash' = [a \in Cells |-> IF a \in CellsOf(Selected(job.sector)) THEN junk[a] ELSE flash[a]]

EraseTimeout == Erasing /\ RawReturn("TIMEOUT") /\ HalfErased /\ UNCHANGED at

\* a reset, or a power cut: the call is gone, its half-word in any state
Reset ==
  /\ raw_rc' = "none" /\ locked' = TRUE /\ job' = NoJob /\ UNCHANGED at
  /\ \/ raw_rc # "busy" /\ UNCHANGED flash
     \/ Programming /\ \E w \in Words : flash' = [flash EXCEPT ![at] = w]
     \/ Erasing /\ HalfErased

-----------------------------------------------------------------------------
Buffers(len) == [{off \in 0..(len - 1) : off % 2 = 0} -> Words]

RawInit ==
  /\ flash \in [Cells -> {Bits}] /\ locked = TRUE
  /\ job = NoJob /\ at = 0 /\ raw_rc = "none"

RawNext ==
  \/ \E addr \in Addr, len \in 0..MaxLen : \E data \in Buffers(len) : RawProgram(addr, len, data)
  \/ \E s \in 0..15 : RawErase(s)
  \/ ProgramHalfWord \/ ProgramTimeout \/ EraseSector \/ EraseTimeout \/ Reset

RawSpec == RawInit /\ [][RawNext]_rawvars

-----------------------------------------------------------------------------
RawTypeOK ==
  /\ flash \in [Cells -> Words] /\ locked \in BOOLEAN
  /\ raw_rc \in {"none", "busy", "OK", "INVALID", "IO", "TIMEOUT"}
  /\ at \in Addr

\* the sectors of stage-1 and of the key/value store
Protected == {a \in Cells : \E s \in {0, 1, PRIMARY, SECONDARY} : Inside(a, s)}

(* hal_flash.h:103: no erase or write, accepted, failed or cut short, ever *)
(* changes a half-word of stage-1 or of the key/value store.               *)
Confined == [][\A a \in Protected : flash'[a] = flash[a]]_rawvars

(* flash.c:505: HAL_OK from hal_flash_raw_program means that the whole of  *)
(* the range holds the caller's data, whatever was there before.           *)
ProgramExact ==
  raw_rc = "OK" /\ job.op = "program" =>
    \A off \in 0..(job.len - 1) : off % 2 = 0 => flash[job.addr + off] = job.data[off]

(* flash.c:487: the loop stays in the range it was given and in the part.  *)
LoopInside ==
  Programming => at \in Cells /\ job.addr <= at /\ at < job.addr + job.len

(* flash.c:508: every way out leaves the controller locked.                *)
LockedAfter == raw_rc # "busy" => locked
=============================================================================
