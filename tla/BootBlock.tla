------------------------------ MODULE BootBlock ------------------------------
(***************************************************************************)
(* The boot block of src/common/hal_boot.c: four words of .noinit RAM      *)
(* through which one boot leaves a request and a strike count for the      *)
(* next.  block_seal stores the words one at a time, check last, so the    *)
(* model writes one word per step: an interrupt, a watchdog reset or a     *)
(* power cut can fall between any two stores.                              *)
(*                                                                         *)
(* Context 0 is the thread; contexts 1..Levels are interrupt priorities.   *)
(* A context runs only while every higher one is idle.  Reading the block  *)
(* is one step: a preempting context that writes it never returns, since   *)
(* hal_boot_request_target ends in hal_system_reset, which does not.       *)
(*                                                                         *)
(* The calls made on the block are those of boot/stage1, boot/stage2,      *)
(* boot/common/updater.c and an application, in the order they make them;  *)
(* what decides between them (signatures, frames) is left open here and    *)
(* modelled in BootChain.                                                  *)
(***************************************************************************)
EXTENDS Naturals

CONSTANTS
  WordMax,       \* UINT32_MAX
  WordXor(_, _),     \* C's ^ on words
  MAGIC,         \* HAL_BOOT_MAGIC
  LOADER,        \* HAL_BOOT_REQ_LOADER
  STAGE1,        \* HAL_BOOT_REQ_STAGE1
  SALT,          \* 0xA5A5A5A5
  MAX_ATTEMPTS,  \* HAL_BOOT_MAX_ATTEMPTS
  Levels,        \* interrupt priorities above the thread
  Requesters,    \* contexts from which the application raises a request
  Garbage        \* what RAM may hold after a power cut

NONE == 0                              \* HAL_BOOT_REQ_NONE
Word == 0..WordMax
Ctx  == 0..Levels
Requests == {NONE, LOADER, STAGE1}
Strikes  == 0..MAX_ATTEMPTS

\* magic ^ request ^ attempts ^ salt
BlockCheck(m, r, a) == WordXor(WordXor(WordXor(m, r), a), SALT)

\* mutant: the magic alone is taken for a sealed block
ValidByMagic(b) == b.magic = MAGIC

ValidBlock(b) == /\ b.magic = MAGIC
                 /\ b.check = BlockCheck(b.magic, b.request, b.attempts)

StrikeCap == MAX_ATTEMPTS + 1   \* the history counter stops here, one past the limit

Block == [magic : Word, request : Word, attempts : Word, check : Word]

ASSUME WordAssumption ==
  /\ WordMax \in Nat
  /\ {MAGIC, LOADER, STAGE1, SALT} \subseteq Word
  /\ MAX_ATTEMPTS \in Nat /\ MAX_ATTEMPTS < WordMax
  /\ NONE # LOADER /\ NONE # STAGE1 /\ LOADER # STAGE1
  /\ Levels \in Nat /\ Requesters \subseteq Ctx

ASSUME XorAssumption ==
  \A x, y, z \in Word :
    /\ WordXor(x, y) \in Word
    /\ WordXor(x, y) = WordXor(y, x)
    /\ WordXor(WordXor(x, y), z) = WordXor(x, WordXor(y, z))
    /\ WordXor(x, y) = WordXor(x, z) => y = z

(* A request word never differs from NONE by as little as two strike       *)
(* counts do: 0x10ADED00 and 0x10ADED01 are far above 3.  LOADER and       *)
(* STAGE1 do differ by so little, and the proof may not assume otherwise.  *)
ASSUME SeparationAssumption ==
  \A a, b \in Strikes :
    WordXor(LOADER, a) # WordXor(NONE, b) /\ WordXor(STAGE1, a) # WordXor(NONE, b)

(* Uninitialised RAM is not a sealed block, nor does storing a request or  *)
(* a strike count over part of it make it one.                             *)
ASSUME GarbageAssumption ==
  /\ Garbage \subseteq Block /\ Garbage # {}
  /\ \A g \in Garbage : \A r \in Requests \cup {g.request} :
       \A a \in Strikes \cup {g.attempts} : g.check # BlockCheck(MAGIC, r, a)

VARIABLES
  sboot,     \* _sboot, the block itself
  mode,      \* what the thread is running
  pc,        \* per context: the next store of block_seal, or what follows it
  arg,       \* per context: the values being sealed and what follows
  disabled,  \* s_entry_disabled
  sealed,    \* history: the pair last sealed, or found valid after a reset
  strikes,   \* history: handovers since the count last legitimately cleared
  overlap    \* history: ... and a request has preempted another since

vars == <<sboot, mode, pc, arg, disabled, sealed, strikes, overlap>>

Modes == {"reset", "stage1", "enter2", "stage2", "app", "loader"}
Steps == {"idle", "magic", "request", "attempts", "check", "prepare", "reset"}
Arg   == [request : Word, attempts : Word, then : {"idle", "prepare", "reset"}]
NoArg == [request |-> NONE, attempts |-> 0, then |-> "idle"]

Valid       == ValidBlock(sboot)
GetRequest  == IF Valid THEN sboot.request ELSE NONE
GetAttempts == IF Valid THEN sboot.attempts ELSE 0

Pair        == [request |-> sboot.request, attempts |-> sboot.attempts]

Sealing(c) == pc[c] \in {"magic", "request", "attempts", "check"}
Running(c) == \A d \in Ctx : d > c => pc[d] = "idle"
Free(c)    == Running(c) /\ pc[c] = "idle"

-----------------------------------------------------------------------------
(* block_seal: entered with its arguments, then one store per step.        *)

SealBegin(c, r, a, then) ==
  /\ pc'  = [pc EXCEPT ![c] = "magic"]
  /\ arg' = [arg EXCEPT ![c] = [request |-> r, attempts |-> a, then |-> then]]

StoreMagic(c) ==
  /\ Running(c) /\ pc[c] = "magic"
  /\ sboot' = [sboot EXCEPT !.magic = MAGIC]
  /\ pc' = [pc EXCEPT ![c] = "request"]
  /\ UNCHANGED <<mode, arg, disabled, sealed, strikes, overlap>>

StoreRequest(c) ==
  /\ Running(c) /\ pc[c] = "request"
  /\ sboot' = [sboot EXCEPT !.request = arg[c].request]
  /\ pc' = [pc EXCEPT ![c] = "attempts"]
  /\ UNCHANGED <<mode, arg, disabled, sealed, strikes, overlap>>

StoreAttempts(c) ==
  /\ Running(c) /\ pc[c] = "attempts"
  /\ sboot' = [sboot EXCEPT !.attempts = arg[c].attempts]
  /\ pc' = [pc EXCEPT ![c] = "check"]
  /\ UNCHANGED <<mode, arg, disabled, sealed, strikes, overlap>>

StoreCheck(c) ==
  /\ Running(c) /\ pc[c] = "check"
  /\ sboot' = [sboot EXCEPT !.check = BlockCheck(MAGIC, arg[c].request, arg[c].attempts)]
  /\ sealed' = [request |-> arg[c].request, attempts |-> arg[c].attempts]
  /\ pc' = [pc EXCEPT ![c] = arg[c].then]
  /\ UNCHANGED <<mode, arg, disabled, strikes, overlap>>

(* hal_boot_block_init: seed an invalid block, leave a valid one alone.    *)
BlockInit ==
  \/ Valid /\ UNCHANGED <<pc, arg>>
  \/ ~Valid /\ SealBegin(0, NONE, 0, "idle")

(* hal_boot_clear_request, hal_boot_account_attempt, hal_boot_mark_healthy *)
ClearRequest ==
  \/ Valid /\ SealBegin(0, NONE, sboot.attempts, "idle")
  \/ ~Valid /\ UNCHANGED <<pc, arg>>

AccountAttempt ==
  LET a == sboot.attempts IN
  \/ Valid /\ SealBegin(0, sboot.request, IF a < WordMax THEN a + 1 ELSE a, "idle")
  \/ ~Valid /\ UNCHANGED <<pc, arg>>

MarkHealthy(then) ==
  \/ Valid /\ SealBegin(0, sboot.request, 0, then)
  \/ ~Valid /\ pc' = [pc EXCEPT ![0] = then] /\ UNCHANGED arg

-----------------------------------------------------------------------------
(* The thread's calls, in the order the images make them.                  *)

Stage1Init ==
  /\ Free(0) /\ mode = "reset" /\ mode' = "stage1"
  /\ BlockInit /\ strikes' = IF Valid THEN strikes ELSE 0
  /\ overlap' = (overlap /\ Valid)
  /\ UNCHANGED <<sboot, disabled, sealed>>

Stage1Requested ==
  /\ Free(0) /\ mode = "stage1" /\ GetRequest = STAGE1
  /\ ClearRequest /\ mode' = "loader"
  /\ UNCHANGED <<sboot, disabled, sealed, strikes, overlap>>

\* a crashloop, or a stage-2 that does not verify
Stage1Recovery ==
  /\ Free(0) /\ mode = "stage1" /\ GetRequest # STAGE1
  /\ mode' = "loader"
  /\ UNCHANGED <<sboot, pc, arg, disabled, sealed, strikes, overlap>>

Stage1Jump ==
  /\ Free(0) /\ mode = "stage1" /\ GetRequest # STAGE1
  /\ GetAttempts < MAX_ATTEMPTS
  /\ AccountAttempt /\ mode' = "enter2"
  /\ UNCHANGED <<sboot, disabled, sealed, strikes, overlap>>

Stage2Init ==
  /\ Free(0) /\ mode = "enter2" /\ mode' = "stage2"
  /\ BlockInit /\ strikes' = IF strikes < StrikeCap THEN strikes + 1 ELSE strikes
  /\ UNCHANGED <<sboot, disabled, sealed, overlap>>

Stage2Requested ==
  /\ Free(0) /\ mode = "stage2" /\ GetRequest = LOADER
  /\ ClearRequest /\ mode' = "loader"
  /\ UNCHANGED <<sboot, disabled, sealed, strikes, overlap>>

Stage2Decides ==
  /\ Free(0) /\ mode = "stage2" /\ GetRequest # LOADER
  /\ mode' \in {"app", "loader"}
  /\ UNCHANGED <<sboot, pc, arg, disabled, sealed, strikes, overlap>>

\* RECOVERY_CMD_RUN of either loader
LoaderRun ==
  /\ Free(0) /\ mode = "loader"
  /\ MarkHealthy("reset") /\ strikes' = 0 /\ overlap' = FALSE
  /\ UNCHANGED <<sboot, mode, disabled, sealed>>

AppHealthy ==
  /\ Free(0) /\ mode = "app"
  /\ MarkHealthy("idle") /\ strikes' = 0 /\ overlap' = FALSE
  /\ UNCHANGED <<sboot, mode, disabled, sealed>>

EntryPolicy ==
  /\ Free(0) /\ mode = "app"
  /\ disabled' \in BOOLEAN
  /\ UNCHANGED <<sboot, mode, pc, arg, sealed, strikes, overlap>>

Preempts(c) == \E d \in Ctx : d < c /\ Sealing(d) /\ arg[d].then = "prepare"

\* mutant: a requested reset starts the strike count over
RequestForgets(c, r) ==
  /\ Free(c) /\ mode = "app" /\ c \in Requesters /\ ~disabled
  /\ SealBegin(c, r, 0, "prepare") /\ overlap' = (overlap \/ Preempts(c))
  /\ UNCHANGED <<sboot, mode, disabled, sealed, strikes>>

(* hal_boot_request_target.  A console, in whatever context its bytes are  *)
(* matched, raises LOADER; only thread code may name STAGE1.               *)
RequestTarget(c, r) ==
  /\ Free(c) /\ mode = "app" /\ c \in Requesters
  /\ ~disabled
  /\ SealBegin(c, r, GetAttempts, "prepare") /\ overlap' = (overlap \/ Preempts(c))
  /\ UNCHANGED <<sboot, mode, disabled, sealed, strikes>>

Prepare(c) ==
  /\ Running(c) /\ pc[c] = "prepare"
  /\ pc' = [pc EXCEPT ![c] = "reset"]
  /\ UNCHANGED <<sboot, mode, arg, disabled, sealed, strikes, overlap>>

-----------------------------------------------------------------------------
(* Resets.  A warm one keeps the block as the stores left it.              *)

Restart ==
  /\ mode' = "reset" /\ disabled' = FALSE
  /\ pc' = [c \in Ctx |-> "idle"] /\ arg' = [c \in Ctx |-> NoArg]

Warm ==
  /\ Restart
  /\ sealed' = IF Valid THEN Pair ELSE sealed
  /\ UNCHANGED <<sboot, strikes, overlap>>

SystemReset(c) == Running(c) /\ pc[c] = "reset" /\ Warm

WatchdogReset == Warm

PowerLoss ==
  /\ Restart /\ sboot' \in Garbage
  /\ UNCHANGED <<sealed, strikes, overlap>>

-----------------------------------------------------------------------------
Init ==
  /\ sboot \in Garbage /\ mode = "reset" /\ disabled = FALSE
  /\ pc = [c \in Ctx |-> "idle"] /\ arg = [c \in Ctx |-> NoArg]
  /\ sealed = [request |-> NONE, attempts |-> 0] /\ strikes = 0 /\ overlap = FALSE

Store(c) == StoreMagic(c) \/ StoreRequest(c) \/ StoreAttempts(c) \/ StoreCheck(c)

Thread ==
  \/ Stage1Init \/ Stage1Requested \/ Stage1Recovery \/ Stage1Jump
  \/ Stage2Init \/ Stage2Requested \/ Stage2Decides
  \/ LoaderRun \/ AppHealthy \/ EntryPolicy \/ RequestTarget(0, STAGE1)

Next ==
  \/ Thread
  \/ \E c \in Ctx : RequestTarget(c, LOADER) \/ Prepare(c) \/ SystemReset(c) \/ Store(c)
  \/ WatchdogReset \/ PowerLoss

Spec == Init /\ [][Next]_vars

-----------------------------------------------------------------------------
TypeOK ==
  /\ sboot \in Block
  /\ mode \in Modes
  /\ pc \in [Ctx -> Steps]
  /\ arg \in [Ctx -> Arg]
  /\ disabled \in BOOLEAN
  /\ sealed \in [request : Word, attempts : Word]
  /\ strikes \in 0..StrikeCap
  /\ overlap \in BOOLEAN

Target(c) == [request |-> arg[c].request, attempts |-> arg[c].attempts]

(* hal_boot.c:68: a reset or power cut part-way through block_seal leaves  *)
(* a block that fails validation, or one that reads exactly as a seal      *)
(* meant it to: the last one completed or one under way, in any nesting.   *)
SealAtomic == Valid => Pair = sealed \/ \E c \in Ctx : Sealing(c) /\ Pair = Target(c)

(* hal_boot.c:179: the strike count carries across a requested reset, and  *)
(* only hal_boot_mark_healthy (or a lost block) clears it, so stage-1      *)
(* never hands over more than MAX_ATTEMPTS times without one, provided no  *)
(* request was raised while another was being sealed.                      *)
StrikesBounded == overlap \/ strikes <= MAX_ATTEMPTS

-----------------------------------------------------------------------------
(* The inductive invariant behind SealAtomic.                              *)

\* RAM nobody has sealed since the power came up
Raw == \A r \in Requests \cup {sboot.request} :
         \A a \in Strikes \cup {sboot.attempts} : sboot.check # BlockCheck(MAGIC, r, a)

\* otherwise the check word is that of the last pair sealed
Known ==
  /\ sboot.magic = MAGIC /\ sboot.request \in Requests /\ sboot.attempts \in Strikes
  /\ sboot.check = BlockCheck(MAGIC, sealed.request, sealed.attempts)

\* only the thread's seals return to their caller
SealArgs == \A c \in Ctx :
  /\ arg[c].request \in Requests /\ arg[c].attempts \in Strikes
  /\ c > 0 /\ pc[c] # "idle" =>
       mode = "app" /\ arg[c].request = LOADER /\ arg[c].then = "prepare"

\* outside the application a seal never names a request the block does not hold
ThreadArgs ==
  /\ mode # "app" /\ Sealing(0) =>
       arg[0].request = NONE \/ arg[0].request = sealed.request
  /\ Raw => mode = "reset" \/ Sealing(0)
  /\ mode = "reset" => pc[0] = "idle"
  /\ mode = "app" /\ Sealing(0) => arg[0].then # "idle" \/ arg[0].request = NONE

Stored == \A c \in Ctx : Running(c) =>
  /\ pc[c] \in {"request", "attempts", "check"} => sboot.magic = MAGIC
  /\ pc[c] = "attempts" => sboot.request = arg[c].request
  /\ pc[c] = "check" => Pair = Target(c)

\* between calls the block is sealed, and it names no request the stage has passed
Settled == (mode # "reset" /\ \A c \in Ctx : ~Sealing(c)) => Known /\ Pair = sealed

Routed ==
  /\ mode \in {"enter2", "stage2"} => sealed.request # STAGE1 /\ arg[0].request # STAGE1
  /\ mode = "app" => sealed.request = NONE \/ \E c \in Ctx : pc[c] \in {"prepare", "reset"}

\* STAGE1 sealed by the thread, then LOADER written over it by an interrupt
Overwritten == mode = "app" /\ sealed.request = STAGE1 =>
  \/ sboot.attempts = sealed.attempts
  \/ \E d \in Ctx : d > 0 /\ pc[d] = "check" /\ arg[d].attempts = sboot.attempts

SealInv ==
  /\ TypeOK /\ (Raw \/ Known)
  /\ sealed.request \in Requests /\ sealed.attempts \in Strikes
  /\ SealArgs /\ ThreadArgs /\ Stored /\ Settled /\ Routed /\ Overwritten /\ SealAtomic
=============================================================================
