--------------------------- MODULE BootBlockProofs ---------------------------
(***************************************************************************)
(* Proofs about BootBlock, for every word width, every nesting depth of    *)
(* interrupts and every set of contexts that raise requests; and about the *)
(* sequence watcher BootMatch, for every sequence of distinct bytes.       *)
(***************************************************************************)
EXTENDS BootBlock, BootMatch, TLAPS

-----------------------------------------------------------------------------
(* The check word.                                                         *)

(* Two pairs with the same block_check have the same request ^ attempts:   *)
(* the magic and the salt cancel.                                          *)
LEMMA CheckCancels ==
  ASSUME NEW r \in Word, NEW a \in Word, NEW s \in Word, NEW b \in Word,
         BlockCheck(MAGIC, r, a) = BlockCheck(MAGIC, s, b)
  PROVE  WordXor(r, a) = WordXor(s, b)
<1>1. MAGIC \in Word /\ SALT \in Word
  BY WordAssumption
<1>2. \A x, y \in Word : WordXor(x, y) \in Word
  BY XorAssumption
<1>3. WordXor(SALT, WordXor(MAGIC, WordXor(r, a))) = WordXor(SALT, WordXor(MAGIC, WordXor(s, b)))
  <2>1. BlockCheck(MAGIC, r, a) = WordXor(SALT, WordXor(MAGIC, WordXor(r, a)))
    BY <1>1, <1>2, XorAssumption DEF BlockCheck
  <2>2. BlockCheck(MAGIC, s, b) = WordXor(SALT, WordXor(MAGIC, WordXor(s, b)))
    BY <1>1, <1>2, XorAssumption DEF BlockCheck
  <2>. QED  BY <2>1, <2>2
<1>4. WordXor(MAGIC, WordXor(r, a)) = WordXor(MAGIC, WordXor(s, b))
  BY <1>1, <1>2, <1>3, XorAssumption
<1>. QED  BY <1>1, <1>2, <1>4, XorAssumption

(* A strike count and each request fit in a word.                          *)
LEMMA Words ==
  /\ Strikes \subseteq Word /\ Requests \subseteq Word /\ 0 \in Strikes
  /\ NONE \in Requests /\ LOADER \in Requests /\ STAGE1 \in Requests
  /\ 0 \in Ctx /\ Strikes \subseteq Nat
BY WordAssumption DEF Strikes, Requests, Word, NONE, Ctx

(* The check word tells two sealed pairs apart, unless one of them asks    *)
(* for LOADER and the other for STAGE1: those two words differ in one bit, *)
(* as two strike counts may.                                               *)
LEMMA CheckSeparates ==
  ASSUME NEW r \in Requests, NEW a \in Strikes, NEW s \in Requests, NEW b \in Strikes,
         BlockCheck(MAGIC, r, a) = BlockCheck(MAGIC, s, b)
  PROVE  \/ r = s /\ a = b
         \/ r # s /\ r # NONE /\ s # NONE
<1>1. WordXor(r, a) = WordXor(s, b)
  BY CheckCancels, Words
<1>2. CASE r = s
  BY <1>1, <1>2, XorAssumption, Words
<1>3. CASE r # s
  BY <1>1, <1>3, SeparationAssumption DEF Requests
<1>. QED  BY <1>2, <1>3

-----------------------------------------------------------------------------
(* Type correctness.                                                       *)

(* The variables of hal_boot.c stay in their types: words stay words, a    *)
(* seal under way names one of the three requests.                         *)
LEMMA TypeStep == TypeOK /\ [Next]_vars => TypeOK'
<1> SUFFICES ASSUME TypeOK, [Next]_vars PROVE TypeOK'
  OBVIOUS
<1> USE Words, WordAssumption DEF TypeOK, Block, Arg, Steps, Modes
<1>1. \A x, y \in Word : WordXor(x, y) \in Word
  BY XorAssumption
<1>2. 0 \in Word /\ MAGIC \in Word /\ StrikeCap \in Nat /\ 0 \in 0..StrikeCap
  BY DEF Word, StrikeCap
<1>3. ASSUME NEW c \in Ctx, NEW r \in Word, NEW a \in Word,
             NEW t \in {"idle", "prepare", "reset"}, SealBegin(c, r, a, t)
      PROVE  pc' \in [Ctx -> Steps] /\ arg' \in [Ctx -> Arg]
  BY <1>3 DEF SealBegin
<1>4. sboot.request \in Word /\ sboot.attempts \in Word
  OBVIOUS
<1>5. NONE \in Word /\ LOADER \in Word /\ STAGE1 \in Word
  OBVIOUS
<1>6. BlockInit => pc' \in [Ctx -> Steps] /\ arg' \in [Ctx -> Arg]
  BY <1>2, <1>3, <1>5 DEF BlockInit
<1>7. ClearRequest => pc' \in [Ctx -> Steps] /\ arg' \in [Ctx -> Arg]
  BY <1>3, <1>4, <1>5 DEF ClearRequest
<1>8. AccountAttempt => pc' \in [Ctx -> Steps] /\ arg' \in [Ctx -> Arg]
  <2>1. (IF sboot.attempts < WordMax THEN sboot.attempts + 1 ELSE sboot.attempts) \in Word
    BY <1>4 DEF Word
  <2>. QED  BY <1>3, <1>4, <2>1 DEF AccountAttempt
<1>9. ASSUME NEW t \in {"idle", "reset"}, MarkHealthy(t)
      PROVE  pc' \in [Ctx -> Steps] /\ arg' \in [Ctx -> Arg]
  <2>1. CASE Valid /\ SealBegin(0, sboot.request, 0, t)
    BY <2>1, <1>2, <1>4 DEF SealBegin
  <2>2. CASE ~Valid /\ pc' = [pc EXCEPT ![0] = t] /\ UNCHANGED arg
    BY <2>2
  <2>. QED  BY <1>9, <2>1, <2>2 DEF MarkHealthy
<1>10. ASSUME Thread PROVE TypeOK'
  <2>1. CASE Stage1Init
    BY <2>1, <1>2, <1>6 DEF Stage1Init
  <2>2. CASE Stage1Requested
    BY <2>2, <1>7 DEF Stage1Requested
  <2>3. CASE Stage1Recovery
    BY <2>3 DEF Stage1Recovery
  <2>4. CASE Stage1Jump
    BY <2>4, <1>8 DEF Stage1Jump
  <2>5. CASE Stage2Init
    BY <2>5, <1>2, <1>6 DEF Stage2Init, StrikeCap
  <2>6. CASE Stage2Requested
    BY <2>6, <1>7 DEF Stage2Requested
  <2>7. CASE Stage2Decides
    BY <2>7 DEF Stage2Decides
  <2>8. CASE LoaderRun
    BY <2>8, <1>2, <1>9 DEF LoaderRun
  <2>9. CASE AppHealthy
    BY <2>9, <1>2, <1>9 DEF AppHealthy
  <2>10. CASE EntryPolicy
    BY <2>10 DEF EntryPolicy
  <2>11. CASE RequestTarget(0, STAGE1)
    BY <2>11, <1>2, <1>3, <1>4, <1>5 DEF RequestTarget, GetAttempts
  <2>. QED
    BY <1>10, <2>1, <2>2, <2>3, <2>4, <2>5, <2>6, <2>7, <2>8, <2>9, <2>10, <2>11 DEF Thread
<1>11. ASSUME NEW c \in Ctx, RequestTarget(c, LOADER) PROVE TypeOK'
  BY <1>11, <1>2, <1>3, <1>4, <1>5 DEF RequestTarget, GetAttempts
<1>12. ASSUME NEW c \in Ctx, Prepare(c) PROVE TypeOK'
  BY <1>12 DEF Prepare
<1>13. Restart => /\ mode' \in Modes /\ disabled' \in BOOLEAN
                  /\ pc' \in [Ctx -> Steps] /\ arg' \in [Ctx -> Arg]
  <2>1. NoArg \in Arg
    BY <1>2, <1>5 DEF NoArg
  <2>2. Restart => disabled' \in BOOLEAN
    BY Zenon DEF Restart
  <2>. QED  BY <2>1, <2>2 DEF Restart
<1>14. Warm => TypeOK'
  BY <1>13 DEF Warm, Pair
<1>15. PowerLoss => TypeOK'
  BY <1>13, GarbageAssumption DEF PowerLoss
<1>16. ASSUME NEW c \in Ctx, Store(c) PROVE TypeOK'
  <2>1. CASE StoreMagic(c)
    BY <2>1 DEF StoreMagic
  <2>2. CASE StoreRequest(c)
    BY <2>2 DEF StoreRequest
  <2>3. CASE StoreAttempts(c)
    BY <2>3 DEF StoreAttempts
  <2>4. CASE StoreCheck(c)
    <3>1. BlockCheck(MAGIC, arg[c].request, arg[c].attempts) \in Word
      BY <1>1 DEF BlockCheck
    <3>. QED  BY <2>4, <3>1 DEF StoreCheck
  <2>. QED  BY <1>16, <2>1, <2>2, <2>3, <2>4 DEF Store
<1>17. CASE UNCHANGED vars
  BY <1>17 DEF vars
<1>. QED
  BY <1>10, <1>11, <1>12, <1>14, <1>15, <1>16, <1>17 DEF Next, SystemReset, WatchdogReset

(* TypeOK holds in every state the boot block can reach, whatever the word *)
(* width and however deep interrupts nest.                                 *)
THEOREM TypeCorrect == Spec => []TypeOK
<1>1. NoArg \in Arg /\ [request |-> NONE, attempts |-> 0] \in [request : Word, attempts : Word]
  BY Words DEF NoArg, Arg
<1>2. 0 \in 0..StrikeCap
  BY WordAssumption DEF StrikeCap
<1>3. Init => TypeOK
  BY <1>1, <1>2, GarbageAssumption DEF Init, TypeOK, Modes, Steps
<1>. QED  BY <1>3, TypeStep, PTL DEF Spec

-----------------------------------------------------------------------------
(* The block between two stores.  SealInv says where the check word came   *)
(* from, what each context has stored so far and which requests can still  *)
(* be in the block; SealAtomic alone says none of that.                    *)

(* A valid block has been sealed: raw RAM does not validate.               *)
LEMMA ValidIsKnown ==
  ASSUME SealInv, Valid
  PROVE  Known /\ ~Raw
BY DEF SealInv, Valid, ValidBlock, Raw

(* While the thread runs between calls no seal is under way, and a block   *)
(* that validates is the last one sealed.  Past stage-1's block_init it    *)
(* does validate.                                                          *)
LEMMA ThreadQuiet ==
  ASSUME SealInv, Free(0)
  PROVE  /\ \A c \in Ctx : pc[c] = "idle" /\ ~Sealing(c)
         /\ Valid => Known /\ Pair = sealed
         /\ mode # "reset" => Valid
<1>1. \A c \in Ctx : pc[c] = "idle"
  BY WordAssumption DEF Free, Running, Ctx
<1>2. \A c \in Ctx : ~Sealing(c)
  BY <1>1 DEF Sealing
<1>3. Valid => Known /\ Pair = sealed
  BY <1>2, ValidIsKnown DEF SealInv, SealAtomic
<1>4. mode # "reset" => Valid
  BY <1>2 DEF SealInv, Settled, Known, Valid, ValidBlock, Pair
<1>. QED  BY <1>1, <1>2, <1>3, <1>4

(* Whatever the thread does between calls that only moves it to another    *)
(* mode keeps the invariant.                                               *)
LEMMA ThreadKeeps ==
  ASSUME SealInv, TypeOK', Free(0), Valid, UNCHANGED <<sboot, pc, arg, sealed>>,
         mode' # "reset",
         mode' = "app" => sealed.request = NONE,
         mode' \in {"enter2", "stage2"} => sealed.request # STAGE1 /\ arg[0].request # STAGE1
  PROVE  SealInv'
<1>1. \A c \in Ctx : pc[c] = "idle" /\ ~Sealing(c) /\ pc'[c] = "idle" /\ ~Sealing(c)'
  BY ThreadQuiet DEF Sealing
<1>2. Known /\ ~Raw /\ Pair = sealed
  BY ThreadQuiet, ValidIsKnown
<1>3. Known' /\ ~Raw' /\ Pair' = sealed'
  BY <1>2 DEF Known, Raw, Pair
<1>4. SealArgs' /\ ThreadArgs' /\ Stored'
  BY <1>1, <1>3, Words DEF SealInv, SealArgs, ThreadArgs, Stored
<1>5. Settled' /\ Routed' /\ Overwritten' /\ SealAtomic'
  BY <1>3, WordAssumption DEF Settled, Routed, Overwritten, SealAtomic
<1>. QED  BY <1>3, <1>4, <1>5 DEF SealInv

(* Nor does entering block_seal from the thread break it.                  *)
LEMMA ThreadSeals ==
  ASSUME SealInv, TypeOK', Free(0), UNCHANGED <<sboot, sealed>>, mode' # "reset",
         NEW r \in Requests, NEW a \in Strikes, NEW t \in {"idle", "prepare", "reset"},
         SealBegin(0, r, a, t),
         mode' # "app" => r = NONE \/ r = sealed.request,
         mode' = "app" => sealed.request = NONE /\ (t # "idle" \/ r = NONE),
         mode' \in {"enter2", "stage2"} => sealed.request # STAGE1 /\ r # STAGE1
  PROVE  SealInv'
<1>1. /\ \A c \in Ctx : c # 0 => pc'[c] = "idle" /\ arg'[c] = arg[c]
      /\ pc'[0] = "magic" /\ arg'[0] = [request |-> r, attempts |-> a, then |-> t]
  BY ThreadQuiet, Words DEF SealBegin, SealInv, TypeOK
<1>2. Sealing(0)'
  BY <1>1 DEF Sealing
<1>3. Raw' = Raw /\ Known' = Known /\ Valid' = Valid /\ Pair' = Pair
  BY DEF Raw, Known, Valid, ValidBlock, Pair
<1>4. SealArgs'
  BY <1>1 DEF SealInv, SealArgs, Ctx
<1>5. ThreadArgs'
  BY <1>1, <1>2 DEF ThreadArgs
<1>6. Stored'
  BY <1>1 DEF Stored
<1>7. Settled' /\ Overwritten'
  BY <1>2, Words, WordAssumption DEF Settled, Overwritten
<1>8. Routed'
  BY <1>1 DEF Routed
<1>9. SealAtomic'
  BY <1>3, ThreadQuiet DEF SealAtomic
<1>. QED  BY <1>3, <1>4, <1>5, <1>6, <1>7, <1>8, <1>9 DEF SealInv

(* The calls of stage-1, stage-2, the loaders and the application.         *)
LEMMA ThreadStep ==
  ASSUME SealInv, TypeOK', Thread
  PROVE  SealInv'
<1> USE Words
<1>1. Free(0)
  BY DEF Thread, Stage1Init, Stage1Requested, Stage1Recovery, Stage1Jump, Stage2Init,
         Stage2Requested, Stage2Decides, LoaderRun, AppHealthy, EntryPolicy, RequestTarget
<1>2. /\ mode # "reset" => Valid
      /\ Valid => Known /\ Pair = sealed
      /\ \A c \in Ctx : pc[c] = "idle"
  BY <1>1, ThreadQuiet
<1>3. mode # "reset" => sboot.request = sealed.request /\ sboot.attempts = sealed.attempts
  BY <1>2 DEF Pair
<1>4. mode = "app" => sealed.request = NONE
  BY <1>2 DEF SealInv, Routed
<1>5. sealed.request \in Requests /\ sealed.attempts \in Strikes
  BY DEF SealInv
<1>6. CASE Stage1Init
  <2>1. CASE Valid
    BY <1>1, <1>6, <2>1, ThreadKeeps DEF Stage1Init, BlockInit
  <2>2. CASE ~Valid
    BY <1>1, <1>6, <2>2, ThreadSeals DEF Stage1Init, BlockInit
  <2>. QED  BY <2>1, <2>2
<1>7. CASE Stage1Requested
  BY <1>1, <1>2, <1>3, <1>5, <1>7, ThreadSeals DEF Stage1Requested, ClearRequest
<1>8. CASE Stage1Recovery
  BY <1>1, <1>2, <1>8, ThreadKeeps DEF Stage1Recovery
<1>9. CASE Stage1Jump
  <2>1. sealed.attempts < MAX_ATTEMPTS /\ sealed.request # STAGE1
    BY <1>2, <1>3, <1>9 DEF Stage1Jump, GetAttempts, GetRequest
  <2>2. sealed.attempts + 1 \in Strikes /\ sealed.attempts < WordMax
    BY <1>5, <2>1, WordAssumption DEF Strikes
  <2>3. SealBegin(0, sealed.request, sealed.attempts + 1, "idle")
    BY <1>2, <1>3, <1>9, <2>2 DEF Stage1Jump, AccountAttempt
  <2>. QED  BY <1>1, <1>5, <1>9, <2>1, <2>2, <2>3, ThreadSeals DEF Stage1Jump
<1>10. CASE Stage2Init
  BY <1>1, <1>2, <1>10, ThreadKeeps DEF Stage2Init, BlockInit, SealInv, Routed
<1>11. CASE Stage2Requested
  BY <1>1, <1>2, <1>3, <1>5, <1>11, ThreadSeals DEF Stage2Requested, ClearRequest
<1>12. CASE Stage2Decides
  <2>1. sealed.request = NONE
    BY <1>2, <1>3, <1>5, <1>12 DEF Stage2Decides, GetRequest, SealInv, Routed, Requests
  <2>. QED  BY <1>1, <1>2, <1>12, <2>1, ThreadKeeps DEF Stage2Decides
<1>13. CASE LoaderRun
  <2>1. SealBegin(0, sealed.request, 0, "reset")
    BY <1>2, <1>3, <1>13 DEF LoaderRun, MarkHealthy
  <2>. QED  BY <1>1, <1>5, <1>13, <2>1, ThreadSeals DEF LoaderRun
<1>14. CASE AppHealthy
  <2>1. SealBegin(0, NONE, 0, "idle")
    BY <1>2, <1>3, <1>4, <1>14 DEF AppHealthy, MarkHealthy
  <2>. QED  BY <1>1, <1>4, <1>14, <2>1, ThreadSeals DEF AppHealthy
<1>15. CASE EntryPolicy
  BY <1>1, <1>2, <1>4, <1>15, ThreadKeeps DEF EntryPolicy
<1>16. CASE RequestTarget(0, STAGE1)
  <2>1. SealBegin(0, STAGE1, sealed.attempts, "prepare")
    BY <1>2, <1>3, <1>16 DEF RequestTarget, GetAttempts
  <2>. QED  BY <1>1, <1>4, <1>5, <1>16, <2>1, ThreadSeals DEF RequestTarget
<1>. QED
  BY <1>6, <1>7, <1>8, <1>9, <1>10, <1>11, <1>12, <1>13, <1>14, <1>15, <1>16 DEF Thread

(* hal_boot_request from an interrupt, whatever it has preempted.          *)
LEMMA RequestStep ==
  ASSUME SealInv, TypeOK', NEW c \in Ctx, RequestTarget(c, LOADER)
  PROVE  SealInv'
<1> USE Words DEF RequestTarget
<1>1. GetAttempts \in Strikes
  BY ValidIsKnown DEF GetAttempts, Known
<1>2. CASE c = 0
  <2>1. Free(0) /\ sealed.request = NONE
    BY <1>2, ThreadQuiet DEF SealInv, Routed
  <2>. QED  BY <1>1, <1>2, <2>1, ThreadSeals
<1>3. CASE c # 0
  <2>1. /\ \A d \in Ctx : d # c => pc'[d] = pc[d] /\ arg'[d] = arg[d]
        /\ pc[c] = "idle" /\ pc'[c] = "magic" /\ c > 0
        /\ arg'[c] = [request |-> LOADER, attempts |-> GetAttempts, then |-> "prepare"]
    BY <1>3 DEF SealBegin, SealInv, TypeOK, Free, Ctx
  <2>2. Raw' = Raw /\ Known' = Known /\ Valid' = Valid /\ Pair' = Pair
    BY DEF Raw, Known, Valid, ValidBlock, Pair
  <2>3. \A d \in Ctx : Sealing(d) => d # c /\ Sealing(d)' /\ Target(d)' = Target(d)
    BY <2>1 DEF Sealing, Target
  <2>4. SealArgs'
    BY <1>1, <2>1 DEF SealInv, SealArgs
  <2>5. ThreadArgs'
    BY <1>3, <2>1, <2>2 DEF SealInv, ThreadArgs, Sealing
  <2>6. Stored'
    <3> SUFFICES ASSUME NEW d \in Ctx, Running(d)'
                 PROVE  /\ pc'[d] \in {"request", "attempts", "check"} => sboot'.magic = MAGIC
                        /\ pc'[d] = "attempts" => sboot'.request = arg'[d].request
                        /\ pc'[d] = "check" => Pair' = Target(d)'
      BY DEF Stored
    <3>1. d >= c
      BY <2>1 DEF Running, Ctx
    <3>2. d # c => pc'[d] = "idle"
      BY <2>1, <3>1 DEF Free, Running, Ctx
    <3>. QED  BY <2>1, <3>2
  <2>7. Settled'
    BY <2>1 DEF Settled, Sealing
  <2>8. Routed' /\ Overwritten'
    BY <1>3, <2>1, <2>2 DEF SealInv, Routed, Overwritten
  <2>9. SealAtomic'
    BY <2>2, <2>3 DEF SealInv, SealAtomic
  <2>. QED  BY <2>2, <2>4, <2>5, <2>6, <2>7, <2>8, <2>9 DEF SealInv
<1>. QED  BY <1>2, <1>3

(* A context that stores runs with every higher one idle, and any request  *)
(* already sealed was sealed by a lower one.                               *)
LEMMA Storing ==
  ASSUME SealInv, NEW c \in Ctx, Running(c), Sealing(c)
  PROVE  /\ \A d \in Ctx : d > c => pc[d] = "idle"
         /\ pc[c] \notin {"idle", "prepare", "reset"} /\ mode # "reset"
         /\ c > 0 => mode = "app" /\ arg[c].request = LOADER
         /\ c = 0 /\ mode = "app" => sealed.request = NONE
         /\ arg[c].request \in Requests /\ arg[c].attempts \in Strikes
<1>1. \A d \in Ctx : d > c => pc[d] = "idle"
  BY DEF Running
<1>2. pc[c] \notin {"idle", "prepare", "reset"}
  BY DEF Sealing
<1>3. c > 0 => mode = "app" /\ arg[c].request = LOADER
  BY <1>2 DEF SealInv, SealArgs
<1>4. mode # "reset"
  BY <1>2, <1>3 DEF SealInv, ThreadArgs, Ctx
<1>5. c = 0 /\ mode = "app" => sealed.request = NONE
  BY <1>1, <1>2 DEF SealInv, Routed, Ctx
<1>. QED  BY <1>1, <1>2, <1>3, <1>4, <1>5 DEF SealInv, SealArgs

(* _sboot.magic = HAL_BOOT_MAGIC                                           *)
LEMMA StoreMagicStep ==
  ASSUME SealInv, TypeOK', NEW c \in Ctx, StoreMagic(c)
  PROVE  SealInv'
<1> USE Words DEF StoreMagic
<1>0. Sealing(c)
  BY DEF Sealing
<1>1. /\ \A d \in Ctx : d # c => pc'[d] = pc[d]
      /\ pc'[c] = "request" /\ arg' = arg
      /\ sboot'.magic = MAGIC /\ sboot'.request = sboot.request
      /\ sboot'.attempts = sboot.attempts /\ sboot'.check = sboot.check
  BY DEF SealInv, TypeOK, Block
<1>2. \A d \in Ctx : Sealing(d)' = Sealing(d) /\ Target(d)' = Target(d)
  BY <1>1, <1>0 DEF Sealing, Target
<1>3. Raw' = Raw /\ Pair' = Pair /\ (Known => Known')
  BY <1>1 DEF Raw, Known, Pair
<1>4. Valid' => Valid /\ ~Raw
  <2>1. Raw => ~Valid'
    BY <1>1 DEF Raw, Valid, ValidBlock
  <2>2. Known => Valid' = Valid
    BY <1>1 DEF Known, Valid, ValidBlock
  <2>. QED  BY <2>1, <2>2 DEF SealInv
<1>5. SealArgs'
  BY <1>1, Storing, <1>0 DEF SealInv, SealArgs
<1>6. ThreadArgs'
  BY <1>1, <1>2, <1>3, Storing, <1>0 DEF SealInv, ThreadArgs
<1>7. Stored'
  BY <1>1, <1>3, <1>2, Storing, <1>0 DEF SealInv, Stored, Running, Ctx
<1>8. Settled'
  BY <1>0, <1>2 DEF Settled
<1>9. Routed' /\ Overwritten'
  BY <1>1, Storing, <1>0 DEF SealInv, Routed, Overwritten
<1>10. SealAtomic'
  BY <1>2, <1>3, <1>4 DEF SealInv, SealAtomic
<1>. QED  BY <1>3, <1>5, <1>6, <1>7, <1>8, <1>9, <1>10 DEF SealInv

(* _sboot.request = request: the block now holds the new request with the  *)
(* old count under the old check, the one mixture that could validate.     *)
LEMMA StoreRequestStep ==
  ASSUME SealInv, TypeOK', NEW c \in Ctx, StoreRequest(c)
  PROVE  SealInv'
<1> USE Words DEF StoreRequest
<1>0. Sealing(c)
  BY DEF Sealing
<1>1. /\ \A d \in Ctx : d # c => pc'[d] = pc[d]
      /\ pc'[c] = "attempts" /\ arg' = arg /\ sealed' = sealed
      /\ sboot'.magic = sboot.magic /\ sboot'.request = arg[c].request
      /\ sboot'.attempts = sboot.attempts /\ sboot'.check = sboot.check
  BY DEF SealInv, TypeOK, Block
<1>2. \A d \in Ctx : Sealing(d)' = Sealing(d) /\ Target(d)' = Target(d)
  BY <1>1, <1>0 DEF Sealing, Target
<1>3. (Raw => Raw') /\ (Known => Known')
  BY <1>0, <1>1, Storing DEF Raw, Known
<1>4. Known => ~Raw'
  BY <1>1, Storing, <1>0 DEF SealInv, Known, Raw
<1>5. SealArgs'
  BY <1>1, Storing, <1>0 DEF SealInv, SealArgs
<1>6. ThreadArgs'
  BY <1>1, <1>2, <1>3, <1>4, Storing, <1>0 DEF SealInv, ThreadArgs
<1>7. Stored'
  BY <1>1, <1>2, Storing, <1>0 DEF SealInv, Stored, Running, Ctx
<1>8. Settled'
  BY <1>0, <1>2 DEF Settled
<1>9. Routed' /\ Overwritten'
  BY <1>1, Storing, <1>0 DEF SealInv, Routed, Overwritten
<1>10. SealAtomic'
  <2> SUFFICES ASSUME Valid' PROVE Pair' = sealed \/ \E d \in Ctx : Sealing(d) /\ Pair' = Target(d)
    BY <1>1, <1>2 DEF SealAtomic
  <2>1. Known
    BY <1>3 DEF SealInv, Valid, ValidBlock, Raw
  <2>2. BlockCheck(MAGIC, arg[c].request, sboot.attempts)
          = BlockCheck(MAGIC, sealed.request, sealed.attempts)
    BY <1>1, <2>1 DEF Valid, ValidBlock, Known
  <2>3. \/ arg[c].request = sealed.request /\ sboot.attempts = sealed.attempts
        \/ /\ arg[c].request # sealed.request
           /\ arg[c].request # NONE /\ sealed.request # NONE
    BY <1>0, <2>1, <2>2, Storing, CheckSeparates DEF SealInv, Known
  <2>4. CASE arg[c].request = sealed.request /\ sboot.attempts = sealed.attempts
    BY <1>1, <2>4 DEF Pair, SealInv, TypeOK
  <2>5. CASE arg[c].request # sealed.request /\ arg[c].request # NONE /\ sealed.request # NONE
    <3>1. c > 0 /\ mode = "app" /\ arg[c].request = LOADER /\ sealed.request = STAGE1
      <4>1. c # 0
        BY <1>0, <2>5, Storing DEF SealInv, ThreadArgs
      <4>. QED  BY <1>0, <2>5, <4>1, Storing DEF SealInv, Requests, Ctx
    <3>2. sboot.attempts # sealed.attempts
      BY <2>1, <2>2, <2>5, <3>1, CheckCancels, XorAssumption DEF SealInv, Known
    <3>3. PICK d \in Ctx : d > 0 /\ pc[d] = "check" /\ arg[d].attempts = sboot.attempts
      BY <3>1, <3>2 DEF SealInv, Overwritten
    <3>4. Sealing(d) /\ arg[d].request = LOADER
      BY <3>3 DEF Sealing, SealInv, SealArgs
    <3>. QED  BY <1>1, <3>1, <3>3, <3>4 DEF Pair, Target
  <2>. QED  BY <2>3, <2>4, <2>5
<1>. QED  BY <1>1, <1>3, <1>5, <1>6, <1>7, <1>8, <1>9, <1>10 DEF SealInv

(* _sboot.attempts = attempts: the block holds the new pair under the old  *)
(* check, so if it validates it reads as what is being sealed.             *)
LEMMA StoreAttemptsStep ==
  ASSUME SealInv, TypeOK', NEW c \in Ctx, StoreAttempts(c)
  PROVE  SealInv'
<1> USE Words DEF StoreAttempts
<1>0. Sealing(c)
  BY DEF Sealing
<1>1. /\ \A d \in Ctx : d # c => pc'[d] = pc[d]
      /\ pc'[c] = "check" /\ arg' = arg /\ sealed' = sealed
      /\ sboot'.magic = sboot.magic /\ sboot'.request = sboot.request
      /\ sboot'.attempts = arg[c].attempts /\ sboot'.check = sboot.check
  BY DEF SealInv, TypeOK, Block
<1>2. \A d \in Ctx : Sealing(d)' = Sealing(d) /\ Target(d)' = Target(d)
  BY <1>1, <1>0 DEF Sealing, Target
<1>3. (Raw => Raw') /\ (Known => Known')
  BY <1>0, <1>1, Storing DEF Raw, Known
<1>4. Known => ~Raw'
  BY <1>1, Storing, <1>0 DEF SealInv, Known, Raw
<1>5. Pair' = Target(c)
  BY <1>1 DEF SealInv, Stored, Pair, Target
<1>6. SealArgs'
  BY <1>1, Storing, <1>0 DEF SealInv, SealArgs
<1>7. ThreadArgs'
  BY <1>1, <1>2, <1>3, <1>4, Storing, <1>0 DEF SealInv, ThreadArgs
<1>8. Stored'
  BY <1>1, <1>2, <1>5, Storing, <1>0 DEF SealInv, Stored, Running, Ctx
<1>9. Settled' /\ SealAtomic'
  BY <1>0, <1>2, <1>5 DEF Settled, SealAtomic
<1>10. Routed'
  BY <1>1, Storing, <1>0 DEF SealInv, Routed
<1>11. Overwritten'
  BY <1>0, <1>1, Storing, WordAssumption DEF SealInv, Overwritten, Ctx
<1>. QED  BY <1>1, <1>3, <1>6, <1>7, <1>8, <1>9, <1>10, <1>11 DEF SealInv

(* _sboot.check = block_check(...): the block is what its seal named.      *)
LEMMA StoreCheckStep ==
  ASSUME SealInv, TypeOK', NEW c \in Ctx, StoreCheck(c)
  PROVE  SealInv'
<1> USE Words DEF StoreCheck
<1>0. Sealing(c)
  BY DEF Sealing
<1>1. /\ \A d \in Ctx : d # c => pc'[d] = pc[d]
      /\ pc'[c] = arg[c].then /\ arg' = arg /\ mode' = mode
      /\ arg[c].then \in {"idle", "prepare", "reset"}
      /\ sealed'.request = arg[c].request /\ sealed'.attempts = arg[c].attempts
      /\ sboot'.magic = sboot.magic /\ sboot'.request = sboot.request
      /\ sboot'.attempts = sboot.attempts
      /\ sboot'.check = BlockCheck(MAGIC, arg[c].request, arg[c].attempts)
  BY DEF SealInv, TypeOK, Block, Arg
<1>2. Pair' = sealed' /\ sboot.request = arg[c].request /\ sboot.attempts = arg[c].attempts
  BY <1>1 DEF SealInv, Stored, Pair, Target
<1>3. /\ arg[c].request \in Requests /\ arg[c].attempts \in Strikes
      /\ c > 0 => mode = "app" /\ arg[c].request = LOADER /\ arg[c].then = "prepare"
  BY <1>0, Storing DEF SealInv, SealArgs
<1>4. sboot'.magic = MAGIC
  BY <1>1 DEF SealInv, Stored
<1>5. Known' /\ ~Raw'
  BY <1>1, <1>2, <1>3, <1>4 DEF Known, Raw
<1>6. SealArgs'
  BY <1>1, <1>3 DEF SealInv, SealArgs
<1>7. Stored'
  <2>1. \A d \in Ctx : d > c => pc'[d] = "idle"
    BY <1>0, <1>1, Storing DEF Ctx
  <2>2. \A d \in Ctx : d < c => ~Running(d)'
    BY <1>1, <1>3 DEF Running, Ctx
  <2>3. \A d \in Ctx : d < c \/ d = c \/ d > c
    BY DEF Ctx
  <2>. QED  BY <1>1, <2>1, <2>2, <2>3 DEF Stored
<1>8. Settled' /\ SealAtomic'
  BY <1>2, <1>5 DEF Settled, SealAtomic
<1>9. ThreadArgs'
  <2>1. c = 0 => ~Sealing(0)'
    BY <1>1 DEF Sealing
  <2>2. c # 0 => (Sealing(0)' = Sealing(0) /\ arg'[0] = arg[0] /\ mode' = "app")
    BY <1>1, <1>3 DEF Sealing, Ctx
  <2>3. mode' # "reset"
    BY <1>0, <1>1, Storing
  <2>. QED  BY <1>5, <2>1, <2>2, <2>3 DEF SealInv, ThreadArgs
<1>10. Routed'
  BY <1>0, <1>1, <1>2, <1>3, Storing DEF SealInv, Routed, ThreadArgs, Ctx
<1>11. Overwritten'
  BY <1>1, <1>2 DEF Overwritten
<1>. QED  BY <1>1, <1>3, <1>5, <1>6, <1>7, <1>8, <1>9, <1>10, <1>11 DEF SealInv

(* The prepare hook touches nothing of the block.                          *)
LEMMA PrepareStep ==
  ASSUME SealInv, TypeOK', NEW c \in Ctx, Prepare(c)
  PROVE  SealInv'
<1> USE Words DEF Prepare
<1>1. /\ \A d \in Ctx : d # c => pc'[d] = pc[d]
      /\ pc[c] = "prepare" /\ pc'[c] = "reset"
  BY DEF SealInv, TypeOK
<1>2. \A d \in Ctx : Sealing(d)' = Sealing(d) /\ Target(d)' = Target(d)
  BY <1>1 DEF Sealing, Target
<1>3. Raw' = Raw /\ Known' = Known /\ Valid' = Valid /\ Pair' = Pair
  BY DEF Raw, Known, Valid, ValidBlock, Pair
<1>4. SealArgs' /\ ThreadArgs'
  BY <1>1, <1>2, <1>3 DEF SealInv, SealArgs, ThreadArgs
<1>5. Stored'
  BY <1>1, <1>2, <1>3 DEF SealInv, Stored, Running, Ctx
<1>6. Settled' /\ SealAtomic'
  BY <1>2, <1>3 DEF SealInv, Settled, SealAtomic
<1>7. Routed' /\ Overwritten'
  BY <1>1 DEF SealInv, Routed, Overwritten
<1>. QED  BY <1>3, <1>4, <1>5, <1>6, <1>7 DEF SealInv

(* A reset of either kind: every context starts again from idle.           *)
LEMMA RestartStep ==
  ASSUME SealInv, TypeOK', Restart, Raw' \/ Known', SealAtomic',
         sealed'.request \in Requests, sealed'.attempts \in Strikes
  PROVE  SealInv'
<1>1. \A c \in Ctx : pc'[c] = "idle" /\ arg'[c] = NoArg
  BY DEF Restart
<1>2. mode' = "reset" /\ \A c \in Ctx : ~Sealing(c)'
  BY <1>1 DEF Restart, Sealing
<1>3. SealArgs' /\ ThreadArgs' /\ Stored'
  BY <1>1, <1>2, Words DEF SealArgs, ThreadArgs, Stored, NoArg
<1>4. Settled' /\ Routed' /\ Overwritten'
  BY <1>2 DEF Settled, Routed, Overwritten
<1>. QED  BY <1>3, <1>4 DEF SealInv

(* A warm reset keeps the words of the block: one that validates is what a *)
(* seal meant, and from now on counts as sealed.                           *)
LEMMA WarmStep ==
  ASSUME SealInv, TypeOK', Warm
  PROVE  SealInv'
<1>1. CASE Valid
  <2>1. Known
    BY <1>1, ValidIsKnown
  <2>2. sealed' = Pair /\ sboot' = sboot
    BY <1>1 DEF Warm
  <2>3. Known' /\ SealAtomic'
    BY <1>1, <2>1, <2>2 DEF Known, SealAtomic, Pair, Valid, ValidBlock
  <2>4. sealed'.request \in Requests /\ sealed'.attempts \in Strikes
    BY <2>1, <2>2 DEF Known, Pair
  <2>. QED  BY <2>3, <2>4, RestartStep DEF Warm
<1>2. CASE ~Valid
  <2>1. sealed' = sealed /\ sboot' = sboot
    BY <1>2 DEF Warm
  <2>2. (Raw' \/ Known') /\ ~Valid'
    BY <1>2, <2>1 DEF SealInv, Raw, Known, Valid, ValidBlock
  <2>3. SealAtomic'
    BY <2>2 DEF SealAtomic
  <2>. QED  BY <2>1, <2>2, <2>3, RestartStep DEF Warm, SealInv
<1>. QED  BY <1>1, <1>2

(* A power cut leaves RAM that no store of a request or a count completes  *)
(* to a valid block.                                                       *)
LEMMA PowerLossStep ==
  ASSUME SealInv, TypeOK', PowerLoss
  PROVE  SealInv'
<1>1. Raw'
  BY GarbageAssumption DEF PowerLoss, Raw
<1>2. ~Valid'
  BY <1>1 DEF Raw, Valid, ValidBlock
<1>3. SealAtomic'
  BY <1>2 DEF SealAtomic
<1>. QED  BY <1>1, <1>3, RestartStep DEF PowerLoss, SealInv

(* The inductive invariant of block_seal.                                  *)
THEOREM SealInvariant == Spec => []SealInv
<1>1. Init => SealInv
  <2> SUFFICES ASSUME Init PROVE SealInv
    OBVIOUS
  <2>1. TypeOK
    <3>1. NoArg \in Arg /\ [request |-> NONE, attempts |-> 0] \in [request : Word, attempts : Word]
      BY Words DEF NoArg, Arg
    <3>2. 0 \in 0..StrikeCap
      BY WordAssumption DEF StrikeCap
    <3>. QED  BY <3>1, <3>2, GarbageAssumption DEF Init, TypeOK, Modes, Steps
  <2>2. Raw
    BY GarbageAssumption DEF Init, Raw
  <2>3. ~Valid
    BY <2>2 DEF Raw, Valid, ValidBlock
  <2>4. mode = "reset" /\ \A c \in Ctx : pc[c] = "idle" /\ arg[c] = NoArg
    BY DEF Init
  <2>5. SealArgs /\ ThreadArgs /\ Stored
    BY <2>4, Words DEF SealArgs, ThreadArgs, Stored, NoArg, Sealing
  <2>6. Settled /\ Routed /\ Overwritten /\ SealAtomic
    BY <2>3, <2>4 DEF Settled, Routed, Overwritten, SealAtomic
  <2>. QED  BY <2>1, <2>2, <2>5, <2>6, Words DEF SealInv, Init
<1>2. SealInv /\ [Next]_vars => SealInv'
  <2> SUFFICES ASSUME SealInv, [Next]_vars PROVE SealInv'
    OBVIOUS
  <2>1. TypeOK'
    BY TypeStep DEF SealInv
  <2>2. ASSUME NEW c \in Ctx, Store(c) PROVE SealInv'
    BY <2>1, <2>2, StoreMagicStep, StoreRequestStep, StoreAttemptsStep, StoreCheckStep DEF Store
  <2>3. CASE UNCHANGED vars
    BY <2>3 DEF vars, SealInv, TypeOK, Raw, Known, SealArgs, ThreadArgs, Stored, Settled,
                Routed, Overwritten, SealAtomic, Valid, ValidBlock, Pair, Target, Sealing, Running
  <2>4. CASE Next
    BY <2>1, <2>2, <2>4, ThreadStep, RequestStep, PrepareStep, WarmStep, PowerLossStep
       DEF Next, SystemReset, WatchdogReset
  <2>. QED  BY <2>3, <2>4
<1>. QED  BY <1>1, <1>2, PTL DEF Spec

(* SealAtomic for every reachable state: block_seal torn by a watchdog, a  *)
(* reset or a power cut, or preempted by further seals to any depth, never *)
(* leaves a block that validates as anything but a pair some seal named.   *)
THEOREM SealIsAtomic == Spec => []SealAtomic
<1>1. SealInv => SealAtomic
  BY DEF SealInv
<1>. QED  BY SealInvariant, <1>1, PTL

-----------------------------------------------------------------------------
(* The strikes.  CountInv relates the history of handovers to the counts   *)
(* that the block and the seals under way carry.                           *)

\* a count under way is no lower than the handovers; a handover under way,
\* between stage-1's count and stage-2's start, is counted already
Counted ==
  /\ strikes <= MAX_ATTEMPTS
  /\ ~Raw => strikes <= sealed.attempts
  /\ \A c \in Ctx : Sealing(c) => strikes <= arg[c].attempts
  /\ mode = "enter2" => strikes < IF Sealing(0) THEN arg[0].attempts ELSE sealed.attempts
  /\ mode = "app" /\ Sealing(0) /\ arg[0].then # "prepare" => strikes = 0

CountInv == overlap \/ Counted

(* What the counts are compared with are numbers.                          *)
LEMMA CountTypes ==
  ASSUME SealInv
  PROVE  /\ strikes \in Nat /\ MAX_ATTEMPTS \in Nat
         /\ sealed.attempts \in Nat /\ sealed.attempts <= MAX_ATTEMPTS
         /\ \A c \in Ctx : arg[c].attempts \in Nat /\ arg[c].attempts <= MAX_ATTEMPTS
  BY WordAssumption DEF SealInv, SealArgs, TypeOK, Strikes, StrikeCap

(* hal_boot_mark_healthy, and a block that was lost: the count is cleared. *)
LEMMA CountClears ==
  ASSUME SealInv', strikes' = 0, mode' # "enter2"
  PROVE  CountInv'
  BY CountTypes, WordAssumption DEF CountInv, Counted, SealInv, SealArgs, TypeOK, Strikes

(* A call between seals that stores nothing.                               *)
LEMMA CountKeeps ==
  ASSUME SealInv, CountInv, UNCHANGED <<sboot, pc, arg, sealed, strikes, overlap>>,
         mode' # "enter2", mode' = "app" => ~Sealing(0)
  PROVE  CountInv'
  BY DEF CountInv, Counted, Raw, Sealing

(* The thread seals the count it has read, or one more.                    *)
LEMMA CountSeals ==
  ASSUME SealInv, CountInv, Free(0), UNCHANGED <<sboot, sealed, strikes, overlap>>,
         NEW r, NEW a \in Nat, NEW t, SealBegin(0, r, a, t), Valid,
         sboot.attempts <= a, mode' = "enter2" => sboot.attempts < a,
         mode' = "app" => t = "prepare"
  PROVE  CountInv'
<1>1. /\ \A c \in Ctx : ~Sealing(c) /\ (c # 0 => ~Sealing(c)')
      /\ arg'[0].attempts = a /\ arg'[0].then = t /\ Sealing(0)'
  BY ThreadQuiet, Words DEF SealBegin, SealInv, TypeOK, Sealing
<1>2. ~Raw /\ sboot.attempts = sealed.attempts
  BY ThreadQuiet, ValidIsKnown DEF Pair
<1>3. ~overlap => strikes <= a /\ (mode' = "enter2" => strikes < a)
  BY <1>2, CountTypes DEF CountInv, Counted
<1>4. Raw' = Raw
  BY DEF Raw
<1>. QED  BY <1>1, <1>2, <1>3, <1>4 DEF CountInv, Counted

(* The thread's calls.                                                     *)
LEMMA CountThread ==
  ASSUME SealInv, SealInv', CountInv, Thread
  PROVE  CountInv'
<1>1. CASE Stage1Init
  <2>1. CASE Valid
    <3>1. /\ mode' = "stage1" /\ UNCHANGED <<sboot, pc, arg, sealed, strikes>>
          /\ overlap' = overlap
      BY <1>1, <2>1 DEF Stage1Init, BlockInit, SealInv, TypeOK
    <3>. QED  BY <3>1, CountKeeps
  <2>2. CASE ~Valid
    BY <1>1, <2>2, CountClears DEF Stage1Init
  <2>. QED  BY <2>1, <2>2
<1>2. CASE Stage1Requested \/ Stage2Requested
  <2>1. /\ Free(0) /\ ClearRequest /\ mode # "reset" /\ mode' = "loader"
        /\ UNCHANGED <<sboot, sealed, strikes, overlap>>
    BY <1>2 DEF Stage1Requested, Stage2Requested
  <2>2. Valid /\ SealBegin(0, NONE, sboot.attempts, "idle")
    BY <2>1, ThreadQuiet DEF ClearRequest
  <2>3. sboot.attempts \in Nat /\ sboot.attempts <= sboot.attempts
    BY <2>1, <2>2, ThreadQuiet, CountTypes DEF Pair
  <2>. QED  BY <2>1, <2>2, <2>3, CountSeals
<1>3. CASE Stage1Recovery
  BY <1>3, CountKeeps DEF Stage1Recovery
<1>4. CASE Stage1Jump
  <2>1. Valid
    BY <1>4, ThreadQuiet DEF Stage1Jump
  <2>2. /\ sboot.attempts \in Nat /\ sboot.attempts < MAX_ATTEMPTS /\ sboot.attempts < WordMax
        /\ MAX_ATTEMPTS \in Nat /\ WordMax \in Nat
    BY <1>4, <2>1, ThreadQuiet, CountTypes, WordAssumption DEF Stage1Jump, GetAttempts, Pair
  <2>3. SealBegin(0, sboot.request, sboot.attempts + 1, "idle")
    BY <1>4, <2>1, <2>2 DEF Stage1Jump, AccountAttempt
  <2>4. /\ Free(0) /\ mode' = "enter2" /\ UNCHANGED <<sboot, sealed, strikes, overlap>>
    BY <1>4 DEF Stage1Jump
  <2>5. sboot.attempts + 1 \in Nat /\ sboot.attempts < sboot.attempts + 1
        /\ sboot.attempts <= sboot.attempts + 1
    BY <2>2
  <2>. QED  BY <2>1, <2>3, <2>4, <2>5, CountSeals
<1>5. CASE Stage2Init
  <2>1. Valid /\ ~Raw /\ \A c \in Ctx : ~Sealing(c)
    BY <1>5, ThreadQuiet, ValidIsKnown DEF Stage2Init
  <2>2. /\ mode = "enter2" /\ mode' = "stage2" /\ UNCHANGED <<sboot, pc, arg, sealed, overlap>>
        /\ strikes' = IF strikes < StrikeCap THEN strikes + 1 ELSE strikes
    BY <1>5, <2>1 DEF Stage2Init, BlockInit
  <2>3. ~overlap => strikes' <= sealed.attempts
    BY <2>1, <2>2, CountTypes, Words DEF CountInv, Counted
  <2>4. ~overlap => strikes' <= MAX_ATTEMPTS
    <3>1. strikes' \in Nat
      BY <2>2, CountTypes
    <3>. QED  BY <2>3, <3>1, CountTypes
  <2>5. \A c \in Ctx : ~Sealing(c)'
    BY <2>1, <2>2 DEF Sealing
  <2>. QED  BY <2>2, <2>3, <2>4, <2>5, Words DEF CountInv, Counted
<1>6. CASE Stage2Decides
  BY <1>6, ThreadQuiet, Words, CountKeeps DEF Stage2Decides
<1>7. CASE LoaderRun \/ AppHealthy
  BY <1>7, CountClears DEF LoaderRun, AppHealthy
<1>8. CASE EntryPolicy
  BY <1>8, ThreadQuiet, Words, CountKeeps DEF EntryPolicy
<1>9. CASE RequestTarget(0, STAGE1)
  <2>1. Valid
    BY <1>9, ThreadQuiet DEF RequestTarget
  <2>2. sboot.attempts \in Nat /\ sboot.attempts <= sboot.attempts
    BY <1>9, <2>1, ThreadQuiet, CountTypes DEF RequestTarget, Pair
  <2>3. ~Preempts(0)
    BY <1>9, ThreadQuiet DEF RequestTarget, Preempts
  <2>4. /\ Free(0) /\ SealBegin(0, STAGE1, sboot.attempts, "prepare") /\ mode' = "app"
        /\ UNCHANGED <<sboot, sealed, strikes, overlap>>
    BY <1>9, <2>1, <2>3 DEF RequestTarget, GetAttempts, SealInv, TypeOK
  <2>. QED  BY <2>1, <2>2, <2>4, CountSeals
<1>. QED
  BY <1>1, <1>2, <1>3, <1>4, <1>5, <1>6, <1>7, <1>8, <1>9 DEF Thread
(* A request carries the count it reads.  It reads zero in the middle of   *)
(* another seal: of a request, which overlap records, or of a healthy      *)
(* mark, whose count is zero.                                              *)
LEMMA CountRequest ==
  ASSUME SealInv, CountInv, NEW c \in Ctx, RequestTarget(c, LOADER)
  PROVE  CountInv'
<1>1. /\ Free(c) /\ mode = "app" /\ mode' = "app" /\ UNCHANGED <<sboot, sealed, strikes>>
      /\ SealBegin(c, LOADER, GetAttempts, "prepare") /\ overlap' = (overlap \/ Preempts(c))
  BY DEF RequestTarget
<1>2. /\ \A d \in Ctx : d # c => Sealing(d)' = Sealing(d) /\ arg'[d] = arg[d]
      /\ Sealing(c)' /\ arg'[c].attempts = GetAttempts /\ arg'[c].then = "prepare"
  BY <1>1 DEF SealBegin, SealInv, TypeOK, Sealing
<1>3. SUFFICES ASSUME ~overlap, ~Preempts(c), Counted PROVE Counted'
  BY <1>1 DEF CountInv
<1>4. strikes <= GetAttempts
  <2>1. CASE Valid
    <3>1. ~Raw /\ GetAttempts = Pair.attempts
      BY <2>1, ValidIsKnown DEF GetAttempts, Pair
    <3>2. CASE Pair = sealed
      BY <1>3, <3>1, <3>2 DEF Counted
    <3>3. CASE \E d \in Ctx : Sealing(d) /\ Pair = Target(d)
      BY <1>3, <3>1, <3>3 DEF Counted, Target
    <3>. QED  BY <2>1, <3>2, <3>3 DEF SealInv, SealAtomic
  <2>2. CASE ~Valid
    <3>1. PICK d \in Ctx : Sealing(d)
      BY <1>1, <2>2 DEF SealInv, Settled, Known, Valid, ValidBlock, Pair
    <3>2. d < c
      BY <1>1, <3>1 DEF Free, Running, Sealing, Ctx
    <3>3. arg[d].then # "prepare"
      BY <1>3, <3>1, <3>2 DEF Preempts
    <3>4. d = 0
      BY <3>1, <3>3 DEF SealInv, SealArgs, Sealing, Ctx
    <3>5. strikes = 0 /\ GetAttempts = 0
      BY <1>1, <1>3, <2>2, <3>1, <3>3, <3>4 DEF Counted, GetAttempts
    <3>. QED  BY <3>5
  <2>. QED  BY <2>1, <2>2
<1>5. Raw' = Raw
  BY <1>1 DEF Raw
<1>6. \A d \in Ctx : Sealing(d)' => strikes' <= arg'[d].attempts
  <2>. TAKE d \in Ctx
  <2>1. CASE d = c
    BY <1>1, <1>2, <1>4, <2>1
  <2>2. CASE d # c
    BY <1>1, <1>2, <1>3, <2>2 DEF Counted
  <2>. QED  BY <2>1, <2>2
<1>7. Sealing(0)' /\ arg'[0].then # "prepare" => strikes' = 0
  BY <1>1, <1>2, <1>3, Words DEF Counted
<1>. QED  BY <1>1, <1>3, <1>5, <1>6, <1>7 DEF Counted

(* A store moves the count of one seal into the block.                     *)
LEMMA CountStore ==
  ASSUME SealInv, CountInv, NEW c \in Ctx, Store(c)
  PROVE  CountInv'
<1>1. CASE StoreMagic(c) \/ StoreRequest(c) \/ StoreAttempts(c)
  <2>1. /\ UNCHANGED <<mode, arg, sealed, strikes, overlap>>
        /\ pc \in [Ctx -> Steps]
        /\ \E next \in {"request", "attempts", "check"} :
             Sealing(c) /\ pc' = [pc EXCEPT ![c] = next]
    BY <1>1 DEF StoreMagic, StoreRequest, StoreAttempts, SealInv, TypeOK, Sealing
  <2>3. \A d \in Ctx : Sealing(d)' = Sealing(d)
    BY <2>1 DEF Sealing
  <2>2. Raw => Raw'
    <3>1. /\ sboot \in Block /\ arg[c].request \in Requests /\ arg[c].attempts \in Strikes
      BY DEF SealInv, TypeOK, SealArgs
    <3>2. /\ sboot'.check = sboot.check
          /\ sboot'.request \in Requests \cup {sboot.request}
          /\ sboot'.attempts \in Strikes \cup {sboot.attempts}
      <4>1. CASE StoreMagic(c)
        BY <3>1, <4>1 DEF StoreMagic, Block
      <4>2. CASE StoreRequest(c)
        BY <3>1, <4>2 DEF StoreRequest, Block
      <4>3. CASE StoreAttempts(c)
        BY <3>1, <4>3 DEF StoreAttempts, Block
      <4>. QED  BY <1>1, <4>1, <4>2, <4>3
    <3>. QED  BY <3>2 DEF Raw
  <2>. QED  BY <2>1, <2>2, <2>3, Words DEF CountInv, Counted
<1>2. CASE StoreCheck(c)
  <2>1. /\ UNCHANGED <<mode, arg, strikes, overlap>> /\ Sealing(c)
        /\ sealed'.attempts = arg[c].attempts
        /\ \A d \in Ctx : Sealing(d)' => d # c /\ Sealing(d)
    BY <1>2 DEF StoreCheck, SealInv, TypeOK, Arg, Sealing
  <2>2. mode = "enter2" => c = 0
    BY <2>1 DEF SealInv, SealArgs, Sealing, Ctx
  <2>. QED  BY <2>1, <2>2, Words DEF CountInv, Counted
<1>. QED  BY <1>1, <1>2 DEF Store

(* Resets: no seal is under way any more.                                  *)
LEMMA CountReset ==
  ASSUME SealInv, CountInv, Warm \/ PowerLoss
  PROVE  CountInv'
<1>1. /\ mode' = "reset" /\ UNCHANGED <<strikes, overlap>>
      /\ \A c \in Ctx : ~Sealing(c)'
  BY DEF Warm, PowerLoss, Restart, Sealing
<1>2. SUFFICES ASSUME Counted PROVE ~Raw' => strikes <= sealed'.attempts
  BY <1>1 DEF CountInv, Counted
<1>3. CASE PowerLoss
  BY <1>3, GarbageAssumption DEF PowerLoss, Raw
<1>4. CASE Warm /\ ~Valid
  BY <1>2, <1>4 DEF Warm, Counted, Raw
<1>5. CASE Warm /\ Valid
  <2>1. ~Raw /\ sealed' = Pair
    BY <1>5, ValidIsKnown DEF Warm
  <2>2. CASE Pair = sealed
    BY <1>2, <2>1, <2>2 DEF Counted
  <2>3. CASE \E d \in Ctx : Sealing(d) /\ Pair = Target(d)
    BY <1>2, <2>1, <2>3 DEF Counted, Target
  <2>. QED  BY <1>5, <2>2, <2>3 DEF SealInv, SealAtomic
<1>. QED  BY <1>3, <1>4, <1>5

(* One step at a time.                                                     *)
LEMMA CountStep ==
  ASSUME SealInv, SealInv', CountInv, [Next]_vars
  PROVE  CountInv'
<1>1. ASSUME NEW c \in Ctx, Prepare(c) PROVE CountInv'
  <2>1. /\ UNCHANGED <<sboot, mode, arg, sealed, strikes, overlap>>
        /\ \A d \in Ctx : Sealing(d)' = Sealing(d)
    BY <1>1 DEF Prepare, SealInv, TypeOK, Sealing
  <2>. QED  BY <2>1, Words DEF CountInv, Counted, Raw
<1>2. CASE UNCHANGED vars
  BY <1>2 DEF vars, CountInv, Counted, Raw, Sealing
<1>. QED
  BY <1>1, <1>2, CountThread, CountRequest, CountStore, CountReset
     DEF Next, SystemReset, WatchdogReset

(* hal_boot_account_attempt and hal_boot_get_attempts: stage-1 never hands *)
(* over more than HAL_BOOT_MAX_ATTEMPTS times without a healthy mark,      *)
(* wherever seals are cut or preempted, unless one request preempted       *)
(* another.                                                                *)
THEOREM StrikesAreBounded == Spec => []StrikesBounded
<1>1. Init => CountInv
  BY Words, WordAssumption, GarbageAssumption DEF Init, CountInv, Counted, Raw, Sealing
<1>2. SealInv /\ SealInv' /\ CountInv /\ [Next]_vars => CountInv'
  BY CountStep
<1>3. CountInv => StrikesBounded
  BY DEF CountInv, Counted, StrikesBounded
<1>. QED  BY SealInvariant, <1>1, <1>2, <1>3, PTL DEF Spec

-----------------------------------------------------------------------------
(* The watcher: BootMatch for every sequence of distinct bytes, every      *)
(* alphabet and every length of stream.                                    *)

(* SEQ as the matcher indexes it.                                          *)
LEMMA SeqFacts ==
  /\ SEQ_LEN \in Nat /\ SEQ_LEN > 0
  /\ \A i \in 1..SEQ_LEN : SEQ[i] \in Bytes
  /\ \A i, j \in 1..SEQ_LEN : SEQ[i] = SEQ[j] => i = j
BY SeqAssumption, DistinctAssumption DEF SEQ_LEN

(* A longer part of the sequence ends the stream after a byte exactly when *)
(* the shorter one ended it before and the byte is the next one.           *)
LEMMA EndsStep ==
  ASSUME heard \in Seq(Bytes), NEW b \in Bytes, heard' = Append(heard, b),
         NEW k \in 0..(SEQ_LEN - 1)
  PROVE  Ends(k + 1)' <=> Ends(k) /\ b = SEQ[k + 1]
<1>1. /\ Len(heard) \in Nat /\ Len(heard') = Len(heard) + 1
      /\ heard'[Len(heard) + 1] = b
      /\ \A i \in 1..Len(heard) : heard'[i] = heard[i]
  OBVIOUS
<1>2. k \in Nat
  BY SeqFacts
<1>3. Len(heard') - (k + 1) = Len(heard) - k
  BY <1>1, <1>2
<1>4. ASSUME Ends(k + 1)' PROVE Ends(k) /\ b = SEQ[k + 1]
  <2>1. k <= Len(heard)
    BY <1>1, <1>2, <1>4 DEF Ends
  <2>2. \A i \in 1..(k + 1) : heard'[Len(heard) - k + i] = SEQ[i]
    BY <1>3, <1>4 DEF Ends
  <2>3. b = SEQ[k + 1]
    <3>1. k + 1 \in 1..(k + 1) /\ Len(heard) - k + (k + 1) = Len(heard) + 1
      BY <1>1, <1>2
    <3>2. heard'[Len(heard) - k + (k + 1)] = SEQ[k + 1]
      BY <2>2, <3>1
    <3>. QED  BY <1>1, <3>1, <3>2
  <2>4. ASSUME NEW i \in 1..k PROVE heard[Len(heard) - k + i] = SEQ[i]
    <3>1. i \in 1..(k + 1) /\ Len(heard) - k + i \in 1..Len(heard)
      BY <1>1, <1>2, <2>1
    <3>. QED  BY <1>1, <2>2, <3>1
  <2>. QED  BY <2>1, <2>3, <2>4 DEF Ends
<1>5. ASSUME Ends(k), b = SEQ[k + 1] PROVE Ends(k + 1)'
  <2>1. k <= Len(heard)
    BY <1>5 DEF Ends
  <2>2. k + 1 <= Len(heard')
    BY <1>1, <1>2, <2>1
  <2>3. ASSUME NEW i \in 1..(k + 1) PROVE heard'[Len(heard) - k + i] = SEQ[i]
    <3>1. CASE i = k + 1
      <4>1. Len(heard) - k + i = Len(heard) + 1
        BY <1>1, <1>2, <3>1
      <4>. QED  BY <1>1, <1>5, <3>1, <4>1
    <3>2. CASE i # k + 1
      <4>1. i \in 1..k /\ Len(heard) - k + i \in 1..Len(heard)
        BY <1>1, <1>2, <2>1, <3>2
      <4>. QED  BY <1>1, <1>5, <4>1 DEF Ends
    <3>. QED  BY <3>1, <3>2
  <2>. QED  BY <1>3, <2>2, <2>3 DEF Ends
<1>. QED  BY <1>4, <1>5

(* hal_boot_match_byte, on a stream whose tail s_pos describes.            *)
LEMMA MatchByteStep ==
  ASSUME MatchInv, NEW b \in Bytes, MatchByte(b)
  PROVE  /\ s_pos' \in 0..(SEQ_LEN - 1) /\ heard' \in Seq(Bytes) /\ outcome' \in Outcomes
         /\ \A k \in 1..(SEQ_LEN - 1) : Ends(k)' <=> k = s_pos'
         /\ MatchExact'
<1> USE SeqFacts
<1>1. s_pos \in 0..(SEQ_LEN - 1) /\ heard \in Seq(Bytes) /\ heard' = Append(heard, b)
  BY DEF MatchInv, MatchTypeOK, MatchByte
<1>2. Ends(0)
  BY <1>1 DEF Ends
<1>3. \A k \in 0..(SEQ_LEN - 1) : Ends(k + 1)' <=> Ends(k) /\ b = SEQ[k + 1]
  BY <1>1, EndsStep
<1>4. \A k \in 0..(SEQ_LEN - 1) : Ends(k) <=> k = 0 \/ k = s_pos
  BY <1>2 DEF MatchInv
<1>5. \A k \in 1..SEQ_LEN : Ends(k)' <=> b = SEQ[k] /\ (k = 1 \/ k = s_pos + 1)
  <2> TAKE k \in 1..SEQ_LEN
  <2>1. k - 1 \in 0..(SEQ_LEN - 1) /\ (k - 1) + 1 = k
    OBVIOUS
  <2>2. Ends((k - 1) + 1)' <=> Ends(k - 1) /\ b = SEQ[(k - 1) + 1]
    BY <1>3, <2>1
  <2>3. Ends(k - 1) <=> k - 1 = 0 \/ k - 1 = s_pos
    BY <1>4, <2>1
  <2>4. Ends(k)' <=> Ends(k - 1) /\ b = SEQ[k]
    BY ONLY <2>1, <2>2
  <2>. QED  BY <1>1, <2>3, <2>4
<1>6. Request \in {"busy", "reset"}
  BY DEF Request
<1>7. heard' \in Seq(Bytes)
  BY <1>1
<1>8. CASE b = SEQ[s_pos + 1] /\ s_pos + 1 = SEQ_LEN
  <2>1. s_pos' = 0 /\ outcome' \in {"busy", "reset"}
    BY <1>1, <1>6, <1>8 DEF MatchByte
  <2>2. \A k \in 1..(SEQ_LEN - 1) : ~Ends(k)'
    BY <1>1, <1>5, <1>8
  <2>3. Ends(SEQ_LEN)'
    BY <1>1, <1>5, <1>8
  <2>. QED  BY <1>7, <2>1, <2>2, <2>3 DEF MatchExact, Outcomes
<1>9. CASE b = SEQ[s_pos + 1] /\ s_pos + 1 < SEQ_LEN
  <2>1. s_pos' = s_pos + 1 /\ outcome' = "none"
    BY <1>1, <1>9 DEF MatchByte
  <2>2. \A k \in 1..SEQ_LEN : Ends(k)' <=> k = s_pos + 1
    BY <1>1, <1>5, <1>9
  <2>3. ~Ends(SEQ_LEN)'
    BY <1>1, <1>9, <2>2
  <2>. QED  BY <1>1, <1>7, <1>9, <2>1, <2>2, <2>3 DEF MatchExact, Outcomes
<1>10. CASE b # SEQ[s_pos + 1]
  <2>1. s_pos' = (IF b = SEQ[1] THEN 1 ELSE 0) /\ outcome' = "none"
    BY <1>10 DEF MatchByte
  <2>2. \A k \in 1..SEQ_LEN : Ends(k)' <=> k = 1 /\ b = SEQ[1]
    BY <1>5, <1>10
  <2>3. b = SEQ[1] => SEQ_LEN > 1
    BY <1>1, <1>10
  <2>4. ~Ends(SEQ_LEN)'
    BY <2>2, <2>3
  <2>. QED  BY <1>7, <2>1, <2>2, <2>3, <2>4 DEF MatchExact, Outcomes
<1>. QED  BY <1>1, <1>8, <1>9, <1>10

(* What MatchInv says survives every step, so the single number s_pos      *)
(* carries all of the stream that matters.                                 *)
LEMMA MatchInvariant == MatchSpec => []MatchInv
<1>1. MatchInit => MatchInv
  <2>1. MatchInit => entry_disabled \in BOOLEAN
    BY Zenon DEF MatchInit
  <2>2. MatchInit => MatchExact /\ \A k \in 1..(SEQ_LEN - 1) : ~Ends(k)
    BY SeqFacts DEF MatchInit, MatchExact, Ends
  <2>. QED  BY <2>1, <2>2, SeqFacts DEF MatchInit, MatchInv, MatchTypeOK, Outcomes
<1>2. MatchInv /\ [MatchNext]_matchvars => MatchInv'
  <2> SUFFICES ASSUME MatchInv, [MatchNext]_matchvars PROVE MatchInv'
    OBVIOUS
  <2> USE SeqFacts DEF MatchTypeOK
  <2>1. ASSUME NEW b \in Bytes, Byte(b) PROVE MatchInv'
    BY <2>1, MatchByteStep DEF Byte, MatchInv
  <2>2. ASSUME NEW data \in Buffers, Feed(data) PROVE MatchInv'
    <3>1. data \in Seq(Bytes)
      BY SeqAssumption DEF Buffers
    <3>. QED  BY <2>2, <3>1 DEF Feed, MatchInv, MatchExact, Ends
  <2>3. CASE FeedByte
    <3>1. Head(buffer) \in Bytes /\ Tail(buffer) \in Seq(Bytes)
      BY <2>3 DEF FeedByte, MatchInv
    <3>. QED  BY <2>3, <3>1, MatchByteStep DEF FeedByte, MatchInv
  <2>4. CASE MatchReset
    BY <2>4 DEF MatchReset, MatchInv, MatchExact, Ends, Outcomes
  <2>5. CASE EntryDisable
    BY <2>5 DEF EntryDisable, MatchInv, MatchExact, Ends
  <2>6. CASE EntryEnable
    BY <2>6 DEF EntryEnable, MatchInv, MatchExact, Ends
  <2>7. CASE WatchRestart
    <3>1. entry_disabled' \in BOOLEAN
      BY <2>7, Zenon DEF WatchRestart
    <3>2. MatchExact' /\ \A k \in 1..(SEQ_LEN - 1) : ~Ends(k)'
      BY <2>7 DEF WatchRestart, MatchExact, Ends
    <3>. QED  BY <2>7, <3>1, <3>2 DEF WatchRestart, MatchInv, Outcomes
  <2>8. CASE UNCHANGED matchvars
    BY <2>8 DEF matchvars, MatchInv, MatchExact, Ends
  <2>. QED  BY <2>1, <2>2, <2>3, <2>4, <2>5, <2>6, <2>7, <2>8 DEF MatchNext
<1>. QED  BY <1>1, <1>2, PTL DEF MatchSpec

(* The watcher fires exactly on the sequence, for every sequence of        *)
(* distinct bytes: hal_boot.c:145's one-byte resync needs no failure table.*)
THEOREM MatchIsExact == MatchSpec => []MatchExact
<1>1. MatchInv => MatchExact
  BY DEF MatchInv
<1>. QED  BY <1>1, MatchInvariant, PTL

(* And it never drops a sequence that has begun.                           *)
THEOREM MatchIsLongest == MatchSpec => []LongestMatch
<1>1. MatchInv => LongestMatch
  BY SeqFacts DEF MatchInv, MatchTypeOK, LongestMatch
<1>. QED  BY <1>1, MatchInvariant, PTL
=============================================================================
