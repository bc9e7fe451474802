------------------------------ MODULE BootChain ------------------------------
(***************************************************************************)
(* The chain of trust of boot/: stage-1 verifies stage-2 and jumps to it,  *)
(* stage-2 verifies the application against its signature and the rollback *)
(* floor and jumps to it; either becomes a loader when it will not, and    *)
(* serves boot/common/updater.c's frames for the one partition it owns.    *)
(*                                                                         *)
(* A partition is a set of cells, each holding its part of some image.     *)
(* Erasing a sector, programming a cell and saving the floor take time, so *)
(* each begins in one step and ends in another, and a reset can fall       *)
(* between.  The boot block is atomic here, or Lost by a reset in the      *)
(* middle of sealing it: BootBlock shows it offers nothing else.           *)
(***************************************************************************)
EXTENDS Naturals, Sequences, FiniteSets

CONSTANTS
  MAX_ATTEMPTS,  \* HAL_BOOT_MAX_ATTEMPTS
  Layout,        \* per partition: the cells of each sector, in erase order
  Images,        \* images that carry a valid signature
  Foreign,       \* contents that do not
  Kind,          \* the partition a signed image was built for
  Version,       \* a signed image's version
  HostFloors,    \* floors a host may ask RECOVERY_CMD_FLOOR for
  TornFloors,    \* what a half-written floor record may read as
  Floors,        \* the values the floor key can hold
  Factory        \* the application the board is made with

Parts   == {"stage2", "app"}
Cells(p) == UNION {Layout[p][i] : i \in 1..Len(Layout[p])}

ASSUME ChainAssumption ==
  /\ MAX_ATTEMPTS \in Nat \ {0}
  /\ \A p \in Parts : Layout[p] \in Seq(SUBSET Nat) /\ Len(Layout[p]) > 0 /\ Cells(p) # {}
  /\ Images \cap (Foreign \cup {"erased", "junk"}) = {}
  /\ Kind \in [Images -> Parts] /\ Version \in [Images -> Floors]
  /\ Floors \subseteq Nat /\ 0 \in Floors
  /\ HostFloors \subseteq Floors /\ TornFloors \subseteq Floors
  /\ Factory \in Images /\ Kind[Factory] = "app"
  /\ \E i \in Images : Kind[i] = "stage2"

NONE == "none"
Lost  == [request |-> "lost", attempts |-> 0]
Fresh == [request |-> NONE, attempts |-> 0]
Idle  == [op |-> "idle"]

VARIABLES
  mode,     \* the image that has control
  why,      \* the reason recovery() or update_mode() was given
  block,    \* the boot block
  flash,    \* partition -> cell -> content
  floor,    \* KV_KEY_ROLLBACK_FLOOR; 0 when the key is absent
  erased,   \* updater.c's erased
  busy,     \* the flash operation under way
  reply,    \* the last reply of the loader
  stale,    \* history: sectors not erased in this loader session
  written,  \* history: cells programmed in this loader session
  ran       \* history: the loader whose RUN began this boot

session == <<why, erased, reply, stale, written, ran>>
vars    == <<mode, block, flash, floor, busy, session>>

Loaders == {"loader1", "loader2"}

\* boot_image_is_good: the cells hold one signed image, and all of it
Holds(p, i) == \A c \in Cells(p) : flash[p][c] = i
Good(p)  == \E i \in Images : Holds(p, i)
Image(p) == CHOOSE i \in Images : Holds(p, i)

\* mutant: stage-2 linked with stage-1's idea of the partition to serve
TargetShared(l) == "stage2"

\* the partition a loader serves, and the one this loader does
Target(l) == IF l = "loader1" THEN "stage2" ELSE "app"
Owned == Target(mode)

-----------------------------------------------------------------------------
(* Stage-1: boot/stage1/main.c.  Seeded is hal_boot_block_init.            *)

Seeded == IF block = Lost THEN Fresh ELSE block

\* updater_serve: a session begins with nothing erased
EnterLoader(l, reason) ==
  /\ mode' = l /\ why' = reason /\ erased' = FALSE /\ reply' = "none"
  /\ stale' = 1..Len(Layout[Target(l)]) /\ written' = {}
  /\ UNCHANGED <<flash, floor, busy, ran>>

\* a session ends with the reset that ends everything in .bss
LeaveLoader ==
  /\ mode' = "stage1" /\ busy' = Idle
  /\ why' = "none" /\ erased' = FALSE /\ reply' = "none" /\ stale' = {} /\ written' = {}

Stage1Requested ==
  /\ mode = "stage1" /\ Seeded.request = "STAGE1"
  /\ block' = [Seeded EXCEPT !.request = NONE]
  /\ EnterLoader("loader1", "requested")

Stage1Crashloop ==
  /\ mode = "stage1" /\ Seeded.request # "STAGE1"
  /\ Seeded.attempts >= MAX_ATTEMPTS
  /\ block' = Seeded
  /\ EnterLoader("loader1", "crashloop")

Stage1BadImage ==
  /\ mode = "stage1" /\ Seeded.request # "STAGE1"
  /\ Seeded.attempts < MAX_ATTEMPTS /\ ~Good("stage2")
  /\ block' = Seeded
  /\ EnterLoader("loader1", "unverified")

\* whatever verifies is given control, whether or not it was built for here
Stage1Jump ==
  /\ mode = "stage1" /\ Seeded.request # "STAGE1"
  /\ Seeded.attempts < MAX_ATTEMPTS /\ Good("stage2")
  /\ block' = [Seeded EXCEPT !.attempts = @ + 1]
  /\ mode' = IF Kind[Image("stage2")] = "stage2" THEN "stage2" ELSE "wild"
  /\ UNCHANGED <<flash, floor, busy, session>>

-----------------------------------------------------------------------------
(* Stage-2: boot/stage2/main.c.                                            *)

Stage2Requested ==
  /\ mode = "stage2" /\ block.request = "LOADER"
  /\ block' = [block EXCEPT !.request = NONE]
  /\ EnterLoader("loader2", "requested")

Stage2BadImage ==
  /\ mode = "stage2" /\ block.request # "LOADER" /\ ~Good("app")
  /\ EnterLoader("loader2", "unverified") /\ UNCHANGED block

Stage2Rollback ==
  /\ mode = "stage2" /\ block.request # "LOADER" /\ Good("app")
  /\ Version[Image("app")] < floor
  /\ EnterLoader("loader2", "rollback") /\ UNCHANGED block

GiveControl ==
  /\ mode' = IF Kind[Image("app")] = "app" THEN "app" ELSE "wild"
  /\ ran' = "none" /\ UNCHANGED <<why, erased, reply, stale, written>>

Stage2Raise ==
  /\ mode = "stage2" /\ block.request # "LOADER" /\ Good("app")
  /\ Version[Image("app")] > floor
  /\ mode' = "raise" /\ busy' = [op |-> "save", to |-> Version[Image("app")]]
  /\ UNCHANGED <<block, flash, floor, session>>

\* hal_flash_save took the floor, or refused it and left it as it was
Stage2Raised ==
  /\ mode = "raise" /\ floor' \in {busy.to, floor} /\ busy' = Idle
  /\ GiveControl
  /\ UNCHANGED <<block, flash>>

\* mutant: the floor is raised but never compared with
Stage2JumpBelow ==
  /\ mode = "stage2" /\ block.request # "LOADER" /\ Good("app")
  /\ Version[Image("app")] <= floor
  /\ GiveControl
  /\ UNCHANGED <<block, flash, floor, busy>>

Stage2Jump ==
  /\ mode = "stage2" /\ block.request # "LOADER" /\ Good("app")
  /\ Version[Image("app")] = floor
  /\ GiveControl
  /\ UNCHANGED <<block, flash, floor, busy>>

-----------------------------------------------------------------------------
(* The application, as far as the chain can see it.                        *)

AppHealthy ==
  /\ mode = "app"
  /\ block' = [block EXCEPT !.attempts = 0]
  /\ UNCHANGED <<mode, flash, floor, busy, session>>

AppRequest(r) ==
  /\ mode = "app"
  /\ block' = [block EXCEPT !.request = r]
  /\ mode' = "stage1"
  /\ UNCHANGED <<flash, floor, busy, session>>

-----------------------------------------------------------------------------
(* The loaders: updater_serve, one action per command.                     *)

Serving == mode \in Loaders /\ busy = Idle

Answer(code) ==
  /\ reply' = code
  /\ UNCHANGED <<mode, block, flash, floor, busy, why, erased, stale, written, ran>>

\* a truncated or corrupt frame, RECOVERY_CMD_INFO, a command not known
Frame == Serving /\ \E code \in {"CRC", "ACK", "CMD"} : Answer(code)

Begin(op) ==
  /\ Serving /\ busy' = op
  /\ UNCHANGED <<mode, block, flash, floor, session>>

CmdErase == Begin([op |-> "erase", sector |-> 1])

EraseSector ==
  LET p == Owned  s == busy.sector IN
  /\ busy.op = "erase"
  /\ flash' = [flash EXCEPT ![p] =
                 [c \in Cells(p) |-> IF c \in Layout[p][s] THEN "erased" ELSE @[c]]]
  /\ stale' = stale \ {s}
  /\ \/ s < Len(Layout[p]) /\ busy' = [busy EXCEPT !.sector = s + 1]
        /\ UNCHANGED <<erased, reply>>
     \/ s = Len(Layout[p]) /\ busy' = Idle /\ erased' = TRUE /\ reply' = "ACK"
  /\ UNCHANGED <<mode, block, floor, why, written, ran>>

\* mutant: a write needs no erase before it
CmdWriteAnytime(c, x) == Begin([op |-> "write", cell |-> c, data |-> x])

CmdWrite(c, x) == erased /\ Begin([op |-> "write", cell |-> c, data |-> x])

\* do_write's refusals, before flash is touched
WriteRefused ==
  \/ Serving /\ erased /\ Answer("RANGE")
  \/ Serving /\ ~erased /\ Answer("NOT_ERASED")
  \/ Serving /\ Answer("LEN")

\* what a cell holds once x has been programmed over it
Programmed(old, x) == IF old \in {"erased", x} THEN x ELSE "junk"

WriteDone ==
  LET c == busy.cell  now == Programmed(flash[Owned][c], busy.data) IN
  /\ busy.op = "write"
  /\ flash' = [flash EXCEPT ![Owned][c] = now]
  /\ written' = written \cup {c}
  /\ reply' = IF now = busy.data THEN "ACK" ELSE "FLASH"
  /\ busy' = Idle
  /\ UNCHANGED <<mode, block, floor, why, erased, stale, ran>>

\* mutant: VERIFY answers for the frame, not for the image
CmdVerifyBlind == Serving /\ Answer("ACK")

CmdVerify ==
  /\ Serving
  /\ Answer(CASE ~Good(Owned) -> "VERIFY"
              [] Good(Owned) /\ mode = "loader2" /\ Version[Image("app")] < floor -> "ROLLBACK"
              [] OTHER -> "ACK")

CmdFloor(v) ==
  \/ Serving /\ mode = "loader1" /\ Answer("CMD")
  \/ mode = "loader2" /\ Begin([op |-> "save", to |-> v])

FloorSaved ==
  /\ mode = "loader2" /\ busy.op = "save" /\ busy' = Idle
  /\ \/ floor' = busy.to /\ reply' = "ACK"
     \/ floor' = floor /\ reply' = "STORE"
  /\ UNCHANGED <<mode, block, flash, why, erased, stale, written, ran>>

\* mutant: RUN leaves the strikes of the image it replaced
CmdRunKeepsStrikes ==
  \/ Serving /\ ~Good(Owned) /\ Answer("VERIFY")
  \/ Serving /\ Good(Owned) /\ LeaveLoader /\ ran' = mode
     /\ UNCHANGED <<block, flash, floor>>

\* the reply is on the wire before the reset; the loader does not see it taken
CmdRun ==
  \/ Serving /\ ~Good(Owned) /\ Answer("VERIFY")
  \/ /\ Serving /\ Good(Owned)
     /\ block' = [block EXCEPT !.attempts = 0]
     /\ LeaveLoader /\ ran' = mode
     /\ UNCHANGED <<flash, floor>>

-----------------------------------------------------------------------------
(* Time-outs of the flash controller and resets, at any point.  What was   *)
(* being written is left half done.                                        *)

TornFlash ==
  LET p == Owned IN
  CASE busy.op = "erase" ->
         {flash, [flash EXCEPT ![p] = [c \in Cells(p) |->
                    IF c \in Layout[p][busy.sector] THEN "junk" ELSE @[c]]]}
    [] busy.op = "write" ->
         {flash, [flash EXCEPT ![p][busy.cell] = "junk"]}
    [] OTHER -> {flash}

\* the controller never became ready: the loader says so and serves on
EraseFails ==
  /\ busy.op = "erase" /\ busy' = Idle /\ erased' = FALSE /\ reply' = "FLASH"
  /\ flash' \in TornFlash
  /\ UNCHANGED <<mode, block, floor, why, stale, written, ran>>

WriteFails ==
  /\ busy.op = "write" /\ busy' = Idle /\ reply' = "FLASH"
  /\ flash' \in TornFlash /\ written' = written \cup {busy.cell}
  /\ UNCHANGED <<mode, block, floor, why, erased, stale, ran>>

\* the old record is marked deleted before the new one is written
TornFloor ==
  IF busy.op = "save" THEN {floor, 0, busy.to} \cup TornFloors ELSE {floor}

Reset == LeaveLoader /\ ran' = "none" /\ flash' \in TornFlash /\ floor' \in TornFloor

\* the watchdog, a fault, or the reset pin; perhaps while the block was being sealed
WarmReset == Reset /\ block' \in {block, Lost}

PowerLoss == Reset /\ block' = Lost

-----------------------------------------------------------------------------
Init ==
  /\ mode = "stage1" /\ why = "none" /\ block = Lost
  /\ \E i \in Images : /\ Kind[i] = "stage2"
                       /\ flash = [p \in Parts |-> [c \in Cells(p) |->
                                     IF p = "stage2" THEN i ELSE Factory]]
  /\ floor = 0 /\ erased = FALSE /\ busy = Idle /\ reply = "none"
  /\ stale = {} /\ written = {} /\ ran = "none"

Stage1 == Stage1Requested \/ Stage1Crashloop \/ Stage1BadImage \/ Stage1Jump
Stage2 == Stage2Requested \/ Stage2BadImage \/ Stage2Rollback
          \/ Stage2Raise \/ Stage2Raised \/ Stage2Jump
App    == AppHealthy \/ AppRequest("LOADER") \/ AppRequest("STAGE1")
Flash  == EraseSector \/ WriteDone \/ FloorSaved
Host   == \/ Frame \/ CmdErase \/ CmdVerify \/ CmdRun \/ WriteRefused
          \/ \E c \in Cells(Owned), x \in Images \cup Foreign : CmdWrite(c, x)
          \/ \E v \in HostFloors : CmdFloor(v)
Faults == EraseFails \/ WriteFails \/ WarmReset \/ PowerLoss

Next == Stage1 \/ Stage2 \/ App \/ Flash \/ Host \/ Faults

Spec == Init /\ [][Next]_vars

-----------------------------------------------------------------------------

(* docs/roadmap/secure-bootloader.md:492: nothing runs that did not        *)
(* verify, and no loader damages the image it is itself part of: whatever  *)
(* is interrupted, the partition under the running code is intact.         *)
RunsVerified ==
  /\ mode \in {"stage2", "raise", "loader2", "app"} => Good("stage2")
  /\ mode \in {"raise", "app"} => Good("app")

(* boot/stage2/main.c:234: an application that has control is not older    *)
(* than the floor, whatever became of the save that raised it.             *)
NotRolledBack == mode = "app" => Good("app") /\ floor <= Version[Image("app")]

(* boot/common/updater.h:51: a transfer the host abandons, or a reset cuts *)
(* short, never leaves a partition half old and half new: no cell is       *)
(* programmed in a session before every sector has been erased in it.      *)
NoMixture == mode \in Loaders /\ written # {} => stale = {}

(* boot/common/updater.c:228: RUN does not "reset into something that will *)
(* not boot: a reset that lands straight back here".  Of stage-1's loader: *)
(* the boot its RUN begins never ends in that loader again, unless another *)
(* reset or a request of the application comes between.                    *)
RunLeavesStage1 == mode = "loader1" => ran # "loader1"
=============================================================================
