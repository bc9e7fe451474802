-------------------------- MODULE BootChainProofs ---------------------------
(***************************************************************************)
(* The chain of trust for every layout of the partitions, set of images    *)
(* and of floors: what has control verified, is not older than the floor,  *)
(* and was never half written.                                             *)
(***************************************************************************)
EXTENDS BootUpdate, TLAPS

ChainTyped ==
  /\ mode \in Loaders \cup {"stage1", "stage2", "raise", "app", "wild"}
  /\ DOMAIN flash = Parts /\ floor \in Floors
  /\ block \in [request : {"lost", NONE, "LOADER", "STAGE1"}, attempts : Nat]

\* which flash operations can be under way, and on whose behalf
BusyFits ==
  /\ mode \in {"stage1", "stage2", "app", "wild"} => busy = Idle
  /\ mode = "raise" => /\ busy.op = "save" /\ floor < busy.to
                       /\ busy.to = Version[Image("app")]
  /\ busy.op = "save" => busy.to \in Floors

\* a session of a loader: a write follows an erase of every sector
Session == mode \in Loaders =>
  /\ stale \subseteq 1..Len(Layout[Owned])
  /\ erased \/ written # {} => stale = {}
  /\ busy.op = "write" => erased
  /\ busy.op = "erase" =>
       /\ busy = [op |-> "erase", sector |-> busy.sector]
       /\ busy.sector \in 1..Len(Layout[Owned])
       /\ \A s \in stale : busy.sector <= s

\* the boot that a RUN of stage-1's loader began
Begun ==
  /\ mode = "loader1" => block.request # "STAGE1" /\ ran # "loader1"
  /\ mode = "app" => ran = "none"
  /\ mode = "stage1" /\ ran = "loader1" =>
       block.request # "STAGE1" /\ block.attempts = 0 /\ Good("stage2")

ChainInv == ChainTyped /\ BusyFits /\ Session /\ Begun /\ RunsVerified /\ NotRolledBack

(* What verified is one of the signed images, with a version of its own.   *)
LEMMA ImageSigned ==
  ASSUME NEW p \in Parts, Good(p)
  PROVE  Image(p) \in Images /\ Version[Image(p)] \in Floors
  BY ChainAssumption DEF Good, Image

(* A step that leaves the flash alone leaves the verdicts on it.           *)
LEMMA SameVerdict ==
  ASSUME UNCHANGED flash, NEW p \in Parts
  PROVE  Good(p)' = Good(p) /\ Image(p)' = Image(p)
  BY DEF Good, Image, Holds

(* The sectors of a partition are counted.                                 *)
LEMMA Sectors ==
  ASSUME NEW l \in Loaders
  PROVE  Len(Layout[Target(l)]) \in Nat \ {0}
  BY ChainAssumption DEF Target, Parts

(* The board leaves the factory with both partitions whole, and nothing in *)
(* RAM.                                                                    *)
LEMMA ChainInitHolds == Init => ChainInv
  <1> SUFFICES ASSUME Init PROVE ChainInv
    OBVIOUS
  <1>1. ChainTyped
    BY ChainAssumption DEF Init, ChainTyped, Lost
  <1>2. BusyFits /\ Session /\ Begun /\ RunsVerified /\ NotRolledBack
    BY DEF Init, BusyFits, Session, Begun, RunsVerified, NotRolledBack, Idle, Loaders
  <1> QED BY <1>1, <1>2 DEF ChainInv

(* A session begins.                                                       *)
LEMMA EnterStep ==
  ASSUME ChainInv, busy = Idle, NEW l \in Loaders, NEW reason, EnterLoader(l, reason),
         block' \in [request : {"lost", NONE, "LOADER", "STAGE1"}, attempts : Nat],
         l = "loader1" => block'.request # "STAGE1" /\ ran # "loader1",
         l = "loader2" => Good("stage2")
  PROVE  ChainInv'
  <1>1. ChainTyped'
    BY DEF ChainInv, ChainTyped, EnterLoader
  <1>2. BusyFits' /\ Begun' /\ NotRolledBack'
    BY DEF EnterLoader, BusyFits, Begun, NotRolledBack, Idle, Loaders
  <1>3. Session'
    <2>1. stale' = 1..Len(Layout[Owned']) /\ ~erased' /\ written' = {} /\ busy' = Idle
      BY DEF EnterLoader, Owned
    <2> QED BY <2>1 DEF Session, Idle, Owned
  <1>4. RunsVerified'
    BY SameVerdict DEF EnterLoader, RunsVerified, Loaders, Parts
  <1> QED BY <1>1, <1>2, <1>3, <1>4 DEF ChainInv

(* Stage-1's decision.                                                     *)
LEMMA Stage1Step ==
  ASSUME ChainInv, Stage1
  PROVE  ChainInv'
  <1>1. /\ mode = "stage1" /\ busy = Idle /\ ChainTyped /\ Begun
        /\ Seeded \in [request : {"lost", NONE, "LOADER", "STAGE1"}, attempts : Nat]
    BY DEF ChainInv, ChainTyped, BusyFits, Stage1, Stage1Requested, Stage1Crashloop,
           Stage1BadImage, Stage1Jump, Seeded, Fresh
  <1>2. ran = "loader1" =>
          Seeded.request # "STAGE1" /\ Seeded.attempts < MAX_ATTEMPTS /\ Good("stage2")
    BY <1>1, ChainAssumption DEF Begun, Seeded, Fresh, NONE
  <1>3. CASE Stage1Requested
    BY <1>1, <1>2, <1>3, EnterStep DEF Stage1Requested, Loaders, NONE
  <1>4. CASE Stage1Crashloop
    BY <1>1, <1>2, <1>4, ChainAssumption, EnterStep DEF Stage1Crashloop, Loaders
  <1>5. CASE Stage1BadImage
    BY <1>1, <1>2, <1>5, EnterStep DEF Stage1BadImage, Loaders
  <1>6. CASE Stage1Jump
    <2>1. /\ mode' \in {"stage2", "wild"} /\ UNCHANGED <<flash, floor, busy>>
          /\ block' = [Seeded EXCEPT !.attempts = Seeded.attempts + 1] /\ Good("stage2")
      BY <1>6 DEF Stage1Jump
    <2>2. ChainTyped'
      BY <1>1, <2>1 DEF ChainTyped
    <2>3. Good("stage2")'
      BY <2>1, SameVerdict DEF Parts
    <2> QED BY <1>1, <2>1, <2>2, <2>3 DEF ChainInv, BusyFits, Session, Begun, RunsVerified,
                                          NotRolledBack, Loaders, Idle
  <1> QED BY <1>3, <1>4, <1>5, <1>6 DEF Stage1

(* Stage-2's decision: the application it gives control to is as it was    *)
(* when the floor was compared.                                            *)
LEMMA Stage2Step ==
  ASSUME ChainInv, Stage2
  PROVE  ChainInv'
  <1>0. ChainTyped /\ BusyFits /\ RunsVerified /\ "app" \in Parts /\ "stage2" \in Parts
    BY DEF ChainInv, Parts
  <1>1. CASE Stage2Requested
    <2>1. mode = "stage2" /\ busy = Idle /\ Good("stage2")
      BY <1>0, <1>1 DEF Stage2Requested, BusyFits, RunsVerified
    <2> QED BY <1>0, <1>1, <2>1, EnterStep DEF Stage2Requested, ChainTyped, Loaders, NONE
  <1>2. CASE Stage2BadImage
    <2>1. mode = "stage2" /\ busy = Idle /\ Good("stage2")
      BY <1>0, <1>2 DEF Stage2BadImage, BusyFits, RunsVerified
    <2> QED BY <1>0, <1>2, <2>1, EnterStep DEF Stage2BadImage, ChainTyped, Loaders
  <1>3. CASE Stage2Rollback
    <2>1. mode = "stage2" /\ busy = Idle /\ Good("stage2")
      BY <1>0, <1>3 DEF Stage2Rollback, BusyFits, RunsVerified
    <2> QED BY <1>0, <1>3, <2>1, EnterStep DEF Stage2Rollback, ChainTyped, Loaders
  <1>4. CASE Stage2Raise
    <2>1. /\ mode = "stage2" /\ mode' = "raise" /\ Good("app") /\ Good("stage2")
          /\ floor < Version[Image("app")] /\ busy' = [op |-> "save", to |-> Version[Image("app")]]
          /\ UNCHANGED <<block, flash, floor>>
      BY <1>0, <1>4, ImageSigned, ChainAssumption DEF Stage2Raise, RunsVerified, ChainTyped
    <2>2. ChainTyped'
      BY <1>0, <2>1 DEF ChainTyped
    <2>3. Good("app")' /\ Good("stage2")' /\ Image("app")' = Image("app")
      BY <1>0, <2>1, SameVerdict
    <2>4. BusyFits'
      <3>1. busy'.op = "save" /\ busy'.to = Version[Image("app")]
        BY <2>1
      <3>2. busy'.to \in Floors
        BY <1>0, <2>1, <3>1, ImageSigned
      <3>3. floor' < busy'.to /\ busy'.to = Version[Image("app")']
        BY <2>1, <2>3, <3>1
      <3> QED BY <2>1, <3>1, <3>2, <3>3 DEF BusyFits
    <2> QED BY <2>1, <2>2, <2>3, <2>4 DEF ChainInv, Session, Begun, RunsVerified, NotRolledBack,
                                          Loaders
  <1>5. CASE Stage2Raised \/ Stage2Jump
    <2>1. /\ Good("app") /\ Good("stage2") /\ busy' = Idle /\ floor' \in Floors
          /\ floor' <= Version[Image("app")] /\ GiveControl /\ UNCHANGED <<block, flash>>
      <3>1. CASE Stage2Raised
        <4>1. /\ mode = "raise" /\ floor' \in {busy.to, floor} /\ busy' = Idle /\ GiveControl
              /\ UNCHANGED <<block, flash>>
          BY <3>1 DEF Stage2Raised
        <4>2. /\ Good("app") /\ Good("stage2") /\ floor \in Floors /\ busy.to \in Floors
              /\ floor < busy.to /\ busy.to = Version[Image("app")]
          BY <1>0, <4>1 DEF BusyFits, RunsVerified, ChainTyped
        <4>3. floor' \in Floors /\ floor' <= busy.to
          <5>1. floor \in Nat /\ busy.to \in Nat /\ floor <= busy.to /\ busy.to <= busy.to
            <6>1. floor \in Nat /\ busy.to \in Nat
              BY <4>2, ChainAssumption
            <6>2. floor < busy.to
              BY <4>2
            <6> QED BY <6>1, <6>2
          <5>2. floor' = busy.to \/ floor' = floor
            BY <4>1
          <5> QED BY <4>2, <5>1, <5>2
        <4> QED BY <4>1, <4>2, <4>3
      <3>2. CASE Stage2Jump
        <4>1. /\ mode = "stage2" /\ Good("app") /\ Version[Image("app")] = floor
              /\ GiveControl /\ UNCHANGED <<block, flash, floor, busy>>
          BY <3>2 DEF Stage2Jump
        <4>2. Good("stage2") /\ busy = Idle /\ floor \in Floors /\ floor <= floor
          BY <1>0, <4>1, ChainAssumption DEF BusyFits, RunsVerified, ChainTyped
        <4> QED BY <4>1, <4>2
      <3> QED BY <1>5, <3>1, <3>2
    <2>2. mode' \in {"app", "wild"} /\ ran' = "none"
      BY <2>1 DEF GiveControl
    <2>3. ChainTyped'
      BY <1>0, <2>1, <2>2 DEF ChainTyped
    <2>4. Good("app")' /\ Good("stage2")' /\ Image("app")' = Image("app")
      BY <1>0, <2>1, SameVerdict
    <2>5. BusyFits' /\ Session' /\ Begun'
      BY <2>1, <2>2 DEF BusyFits, Session, Begun, Loaders, Idle
    <2>6. RunsVerified' /\ NotRolledBack'
      BY <2>1, <2>2, <2>4 DEF RunsVerified, NotRolledBack
    <2> QED BY <2>3, <2>5, <2>6 DEF ChainInv
  <1> QED BY <1>1, <1>2, <1>3, <1>4, <1>5 DEF Stage2

(* The application marks itself healthy or asks for a loader.              *)
LEMMA AppStep ==
  ASSUME ChainInv, App
  PROVE  ChainInv'
  <1>1. /\ mode = "app" /\ mode' \in {"app", "stage1"} /\ ran = "none"
        /\ UNCHANGED <<flash, floor, busy, session>>
        /\ block' \in [request : {"lost", NONE, "LOADER", "STAGE1"}, attempts : Nat]
    BY DEF App, AppHealthy, AppRequest, ChainInv, ChainTyped, Begun
  <1>2. ChainTyped'
    BY <1>1 DEF ChainInv, ChainTyped
  <1>3. /\ Good("app")' = Good("app") /\ Good("stage2")' = Good("stage2")
        /\ Image("app")' = Image("app")
    BY <1>1, SameVerdict DEF Parts
  <1>4. BusyFits' /\ Session' /\ Begun'
    BY <1>1 DEF ChainInv, BusyFits, Session, Begun, Loaders, Idle, session
  <1>5. RunsVerified' /\ NotRolledBack'
    BY <1>1, <1>3 DEF ChainInv, RunsVerified, NotRolledBack
  <1> QED BY <1>2, <1>4, <1>5 DEF ChainInv

(* Steps inside a session that program nothing: replies, and the beginning *)
(* and the failure of an operation.                                        *)
LEMMA ServeStep ==
  ASSUME ChainInv, mode \in Loaders,
         UNCHANGED <<mode, block, flash, stale, written, ran>>, floor' \in Floors,
         erased' => erased,
         \/ busy' \in {busy, Idle}
         \/ busy' = [op |-> "erase", sector |-> 1]
         \/ erased' /\ \E c, x : busy' = [op |-> "write", cell |-> c, data |-> x]
         \/ \E v \in Floors : busy' = [op |-> "save", to |-> v],
         busy' = busy => erased' = erased
  PROVE  ChainInv'
  <1>0. ChainTyped /\ BusyFits /\ Session /\ Begun /\ RunsVerified
    BY DEF ChainInv
  <1>1. ChainTyped'
    BY <1>0 DEF ChainTyped
  <1>2. BusyFits'
    BY <1>0 DEF BusyFits, Loaders, Idle
  <1>3. Session'
    <2>1. Owned' = Owned /\ Len(Layout[Owned]) \in Nat \ {0}
      BY Sectors DEF Owned
    <2>2. stale \subseteq 1..Len(Layout[Owned]) /\ (erased \/ written # {} => stale = {})
      BY <1>0 DEF Session
    <2>3. CASE busy' = busy
      BY <1>0, <2>1, <2>3 DEF Session
    <2>4. CASE busy' = [op |-> "erase", sector |-> 1]
      BY <2>1, <2>2, <2>4 DEF Session
    <2>5. CASE busy' = Idle \/ \E v \in Floors : busy' = [op |-> "save", to |-> v]
      <3>1. busy'.op \in {"idle", "save"}
        BY <2>5 DEF Idle
      <3> QED BY <2>1, <2>2, <3>1 DEF Session
    <2>6. CASE erased' /\ \E c, x : busy' = [op |-> "write", cell |-> c, data |-> x]
      BY <2>1, <2>2, <2>6 DEF Session
    <2> QED BY <2>3, <2>4, <2>5, <2>6
  <1>4. Begun' /\ NotRolledBack'
    BY <1>0 DEF Begun, NotRolledBack, Loaders
  <1>5. RunsVerified'
    BY <1>0, SameVerdict DEF RunsVerified, Loaders, Parts
  <1> QED BY <1>1, <1>2, <1>3, <1>4, <1>5 DEF ChainInv

(* Steps that change the flash are confined to the partition the loader    *)
(* serves, which is never the one it runs from.                            *)
LEMMA OwnedOnly ==
  ASSUME ChainInv, mode \in Loaders, UNCHANGED <<mode, block, floor, ran>>,
         NEW now, flash' \in {flash, [flash EXCEPT ![Owned] = now]},
         busy'.op # "save", Session'
  PROVE  ChainInv'
  <1>0. ChainTyped /\ BusyFits /\ Begun /\ RunsVerified
    BY DEF ChainInv
  <1>1. ChainTyped'
    BY <1>0 DEF ChainTyped
  <1>2. BusyFits' /\ Begun' /\ NotRolledBack'
    BY <1>0 DEF BusyFits, Begun, NotRolledBack, Loaders
  <1>3. CASE mode = "loader1"
    BY <1>1, <1>2, <1>3 DEF ChainInv, RunsVerified
  <1>4. CASE mode = "loader2"
    <2>1. flash'["stage2"] = flash["stage2"]
      BY <1>0, <1>4 DEF ChainTyped, Parts, Owned, Target
    <2>2. Good("stage2")' = Good("stage2")
      BY <2>1 DEF Good, Holds
    <2>3. RunsVerified'
      BY <1>0, <1>4, <2>2 DEF RunsVerified
    <2> QED BY <1>1, <1>2, <2>3 DEF ChainInv
  <1> QED BY <1>3, <1>4 DEF Loaders

(* The end of an erased sector, of a programmed cell and of a saved floor. *)
LEMMA FlashStep ==
  ASSUME ChainInv, Flash
  PROVE  ChainInv'
  <1>0. ChainTyped /\ BusyFits /\ Session
    BY DEF ChainInv
  <1>1. CASE EraseSector
    <2>1. busy.op = "erase" /\ mode \in Loaders
      BY <1>0, <1>1 DEF EraseSector, ChainTyped, BusyFits, Idle
    <2> DEFINE n == Len(Layout[Owned])
               s == busy.sector
    <2>2. /\ n \in Nat /\ s \in 1..n /\ busy = [op |-> "erase", sector |-> s]
          /\ stale \subseteq 1..n /\ \A t \in stale : s <= t
          /\ erased \/ written # {} => stale = {}
      BY <1>0, <2>1, Sectors DEF Session, Owned
    <2>3. /\ UNCHANGED <<mode, block, floor, ran, written>> /\ stale' = stale \ {s}
          /\ \/ s < n /\ busy' = [busy EXCEPT !.sector = s + 1] /\ UNCHANGED erased
             \/ s = n /\ busy' = Idle /\ erased'
      BY <1>1 DEF EraseSector
    <2>4. Owned' = Owned
      BY <2>3 DEF Owned
    <2>5. Session' /\ busy'.op # "save"
      <3>1. CASE s < n
        <4>1. busy' = [op |-> "erase", sector |-> s + 1] /\ UNCHANGED erased
          BY <2>2, <2>3, <3>1
        <4>2. \A t \in stale' : s + 1 <= t
          BY <2>2, <2>3
        <4> QED BY <2>2, <2>3, <2>4, <3>1, <4>1, <4>2 DEF Session
      <3>2. CASE s = n
        <4>1. busy' = Idle /\ erased'
          BY <2>2, <2>3, <3>2
        <4>2. stale' = {}
          BY <2>2, <2>3, <3>2
        <4> QED BY <2>2, <2>3, <4>1, <4>2 DEF Session, Idle
      <3> QED BY <2>3, <3>1, <3>2
    <2>6. \E now : flash' \in {flash, [flash EXCEPT ![Owned] = now]}
      BY <1>1 DEF EraseSector
    <2> QED BY <2>1, <2>3, <2>5, <2>6, OwnedOnly
  <1>2. CASE WriteDone
    <2>1. busy.op = "write" /\ mode \in Loaders
      BY <1>0, <1>2 DEF WriteDone, ChainTyped, BusyFits, Idle
    <2>2. /\ UNCHANGED <<mode, block, floor, ran, erased, stale>> /\ busy' = Idle
      BY <1>2 DEF WriteDone
    <2>3. Session' /\ busy'.op # "save"
      BY <1>0, <2>1, <2>2 DEF Session, Idle, Owned
    <2>4. \E now : flash' \in {flash, [flash EXCEPT ![Owned] = now]}
      BY <1>2, Zenon DEF WriteDone
    <2> QED BY <2>1, <2>2, <2>3, <2>4, OwnedOnly
  <1>3. CASE FloorSaved
    <2>1. /\ mode \in Loaders /\ busy' = Idle /\ floor' \in Floors
          /\ UNCHANGED <<mode, block, flash, stale, written, ran, erased>>
      BY <1>0, <1>3 DEF FloorSaved, BusyFits, ChainTyped, Loaders
    <2> QED BY <2>1, ServeStep
  <1> QED BY <1>1, <1>2, <1>3 DEF Flash

(* RUN ends the session with a reset into what verified.                   *)
LEMMA RunStep ==
  ASSUME ChainInv, Serving, Good(Owned), block' = [block EXCEPT !.attempts = 0],
         LeaveLoader, ran' = mode, UNCHANGED <<flash, floor>>
  PROVE  ChainInv'
  <1>1. ChainTyped'
    BY DEF ChainInv, ChainTyped, LeaveLoader
  <1>2. BusyFits' /\ Session' /\ RunsVerified' /\ NotRolledBack'
    BY DEF LeaveLoader, BusyFits, Session, RunsVerified, NotRolledBack, Idle, Loaders
  <1>3. Begun'
    <2>1. CASE mode = "loader1"
      <3>1. Good("stage2")'
        BY <2>1, SameVerdict DEF Owned, Target, Parts
      <3>2. block'.request # "STAGE1" /\ block'.attempts = 0
        BY <2>1 DEF ChainInv, ChainTyped, Begun
      <3> QED BY <3>1, <3>2 DEF Begun, LeaveLoader
    <2>2. CASE mode = "loader2"
      BY <2>2 DEF Begun, LeaveLoader
    <2> QED BY <2>1, <2>2 DEF Serving, Loaders
  <1> QED BY <1>1, <1>2, <1>3 DEF ChainInv

(* The host's frames.                                                      *)
LEMMA HostStep ==
  ASSUME ChainInv, Host
  PROVE  ChainInv'
  <1>0. floor \in Floors
    BY DEF ChainInv, ChainTyped
  <1>1. ASSUME NEW code, Serving, Answer(code) PROVE ChainInv'
    BY <1>0, <1>1, ServeStep DEF Serving, Answer
  <1>2. ASSUME NEW op, Begin(op),
               \/ op = [op |-> "erase", sector |-> 1]
               \/ erased /\ \E c, x : op = [op |-> "write", cell |-> c, data |-> x]
               \/ \E v \in Floors : op = [op |-> "save", to |-> v]
        PROVE  ChainInv'
    BY <1>0, <1>2, ServeStep DEF Begin, Serving, session
  <1>3. CASE Frame \/ WriteRefused \/ CmdVerify
    BY <1>1, <1>3 DEF Frame, WriteRefused, CmdVerify
  <1>4. CASE CmdErase
    BY <1>2, <1>4 DEF CmdErase
  <1>5. CASE \E c \in Cells(Owned), x \in Images \cup Foreign : CmdWrite(c, x)
    BY <1>2, <1>5 DEF CmdWrite
  <1>6. ASSUME NEW v \in HostFloors, CmdFloor(v) PROVE ChainInv'
    BY <1>1, <1>2, <1>6, ChainAssumption DEF CmdFloor
  <1>7. CASE CmdRun
    BY <1>1, <1>7, RunStep DEF CmdRun
  <1> QED BY <1>3, <1>4, <1>5, <1>6, <1>7 DEF Host

(* What is torn lies in the partition the loader serves.                   *)
LEMMA TornConfined ==
  ASSUME flash' \in TornFlash
  PROVE  \E now : flash' \in {flash, [flash EXCEPT ![Owned] = now]}
  <1>1. flash' = flash \/ \E now : flash' = [flash EXCEPT ![Owned] = now]
    BY Zenon DEF TornFlash
  <1> QED BY <1>1

(* A time-out of the controller, and a reset at any point: what half done  *)
(* operations leave is judged anew.                                        *)
LEMMA FaultStep ==
  ASSUME ChainInv, Faults
  PROVE  ChainInv'
  <1>0. ChainTyped /\ BusyFits /\ Session
    BY DEF ChainInv
  <1>1. CASE EraseFails
    <2>1. mode \in Loaders
      BY <1>0, <1>1 DEF EraseFails, ChainTyped, BusyFits, Idle
    <2>2. /\ busy.op = "erase" /\ busy' = Idle /\ ~erased'
          /\ UNCHANGED <<mode, block, floor, stale, written, ran>>
      BY <1>1 DEF EraseFails
    <2>3. Session' /\ busy'.op # "save"
      BY <1>0, <2>1, <2>2 DEF Session, Idle, Owned
    <2>4. \E now : flash' \in {flash, [flash EXCEPT ![Owned] = now]}
      BY <1>1, TornConfined DEF EraseFails
    <2> QED BY <2>1, <2>2, <2>3, <2>4, OwnedOnly
  <1>2. CASE WriteFails
    <2>1. mode \in Loaders
      BY <1>0, <1>2 DEF WriteFails, ChainTyped, BusyFits, Idle
    <2>2. /\ busy.op = "write" /\ busy' = Idle
          /\ UNCHANGED <<mode, block, floor, erased, stale, ran>>
      BY <1>2 DEF WriteFails
    <2>3. Session' /\ busy'.op # "save"
      BY <1>0, <2>1, <2>2 DEF Session, Idle, Owned
    <2>4. \E now : flash' \in {flash, [flash EXCEPT ![Owned] = now]}
      BY <1>2, TornConfined DEF WriteFails
    <2> QED BY <2>1, <2>2, <2>3, <2>4, OwnedOnly
  <1>3. CASE WarmReset \/ PowerLoss
    <2>1. /\ mode' = "stage1" /\ busy' = Idle /\ ran' = "none" /\ block' \in {block, Lost}
          /\ flash' \in TornFlash /\ floor' \in TornFloor
      BY <1>3 DEF WarmReset, PowerLoss, Reset, LeaveLoader
    <2>2. DOMAIN flash' = Parts
      <3>1. flash' = flash \/ \E p, now : flash' = [flash EXCEPT ![p] = now]
        BY <2>1, Zenon DEF TornFlash
      <3> QED BY <1>0, <3>1 DEF ChainTyped
    <2>3. floor' \in Floors
      BY <1>0, <2>1, ChainAssumption DEF TornFloor, ChainTyped, BusyFits
    <2>4. ChainTyped'
      BY <1>0, <2>1, <2>2, <2>3 DEF ChainTyped, Lost
    <2> QED BY <2>1, <2>4 DEF ChainInv, BusyFits, Session, Begun, RunsVerified, NotRolledBack,
                              Idle, Loaders
  <1> QED BY <1>1, <1>2, <1>3 DEF Faults

(* One step at a time.                                                     *)
LEMMA ChainNextStep ==
  ASSUME ChainInv, [Next]_vars
  PROVE  ChainInv'
  <1>1. CASE UNCHANGED vars
    <2>1. UNCHANGED <<mode, block, flash, floor, busy, erased, stale, written, ran>>
      BY <1>1 DEF vars, session
    <2>2. /\ Good("app")' = Good("app") /\ Good("stage2")' = Good("stage2")
          /\ Image("app")' = Image("app")
      BY <2>1, SameVerdict DEF Parts
    <2> QED BY <2>1, <2>2 DEF ChainInv, ChainTyped, BusyFits, Session, Owned, Begun,
                              RunsVerified, NotRolledBack
  <1> QED BY <1>1, Stage1Step, Stage2Step, AppStep, FlashStep, HostStep, FaultStep DEF Next

(* The invariant behind the four theorems.                                 *)
THEOREM ChainInvariant == Spec => []ChainInv
  <1>1. ChainInv /\ [Next]_vars => ChainInv'
    BY ChainNextStep
  <1> QED BY ChainInitHolds, <1>1, PTL DEF Spec

(* stage1/main.c and stage2/main.c: whatever the host sends and wherever   *)
(* resets fall, only what verified has control, and a loader never damages *)
(* the partition it runs from.                                             *)
THEOREM OnlyVerifiedRuns == Spec => []RunsVerified
  <1>1. ChainInv => RunsVerified
    BY DEF ChainInv
  <1> QED BY ChainInvariant, <1>1, PTL

(* stage2/main.c: an application with control is not older than the floor, *)
(* also when the save that raised it failed or was cut.                    *)
THEOREM NeverRolledBack == Spec => []NotRolledBack
  <1>1. ChainInv => NotRolledBack
    BY DEF ChainInv
  <1> QED BY ChainInvariant, <1>1, PTL

(* updater.c: no cell is programmed before every sector of the partition   *)
(* has been erased in the same session.                                    *)
THEOREM ErasedBeforeWritten == Spec => []NoMixture
  <1>1. ChainInv => NoMixture
    BY DEF ChainInv, Session, NoMixture
  <1> QED BY ChainInvariant, <1>1, PTL

(* updater.c: the boot that a RUN of stage-1's loader begins does not end  *)
(* in that loader again.                                                   *)
THEOREM RunDoesNotReturn == Spec => []RunLeavesStage1
  <1>1. ChainInv => RunLeavesStage1
    BY DEF ChainInv, Begun, RunLeavesStage1
  <1> QED BY ChainInvariant, <1>1, PTL
-----------------------------------------------------------------------------
(* recover.py and its operator.                                            *)

(* The cell the tool sends next is one it has left to send.                *)
LEMMA LowestIsLeft ==
  ASSUME next # {}, Lowest(next) \in Cells(Owned), mode \in Loaders
  PROVE  Release[Owned] \in Images
  BY ReleaseAssumption DEF Owned, Target, Parts

(* Everything the tool sends is something a host may send.                 *)
LEMMA UpdateStep == [UpdateNext]_updateVars => [Next]_vars
  <1> SUFFICES ASSUME [UpdateNext]_updateVars PROVE [Next]_vars
    OBVIOUS
  <1>1. CASE Board \/ (Faults /\ UNCHANGED <<host, next>>)
    BY <1>1 DEF Board, Next, App
  <1>2. CASE Info \/ Erase \/ Verify \/ Run
    BY <1>2 DEF Info, Erase, Verify, Run, Next, Host, Frame
  <1>3. CASE Write
    <2>1. CASE Lowest(next) \in Cells(Owned) /\ erased
      <3>1. next # {} /\ mode \in Loaders /\ CmdWrite(Lowest(next), Release[Owned])
        BY <1>3, <2>1 DEF Write, CmdWrite, Begin, Serving
      <3>2. Release[Owned] \in Images
        BY <2>1, <3>1, LowestIsLeft
      <3> QED BY <2>1, <3>1, <3>2 DEF Next, Host
    <2>2. CASE ~(Lowest(next) \in Cells(Owned) /\ erased)
      BY <1>3, <2>2 DEF Write, Next, Host
    <2> QED BY <2>1, <2>2
  <1>4. CASE Ask
    BY <1>4 DEF Ask, Next, App
  <1>5. CASE Acked \/ Quit
    BY <1>5 DEF Acked, Quit
  <1>6. CASE LineFault
    BY <1>6 DEF LineFault, Next, Host, Frame
  <1>7. CASE UNCHANGED updateVars
    BY <1>7 DEF updateVars
  <1> QED BY <1>1, <1>2, <1>3, <1>4, <1>5, <1>6, <1>7 DEF UpdateNext, Tool

(* The chain under recover.py is the chain under some host: whatever holds *)
(* of BootChain holds during an update.                                    *)
THEOREM UpdateIsChain == UpdateSpec => Spec
  <1>1. UpdateInit => Init
    BY DEF UpdateInit
  <1> QED BY <1>1, UpdateStep, PTL DEF UpdateSpec, Spec

\* the verdict the tool was told, or is about to be told, and nothing that
\* could change what it was given of
VerdictKnown ==
  /\ host = "run" => Bootable(told)
  /\ host = "verifying" /\ mode \in Loaders /\ reply = "ACK" => Bootable(Owned)
  /\ host \in {"verifying", "run"} => mode = "raise" \/ busy = Idle

(* Flash is programmed for the tool, and it asks for nothing while it      *)
(* waits for a verdict or has one.                                         *)
LEMMA FlashStands ==
  ASSUME ChainInv, VerdictKnown, host \in {"verifying", "run"},
         Stage1 \/ Stage2 \/ Flash \/ AppHealthy \/ Faults
  PROVE  flash' = flash /\ (mode' = "raise" \/ busy' = Idle)
  <1>1. busy.op \notin {"erase", "write"} /\ (busy.op = "save" => mode = "raise")
    BY DEF ChainInv, BusyFits, VerdictKnown, Idle
  <1>2. CASE Stage1 \/ Stage2
    <2>1. mode \in {"stage1", "stage2", "raise"}
      BY <1>2 DEF Stage1, Stage1Requested, Stage1Crashloop, Stage1BadImage, Stage1Jump, Stage2,
                  Stage2Requested, Stage2BadImage, Stage2Rollback, Stage2Raise, Stage2Raised,
                  Stage2Jump
    <2>2. mode \in {"stage1", "stage2"} => busy = Idle
      BY DEF ChainInv, BusyFits
    <2> QED
      BY <1>2, <2>1, <2>2
      DEF Stage1, Stage1Requested, Stage1Crashloop, Stage1BadImage, Stage1Jump, Stage2,
          Stage2Requested, Stage2BadImage, Stage2Rollback, Stage2Raise, Stage2Raised,
          Stage2Jump, EnterLoader
  <1>3. CASE Flash \/ EraseFails \/ WriteFails
    BY <1>1, <1>3 DEF Flash, EraseSector, WriteDone, FloorSaved, EraseFails, WriteFails
  <1>4. CASE AppHealthy
    BY <1>4 DEF AppHealthy, VerdictKnown
  <1>5. CASE WarmReset \/ PowerLoss
    <2>1. flash' \in TornFlash /\ busy' = Idle
      BY <1>5 DEF WarmReset, PowerLoss, Reset, LeaveLoader
    <2> QED BY <1>1, <2>1 DEF TornFlash
  <1> QED BY <1>2, <1>3, <1>4, <1>5 DEF Faults

(* The floor rises only to the version of the application that is there,   *)
(* and a reset while it does leaves one of the two, none, or a torn one.   *)
LEMMA FloorStands ==
  ASSUME ChainInv, VerdictKnown, host \in {"verifying", "run"},
         Stage1 \/ Stage2 \/ Flash \/ AppHealthy \/ Faults,
         NEW p \in Parts, Bootable(p)
  PROVE  Bootable(p)'
  <1>1. flash' = flash
    BY FlashStands
  <1>2. Good(p)' /\ Image(p)' = Image(p)
    BY <1>1, SameVerdict DEF Bootable
  <1>3. SUFFICES ASSUME p = "app"
                 PROVE  floor' <= Version[Image("app")] \/ floor' \in TornFloors
    BY <1>2 DEF Bootable
  <1> DEFINE v == Version[Image("app")]
  <1>4. v \in Nat /\ 0 <= v /\ v <= v
    <2>1. v \in Floors
      BY <1>3, ImageSigned DEF Bootable
    <2>2. v \in Nat
      BY <2>1, ChainAssumption
    <2> QED BY <2>2
  <1>5. floor <= v \/ floor \in TornFloors
    BY <1>3 DEF Bootable
  <1>6. busy.op = "save" => mode = "raise" /\ busy.to = v
    BY DEF ChainInv, BusyFits, VerdictKnown, Idle
  <1>7. \/ floor' = floor
        \/ busy.op = "save" /\ floor' \in {floor, 0, busy.to} \cup TornFloors
    <2>1. CASE Stage1 \/ AppHealthy \/ EraseFails \/ WriteFails
      BY <2>1 DEF Stage1, Stage1Requested, Stage1Crashloop, Stage1BadImage, Stage1Jump,
                  EnterLoader, AppHealthy, EraseFails, WriteFails
    <2>2. CASE Stage2
      <3>1. mode = "raise" => busy.op = "save"
        BY DEF ChainInv, BusyFits
      <3> QED BY <2>2, <3>1 DEF Stage2, Stage2Requested, Stage2BadImage, Stage2Rollback,
                                Stage2Raise, Stage2Raised, Stage2Jump, EnterLoader
    <2>3. CASE Flash
      BY <2>3 DEF Flash, EraseSector, WriteDone, FloorSaved
    <2>4. CASE WarmReset \/ PowerLoss
      BY <2>4 DEF WarmReset, PowerLoss, Reset, TornFloor
    <2> QED BY <2>1, <2>2, <2>3, <2>4 DEF Faults
  <1> HIDE DEF v
  <1>8. floor' <= v \/ floor' \in TornFloors
    BY <1>4, <1>5, <1>6, <1>7
  <1> QED BY <1>8 DEF v

(* What VERIFY acknowledged is what the boot path asks for.                *)
LEMMA VerifyIsBootable ==
  ASSUME ChainInv, CmdVerify
  PROVE  /\ UNCHANGED <<mode, flash, floor, busy>> /\ busy = Idle /\ Owned \in Parts
         /\ reply' = "ACK" => Bootable(Owned)
  <1>1. /\ UNCHANGED <<mode, flash, floor, busy>> /\ busy = Idle /\ mode \in Loaders
        /\ reply' = "ACK" => /\ Good(Owned)
                             /\ mode = "loader2" => ~(Version[Image("app")] < floor)
    BY DEF CmdVerify, Answer, Serving
  <1>2. Owned \in Parts /\ (mode = "loader1" => Owned = "stage2")
    BY <1>1 DEF Owned, Target, Parts, Loaders
  <1>3. ASSUME reply' = "ACK", Owned = "app" PROVE floor <= Version[Image("app")]
    <2>1. mode = "loader2" /\ Good("app")
      BY <1>1, <1>2, <1>3 DEF Loaders
    <2>2. Version[Image("app")] \in Nat /\ floor \in Nat
      BY <2>1, ImageSigned, ChainAssumption DEF Parts, ChainInv, ChainTyped
    <2> QED BY <1>1, <1>3, <2>1, <2>2
  <1> QED BY <1>1, <1>2, <1>3 DEF Bootable

(* The same flash and floor are as bootable as they were.                  *)
LEMMA SameBootable ==
  ASSUME UNCHANGED <<flash, floor>>, NEW p
  PROVE  Bootable(p)' = Bootable(p)
  BY DEF Bootable, Good, Image, Holds

(* Between the verdict and RUN only resets, boots and a rise of the floor  *)
(* can come, and the verdict outlives them all.                            *)
LEMMA VerdictStep ==
  ASSUME ChainInv, VerdictKnown, [UpdateNext]_updateVars
  PROVE  VerdictKnown'
  <1>1. CASE UNCHANGED updateVars
    <2>1. UNCHANGED <<mode, flash, floor, busy, reply, host, told>> /\ Owned' = Owned
      BY <1>1 DEF updateVars, vars, session, Owned
    <2>2. /\ Bootable(told)' = Bootable(told)
          /\ Bootable(Owned)' = Bootable(Owned)
      BY <2>1 DEF Bootable, Good, Image, Holds
    <2> QED BY <2>1, <2>2 DEF VerdictKnown
  <1>2. ASSUME UNCHANGED host, Remember,
               Stage1 \/ Stage2 \/ Flash \/ AppHealthy \/ Faults
        PROVE  VerdictKnown'
    <2>1. SUFFICES ASSUME host \in {"verifying", "run"} PROVE VerdictKnown'
      BY <1>2 DEF VerdictKnown
    <2>2. flash' = flash /\ (mode' = "raise" \/ busy' = Idle)
      BY <1>2, <2>1, FlashStands
    <2>3. ASSUME host' = "run" PROVE Bootable(told)'
      <3>1. told' = told /\ Bootable(told) /\ told \in Parts
        BY <1>2, <2>3 DEF Remember, VerdictKnown, Bootable
      <3>2. \A p \in Parts : Bootable(p) => Bootable(p)'
        BY <1>2, <2>1, FloorStands
      <3> QED BY <3>1, <3>2 DEF Bootable, Good, Image, Holds
    <2>4. ASSUME host' = "verifying", mode' \in Loaders, reply' = "ACK"
          PROVE  Bootable(Owned)'
      <3>1. UNCHANGED <<mode, reply>> /\ mode \in Loaders
        <4>1. CASE Stage1 \/ Stage2
          <5>1. mode' \in Loaders => reply' = "none"
            BY <4>1 DEF Stage1, Stage1Requested, Stage1Crashloop, Stage1BadImage, Stage1Jump,
                        Stage2, Stage2Requested, Stage2BadImage, Stage2Rollback, Stage2Raise,
                        Stage2Raised, Stage2Jump, EnterLoader, GiveControl, Loaders
          <5> QED BY <2>4, <5>1
        <4>2. CASE Flash \/ EraseFails \/ WriteFails
          <5>1. busy.op \notin {"erase", "write"} /\ (busy.op = "save" => mode = "raise")
            BY <2>1 DEF ChainInv, BusyFits, VerdictKnown, Idle
          <5> QED BY <4>2, <5>1 DEF Flash, EraseSector, WriteDone, FloorSaved, EraseFails,
                                    WriteFails
        <4>3. CASE AppHealthy
          BY <2>4, <4>3 DEF AppHealthy, session
        <4>4. CASE WarmReset \/ PowerLoss
          BY <2>4, <4>4 DEF WarmReset, PowerLoss, Reset, LeaveLoader
        <4> QED BY <1>2, <4>1, <4>2, <4>3, <4>4 DEF Faults
      <3>2. Bootable(Owned) /\ Owned \in Parts /\ Owned' = Owned
        BY <1>2, <2>4, <3>1 DEF VerdictKnown, Bootable, Owned
      <3>3. \A p \in Parts : Bootable(p) => Bootable(p)'
        BY <1>2, <2>1, FloorStands
      <3> QED BY <3>2, <3>3 DEF Bootable, Good, Image, Holds
    <2> QED BY <2>2, <2>3, <2>4 DEF VerdictKnown
  <1>3. CASE Verify
    <2>1. host' = "verifying" /\ CmdVerify
      BY <1>3 DEF Verify, HostIs
    <2>2. /\ UNCHANGED <<mode, flash, floor, busy>> /\ busy = Idle
          /\ reply' = "ACK" => Bootable(Owned)
      BY <2>1, VerifyIsBootable
    <2>3. Bootable(Owned)' = Bootable(Owned)
      BY <2>2 DEF Bootable, Good, Image, Holds, Owned
    <2> QED BY <2>1, <2>2, <2>3 DEF VerdictKnown
  <1>4. CASE Acked /\ Remember
    <2>1. /\ UNCHANGED <<mode, flash, floor, busy, reply>> /\ busy = Idle
          /\ reply = "ACK" /\ mode \in Loaders /\ host' # "verifying"
          /\ host' = "run" => host = "verifying"
      BY <1>4 DEF Acked, HostIs, vars, session
    <2>2. host' = "run" => told' = Owned /\ Bootable(Owned)
      BY <1>4, <2>1 DEF Remember, VerdictKnown
    <2>3. \A p : Bootable(p)' = Bootable(p)
      BY <2>1, SameBootable
    <2> QED BY <2>1, <2>2, <2>3 DEF VerdictKnown, Bootable, Good, Image, Holds
  <1>5. CASE Info \/ Erase \/ Write \/ Run \/ Quit \/ Ask \/ LineFault
    <2>1. host' \notin {"verifying", "run"}
      BY <1>5 DEF Info, Erase, Write, Run, Quit, Ask, LineFault, HostIs
    <2> QED BY <2>1 DEF VerdictKnown
  <1> QED BY <1>1, <1>2, <1>3, <1>4, <1>5 DEF UpdateNext, Board, Tool

(* tools/recover.py and updater.c: what VERIFY acknowledged is bootable    *)
(* until RUN has been sent, however many resets, boots and other loaders   *)
(* come between, and wherever they cut a rise of the floor short.          *)
THEOREM RunFollowsVerdict == UpdateSpec => []RunIsAccepted
  <1>1. UpdateInit => VerdictKnown
    BY DEF UpdateInit, VerdictKnown
  <1>2. VerdictKnown => RunIsAccepted
    BY DEF VerdictKnown, RunIsAccepted
  <1>3. ChainInv /\ VerdictKnown /\ [UpdateNext]_updateVars => VerdictKnown'
    BY VerdictStep
  <1> QED BY UpdateIsChain, ChainInvariant, <1>1, <1>2, <1>3, PTL DEF UpdateSpec
=============================================================================
