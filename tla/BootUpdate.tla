----------------------------- MODULE BootUpdate -----------------------------
(***************************************************************************)
(* BootChain under tools/recover.py: an operator runs the tool again and   *)
(* again until the board runs the release it was given.  The tool talks to *)
(* whichever loader answers and quits at the first refusal or silence.     *)
(* The board may be reset, its flash controller time out and the line lose *)
(* or damage a frame at any point, a bounded number of times.              *)
(***************************************************************************)
EXTENDS BootChain

CONSTANTS
  Release,    \* per partition: the image the operator is installing
  MaxFaults   \* bound on resets, power cuts, flash failures and lost frames

ASSUME ReleaseAssumption ==
  \A p \in Parts : Release[p] \in Images /\ Kind[Release[p]] = p

VARIABLES
  host,    \* the exchange recover.py is in, or waits for the reply to
  next,    \* the cells it has still to send
  told,    \* history: the partition VERIFY acknowledged, until RUN is done with
  faults   \* bound: faults so far

updateVars == <<vars, host, next, told, faults>>

Installed == Holds("app", Release["app"])

\* the cell recover.py sends next: it works upwards from offset 0
Lowest(S) == CHOOSE c \in S : \A d \in S : c <= d

HostIs(h, h2) == host = h /\ host' = h2

Info ==
  /\ HostIs("info", "erase") /\ Serving
  /\ Answer("ACK") /\ next' = {}

Erase == HostIs("erase", "erasing") /\ CmdErase /\ UNCHANGED next

Write ==
  /\ HostIs("write", "writing") /\ next # {}
  /\ IF Lowest(next) \in Cells(Owned) /\ erased
     THEN CmdWrite(Lowest(next), Release[Owned])
     ELSE WriteRefused
  /\ next' = next \ {Lowest(next)}

Verify == HostIs("verify", "verifying") /\ CmdVerify /\ UNCHANGED next

Run == HostIs("run", "info") /\ CmdRun /\ UNCHANGED next

Acked ==
  /\ reply = "ACK" /\ busy = Idle /\ mode \in Loaders
  /\ \/ HostIs("erasing", "write") /\ next' = Cells(Owned)
     \/ host = "writing" /\ host' = (IF next = {} THEN "verify" ELSE "write") /\ UNCHANGED next
     \/ HostIs("verifying", "run") /\ UNCHANGED next
  /\ UNCHANGED vars

\* a refusal, or nobody there: the tool prints why and exits
Quit ==
  /\ \/ host \in {"erasing", "writing", "verifying"} /\ busy = Idle /\ reply # "ACK"
     \/ host # "info" /\ mode \notin Loaders
  /\ host' = "info" /\ next' = {}
  /\ UNCHANGED vars

\* a frame or its reply is lost or damaged on the line, or the reply is late
LineFault ==
  /\ host # "info" /\ host' = "info" /\ next' = {}
  /\ \/ UNCHANGED vars
     \/ host \in {"erase", "write", "verify", "run"} /\ Serving /\ Answer("CRC")

\* an operator who finds the old release running asks it for the loader
Ask ==
  /\ host = "info" /\ mode = "app" /\ ~Installed
  /\ AppRequest("LOADER") /\ UNCHANGED <<host, next>>

Board == (Stage1 \/ Stage2 \/ Flash \/ AppHealthy) /\ UNCHANGED <<host, next>>

Tool == Info \/ Erase \/ Write \/ Verify \/ Run \/ Acked \/ Quit \/ Ask

Remember == told' = CASE host' # "run" -> "none"
                      [] host = "run"  -> told
                      [] OTHER         -> Owned

UpdateInit == Init /\ host = "info" /\ next = {} /\ told = "none" /\ faults = 0

UpdateNext ==
  \/ (Board \/ Tool) /\ Remember /\ UNCHANGED faults
  \/ /\ faults < MaxFaults /\ faults' = faults + 1
     /\ (Faults /\ UNCHANGED <<host, next>>) \/ LineFault
     /\ Remember

(* The board's loops run for ever and flash operations end; the operator   *)
(* keeps trying.  Nothing is assumed of faults but that they stop.         *)
UpdateSpec ==
  /\ UpdateInit /\ [][UpdateNext]_updateVars
  /\ WF_updateVars(Board /\ Remember /\ UNCHANGED faults)
  /\ WF_updateVars(Tool /\ Remember /\ UNCHANGED faults)

-----------------------------------------------------------------------------
(* docs/roadmap/secure-bootloader.md:495: "A power cut at any point during *)
(* an update leaves the board updatable": the release ends up running,     *)
(* with its strikes cleared, whatever was interrupted on the way.          *)
Updatable == <>[](mode = "app" /\ Installed /\ block = Fresh)

\* the boot path accepts what partition p holds, unless a torn floor stands
Bootable(p) ==
  /\ p \in Parts /\ Good(p)
  /\ p = "app" => floor <= Version[Image("app")] \/ floor \in TornFloors

(* boot/common/updater.c:187: VERIFY answers by "the real verify, the same *)
(* function the boot path uses".  Until the tool has sent its RUN, however *)
(* often the board is reset in between and whichever loader or application *)
(* has come up since, the partition VERIFY acknowledged is one the boot    *)
(* path accepts: whole, signed, and not below the floor a reset left.      *)
RunIsAccepted == host = "run" => Bootable(told)
=============================================================================
