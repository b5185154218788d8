-------------------------------- MODULE Fleet --------------------------------
(***************************************************************************)
(* The parent of Spawner.tla together with what its children do: each      *)
(* child runs sessions (Client.tla) in main()'s loop, sleeps between them, *)
(* and leaves main() only when ClientSimulate returns ERROR or when        *)
(* ts.conf asks it to quit after a session; a signal may end it any time.  *)
(***************************************************************************)
EXTENDS Spawner

VARIABLES
  quitAfterSucc,  \* the field of configFile, read once before the forks
  life            \* where each child is: in a session, asleep, or how it ended

fleetVars == <<vars, quitAfterSucc, life>>

(* What main() does with a child and what the kernel says of it agree: a   *)
(* process is there exactly while it plays its terminal.                   *)
LifeMatchesProcess ==
  /\ quitAfterSucc \in BOOLEAN
  /\ life \in [Slots -> {"none", "session", "sleep", "served", "failed",
                         "killed"}]
  /\ \A c \in Slots :
       /\ life[c] = "none" <=> proc[c] = "unborn"
       /\ life[c] \in {"session", "sleep"} <=>
            proc[c] \in {"running", "stopped", "suspended"}

FleetInit ==
  /\ Init
  /\ quitAfterSucc \in BOOLEAN
  /\ life = [c \in Slots |-> "none"]

(* fork() puts the child into its first session.                           *)
ParentStep ==
  /\ Parent
  /\ life' = [c \in Slots |->
                IF proc[c] = "unborn" /\ proc'[c] # "unborn"
                  THEN "session" ELSE life[c]]
  /\ UNCHANGED quitAfterSucc

Becomes(c, state) ==
  /\ life' = [life EXCEPT ![c] = state]
  /\ UNCHANGED quitAfterSucc

(* Mutated form; no specification uses it: the test of quitAfterSucc is    *)
(* the wrong way round.                                                    *)
SessionOverInverted(c) ==
  /\ proc[c] = "running"
  /\ life[c] = "session"
  /\ IF ~quitAfterSucc
       THEN ChildExit(c) /\ Becomes(c, "served")
       ELSE UNCHANGED vars /\ Becomes(c, "sleep")

(* ClientSimulate returns a time: break out of the loop, or sleep.         *)
SessionOver(c) ==
  /\ proc[c] = "running"
  /\ life[c] = "session"
  /\ IF quitAfterSucc
       THEN ChildExit(c) /\ Becomes(c, "served")
       ELSE UNCHANGED vars /\ Becomes(c, "sleep")

(* ClientSimulate returns ERROR. *)
SessionFails(c) ==
  /\ proc[c] = "running"
  /\ life[c] = "session"
  /\ ChildExit(c)
  /\ Becomes(c, "failed")

WakeUp(c) ==
  /\ proc[c] = "running"
  /\ life[c] = "sleep"
  /\ UNCHANGED vars
  /\ Becomes(c, "session")

(* SIGPIPE, SIGSEGV (Client.tla), or a signal from outside. *)
Killed(c) == ChildExit(c) /\ Becomes(c, "killed")

Stopped(c) == ChildStop(c) /\ UNCHANGED <<quitAfterSucc, life>>

Continued(c) == ChildContinue(c) /\ UNCHANGED <<quitAfterSucc, life>>

FleetTerminated == Terminated /\ UNCHANGED fleetVars

FleetNext ==
  \/ ParentStep
  \/ \E c \in Slots :
       \/ SessionOver(c) \/ SessionFails(c) \/ WakeUp(c) \/ Killed(c)
       \/ Stopped(c) \/ Continued(c)
  \/ FleetTerminated

FleetSpec == FleetInit /\ [][FleetNext]_fleetVars

(* The scheduler runs the parent; fork() does not fail for ever; a stopped *)
(* child is continued, and a sleep() and a session end (EverySessionEnds   *)
(* of Client.tla) however often it was stopped. Nothing says that a child  *)
(* exits.                                                                  *)
FairFleet ==
  /\ FleetSpec
  /\ WF_fleetVars(ParentStep)
  /\ SF_fleetVars(ParentStep /\ ForkOk)
  /\ \A c \in Slots :
       /\ SF_fleetVars(SessionOver(c) \/ SessionFails(c) \/ WakeUp(c))
       /\ WF_fleetVars(Continued(c))

-----------------------------------------------------------------------------
(* Properties *)

(* With quitAfterSucc set (mMain.c:63) every device is simulated and the   *)
(* parent ends with all children reaped: no stop, no failed fork() and no  *)
(* drift of the count hangs it.                                            *)
QuitFleetFinishes ==
  quitAfterSucc =>
    <>(/\ ppc = "exit"
       /\ \A c \in Slots :
            proc[c] = "reaped" /\ life[c] \in {"served", "failed", "killed"})

(* As long as no child ends - and without quitAfterSucc no healthy child   *)
(* ever does - the fleet never gets beyond the limit (mMain.c:37-39): the  *)
(* wait for a child that does not exit blocks the fork loop, the other     *)
(* devices are not simulated and ok.txt is not written; and a smaller      *)
(* fleet leaves the parent in its final wait.                              *)
Healthy ==
  stopReports = 0 /\ \A c \in Slots : life[c] \in {"none", "session", "sleep"}

HealthyFleetWaits ==
  DevidNum > 0 /\ Healthy =>
    /\ i <= Limit
    /\ okTxt => DevidNum <= Limit
    /\ ppc # "exit"
=============================================================================
