------------------------------- MODULE Spawner -------------------------------
(***************************************************************************)
(* The parent process of mMain.c: main() forks one child per device, keeps *)
(* a count of the children it believes to be alive, waits for one of them  *)
(* when the count is at the limit, and at the end waits for all of them.   *)
(* The children are the kernel's view of the forked processes: they run,   *)
(* they may be stopped and continued by a signal, they exit.               *)
(***************************************************************************)
EXTENDS Integers, FiniteSets

CONSTANTS
  DevidNum,   \* argDev.devidNum, the number of terminals to simulate
  Limit,      \* ALLOW_EXIST_CHILD_NUM (100 in the source)
  MaxStops    \* bound: how many times a signal may stop a child

ASSUME SpawnerAssumption ==
  /\ DevidNum \in Nat
  /\ Limit \in Nat \ {0}
  /\ MaxStops \in Nat

VARIABLES
  ppc,          \* where the parent is in main()
  i,            \* the index of the for loop
  existChild,   \* the parent's count of existing children
  pid,          \* the sign of the last value stored in pid
  proc,         \* the kernel's state of the child of each device
  okTxt,        \* ok.txt has been written
  limitReaps,   \* history: children reaped while waiting at the limit
  stopReports   \* history: stops (not exits) that waitpid reported

vars == <<ppc, i, existChild, pid, proc, okTxt, limitReaps, stopReports>>

(* A child is identified by its index in argDev.devidArray. *)
Slots == 0 .. DevidNum - 1

(* "stopped" is a stop that waitpid has not reported yet, "suspended" one  *)
(* that it has; a "zombie" has exited and is not waited for yet.           *)
ProcStates ==
  {"unborn", "running", "stopped", "suspended", "zombie", "reaped"}

Unreaped == {c \in Slots : proc[c] \notin {"unborn", "reaped"}}

TypeOK ==
  /\ ppc \in {"loop", "limit", "fork", "backoff", "announce", "drain",
              "simulate", "exit"}
  /\ i \in -1 .. DevidNum
  /\ existChild \in Int
  /\ pid \in {"neg", "zero", "pos"}
  /\ proc \in [Slots -> ProcStates]
  /\ okTxt \in BOOLEAN
  /\ limitReaps \in Nat
  /\ stopReports \in Nat

(* pid is a local variable that only fork() assigns: before the first call *)
(* it holds whatever the stack held.                                       *)
Init ==
  /\ ppc = "loop"
  /\ i = 0
  /\ existChild = 0
  /\ pid \in {"neg", "zero", "pos"}
  /\ proc = [c \in Slots |-> "unborn"]
  /\ okTxt = FALSE
  /\ limitReaps = 0
  /\ stopReports = 0

-----------------------------------------------------------------------------
(* Mutated forms of the definitions below; no specification uses them.     *)

ForkFailNoRetry ==
  /\ ppc = "fork"
  /\ pid' = "neg"
  /\ ppc' = "backoff"
  /\ UNCHANGED <<i, existChild, proc, okTxt, limitReaps, stopReports>>

ForkNotCounted ==
  /\ ppc = "fork"
  /\ proc' = [proc EXCEPT ![i] = "running"]
  /\ pid' = "pos"
  /\ i' = i + 1
  /\ ppc' = "loop"
  /\ UNCHANGED <<existChild, okTxt, limitReaps, stopReports>>

DrainOneOnly ==
  /\ ppc = "drain"
  /\ \/ \E c \in Slots :
           /\ proc[c] = "zombie"
           /\ proc' = [proc EXCEPT ![c] = "reaped"]
     \/ Unreaped = {} /\ UNCHANGED proc
  /\ ppc' = "exit"
  /\ UNCHANGED <<i, existChild, pid, okTxt, limitReaps, stopReports>>

-----------------------------------------------------------------------------
(* The parent. *)

(* The condition of the for loop. *)
MoreDevids == i < DevidNum

(* One turn of the reaping loop: waitpid(-1, NULL, WNOHANG | WUNTRACED)    *)
(* returns a child, one that exited or one that was stopped, and either    *)
(* way the count goes down.                                                *)
ReapOne ==
  /\ ppc = "loop"
  /\ MoreDevids
  /\ existChild' = existChild - 1
  /\ \E c \in Slots :
       \/ /\ proc[c] = "zombie"
          /\ proc' = [proc EXCEPT ![c] = "reaped"]
          /\ UNCHANGED stopReports
       \/ /\ proc[c] = "stopped"
          /\ proc' = [proc EXCEPT ![c] = "suspended"]
          /\ stopReports' = stopReports + 1
  /\ UNCHANGED <<ppc, i, pid, okTxt, limitReaps>>

(* The reaping loop ends: waitpid has nothing to report. The parent goes   *)
(* on to the blocking wait exactly when the count equals the limit.        *)
ReapNone ==
  /\ ppc = "loop"
  /\ MoreDevids
  /\ \A c \in Slots : proc[c] \notin {"zombie", "stopped"}
  /\ ppc' = IF existChild = Limit THEN "limit" ELSE "fork"
  /\ UNCHANGED <<i, existChild, pid, proc, okTxt, limitReaps, stopReports>>

(* "must wait for one child exit": waitpid(-1, NULL, 0) reaps one child,   *)
(* or fails at once when there is none. The count is not adjusted.         *)
LimitWait ==
  /\ ppc = "limit"
  /\ \/ \E c \in Slots :
          /\ proc[c] = "zombie"
          /\ proc' = [proc EXCEPT ![c] = "reaped"]
          /\ limitReaps' = limitReaps + 1
     \/ /\ Unreaped = {}
        /\ UNCHANGED <<proc, limitReaps>>
  /\ ppc' = "fork"
  /\ UNCHANGED <<i, existChild, pid, okTxt, stopReports>>

ForkOk ==
  /\ ppc = "fork"
  /\ proc' = [proc EXCEPT ![i] = "running"]
  /\ pid' = "pos"
  /\ existChild' = existChild + 1
  /\ i' = i + 1
  /\ ppc' = "loop"
  /\ UNCHANGED <<okTxt, limitReaps, stopReports>>

(* fork() returned -1: the index steps back, the parent sleeps 2 seconds.  *)
ForkFail ==
  /\ ppc = "fork"
  /\ pid' = "neg"
  /\ i' = i - 1
  /\ ppc' = "backoff"
  /\ UNCHANGED <<existChild, proc, okTxt, limitReaps, stopReports>>

(* continue: the for loop's increment brings the index back.               *)
Backoff ==
  /\ ppc = "backoff"
  /\ i' = i + 1
  /\ ppc' = "loop"
  /\ UNCHANGED <<existChild, pid, proc, okTxt, limitReaps, stopReports>>

(* After the loop main() tests pid to tell the parent from a child.        *)
LoopDone ==
  /\ ppc = "loop"
  /\ ~MoreDevids
  /\ ppc' = CASE pid = "pos"  -> "announce"
              [] pid = "zero" -> "simulate"
              [] pid = "neg"  -> "exit"
  /\ UNCHANGED <<i, existChild, pid, proc, okTxt, limitReaps, stopReports>>

(* system("echo 'all fork completed' > ok.txt"); its failure is ignored.   *)
Announce ==
  /\ ppc = "announce"
  /\ okTxt' \in BOOLEAN
  /\ ppc' = "drain"
  /\ UNCHANGED <<i, existChild, pid, proc, limitReaps, stopReports>>

(* while(waitpid(-1, NULL, 0) > 0): reap whichever child has exited, end   *)
(* when no child is left.                                                  *)
Drain ==
  /\ ppc = "drain"
  /\ \/ \E c \in Slots :
          /\ proc[c] = "zombie"
          /\ proc' = [proc EXCEPT ![c] = "reaped"]
          /\ UNCHANGED ppc
     \/ /\ Unreaped = {}
        /\ ppc' = "exit"
        /\ UNCHANGED proc
  /\ UNCHANGED <<i, existChild, pid, okTxt, limitReaps, stopReports>>

Parent ==
  \/ ReapOne \/ ReapNone \/ LimitWait \/ ForkOk \/ ForkFail \/ Backoff
  \/ LoopDone \/ Announce \/ Drain

-----------------------------------------------------------------------------
(* The children, as the kernel shows them to the parent.                   *)

(* A child leaves main(), or a signal kills it, stopped or not.            *)
ChildExit(c) ==
  /\ proc[c] \in {"running", "stopped", "suspended"}
  /\ proc' = [proc EXCEPT ![c] = "zombie"]
  /\ UNCHANGED <<ppc, i, existChild, pid, okTxt, limitReaps, stopReports>>

Stops == stopReports + Cardinality({c \in Slots : proc[c] = "stopped"})

ChildStop(c) ==
  /\ proc[c] = "running"
  /\ Stops < MaxStops
  /\ proc' = [proc EXCEPT ![c] = "stopped"]
  /\ UNCHANGED <<ppc, i, existChild, pid, okTxt, limitReaps, stopReports>>

(* SIGCONT; a stop that was not reported yet no longer will be.            *)
ChildContinue(c) ==
  /\ proc[c] \in {"stopped", "suspended"}
  /\ proc' = [proc EXCEPT ![c] = "running"]
  /\ UNCHANGED <<ppc, i, existChild, pid, okTxt, limitReaps, stopReports>>

(* The parent is done with its own work and so are all its children.       *)
Terminated ==
  /\ ppc \in {"exit", "simulate"}
  /\ UNCHANGED vars

Next ==
  \/ Parent
  \/ \E c \in Slots : ChildExit(c) \/ ChildStop(c) \/ ChildContinue(c)
  \/ Terminated

Spec == Init /\ [][Next]_vars

-----------------------------------------------------------------------------
(* Properties *)

InForkLoop == ppc \in {"loop", "limit", "fork", "backoff"}

(* What existChild really counts while children are being forked: the      *)
(* unreaped children, plus every child reaped by the wait at the limit     *)
(* (mMain.c:38 does not decrement), minus every stop that the WUNTRACED    *)
(* reaping loop took for an exit (mMain.c:34).                             *)
CounterAccount ==
  InForkLoop =>
    existChild = Cardinality(Unreaped) + limitReaps - stopReports

(* The children are forked in the order of devidArray, none twice, and a   *)
(* failed fork() skips none: the step back of the index (mMain.c:42) meets *)
(* the loop's increment.                                                   *)
ForkedInOrder ==
  \A c \in Slots :
    proc[c] # "unborn" <=> c < (IF ppc = "backoff" THEN i + 1 ELSE i)

(* ok.txt says that all forks are completed: then every device has had its *)
(* child. And a parent that exits leaves no child behind, running or       *)
(* zombie (mMain.c:51-55).                                                 *)
AllForkCompleted ==
  /\ okTxt => \A c \in Slots : proc[c] # "unborn"
  /\ ppc = "exit" => \A c \in Slots : proc[c] = "reaped"

(* Until the first wait at the limit, and as long as no stop was taken for *)
(* an exit, the limit on existing children does hold.                      *)
LimitHoldsUntilFirstWait ==
  limitReaps = 0 /\ stopReports = 0 => Cardinality(Unreaped) <= Limit

(* With at least one device the parent never falls into the branch of a    *)
(* child, and does not skip its own final wait: pid holds the result of a  *)
(* successful fork() when the loop ends.                                   *)
ParentIsParent ==
  DevidNum > 0 =>
    /\ ppc # "simulate"
    /\ ppc \in {"announce", "drain", "exit"} => pid = "pos"

(* What the comment at mMain.c:38 ("must wait for one child exit") and the *)
(* name ALLOW_EXIST_CHILD_NUM claim: no more children exist than allowed.  *)
AtMostLimit == Cardinality(Unreaped) <= Limit
=============================================================================
