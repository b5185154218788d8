----------------------------- MODULE FleetProofs ------------------------------
(***************************************************************************)
(* The parent, alone (Spawner.tla) and with children that run main()'s     *)
(* loop (Fleet.tla), for every number of devices, every limit and every    *)
(* number of stops.                                                        *)
(*                                                                         *)
(* The bookkeeping of main() is inductive only as a whole: what existChild *)
(* counts needs the order of the forks (a new child was not counted        *)
(* before), and the limit needs what existChild counts. The fleet          *)
(* implements the parent, so that all of it holds there; then what the     *)
(* life of a child and the bookkeeping have to do with each other.         *)
(***************************************************************************)
EXTENDS Fleet, FiniteSetTheorems, TLAPS

(* Where the index of the loop may be, at each place of main(). *)
IndexInv ==
  /\ ppc = "loop" => i \in 0 .. DevidNum
  /\ ppc \in {"limit", "fork"} => i \in 0 .. DevidNum - 1
  /\ ppc = "backoff" => i + 1 \in 0 .. DevidNum - 1
  /\ ~InForkLoop => i = DevidNum

(* After the last fork() pid is the last child's. *)
PidInv == DevidNum > 0 /\ i = DevidNum => pid = "pos"

(* main() counts no more children than it forked. *)
CountBound == InForkLoop => existChild <= (IF ppc = "backoff" THEN i + 1 ELSE i)

(* Before the first wait at the limit the count respects the limit, and is *)
(* below it when fork() is called.                                         *)
LimitInv ==
  /\ ppc = "limit" => existChild = Limit
  /\ limitReaps = 0 /\ stopReports = 0 =>
       /\ InForkLoop => existChild <= Limit
       /\ ppc \in {"fork", "backoff"} => existChild < Limit

(* ok.txt is written after the loop; the parent exits after its last wait, *)
(* or at once when it never had a device.                                  *)
EndInv ==
  /\ okTxt => ~InForkLoop
  /\ ppc = "exit" => Unreaped = {}
  /\ ppc = "simulate" => DevidNum = 0

IInv ==
  /\ TypeOK
  /\ IndexInv
  /\ PidInv
  /\ ForkedInOrder
  /\ CounterAccount
  /\ CountBound
  /\ LimitInv
  /\ LimitHoldsUntilFirstWait
  /\ EndInv

-----------------------------------------------------------------------------
(* The unreaped children are finitely many. *)
LEMMA UnreapedFinite ==
  /\ IsFiniteSet(Unreaped)
  /\ Cardinality(Unreaped) \in Nat
<1>1. IsFiniteSet(Slots)
  BY SpawnerAssumption, FS_Interval DEF Slots
<1>2. Unreaped \in SUBSET Slots
  BY DEF Unreaped
<1> QED
  BY <1>1, <1>2, FS_Subset, FS_CardinalityType

(* Reaping a zombie takes exactly one child off the unreaped ones. *)
LEMMA ReapCardinality ==
  ASSUME TypeOK, NEW c \in Slots, proc[c] = "zombie",
         proc' = [proc EXCEPT ![c] = "reaped"]
  PROVE  /\ Unreaped' = Unreaped \ {c}
         /\ Cardinality(Unreaped') = Cardinality(Unreaped) - 1
<1>1. c \in Unreaped
  BY DEF Unreaped
<1>2. Unreaped' = Unreaped \ {c}
  BY DEF Unreaped, Slots, TypeOK
<1> QED
  BY <1>1, <1>2, UnreapedFinite, FS_RemoveElement

(* A change of one child's state that neither forks nor reaps it keeps the *)
(* set of the unreaped children, and of the children that were forked.     *)
LEMMA SameUnreaped ==
  ASSUME TypeOK, NEW c \in Slots, NEW s \in ProcStates,
         proc[c] \notin {"unborn", "reaped"}, s \notin {"unborn", "reaped"},
         proc' = [proc EXCEPT ![c] = s]
  PROVE  /\ Unreaped' = Unreaped
         /\ \A d \in Slots : proc'[d] = "unborn" <=> proc[d] = "unborn"
  BY DEF Unreaped, Slots, TypeOK

(* The initial states satisfy the inductive invariant. *)
LEMMA InitIInv == Init => IInv
<1> SUFFICES ASSUME Init PROVE IInv
  OBVIOUS
<1>1. Unreaped = {}
  BY DEF Init, Unreaped
<1>2. Cardinality(Unreaped) = 0
  BY <1>1, FS_EmptySet
<1>3. TypeOK
  <2>1. i \in -1 .. DevidNum
    BY SpawnerAssumption DEF Init
  <2>2. proc \in [Slots -> ProcStates]
    BY DEF Init, ProcStates
  <2>3. ppc \in {"loop", "limit", "fork", "backoff", "announce", "drain",
                 "simulate", "exit"}
    BY DEF Init
  <2>4. existChild \in Int /\ limitReaps \in Nat /\ stopReports \in Nat
    BY DEF Init
  <2>5. pid \in {"neg", "zero", "pos"} /\ okTxt \in BOOLEAN
    BY DEF Init
  <2> QED
    BY <2>1, <2>2, <2>3, <2>4, <2>5 DEF TypeOK
<1>4. IndexInv /\ PidInv /\ ForkedInOrder
  BY SpawnerAssumption
  DEF Init, IndexInv, PidInv, ForkedInOrder, InForkLoop, Slots
<1>5. CounterAccount /\ CountBound /\ LimitInv /\ LimitHoldsUntilFirstWait /\ EndInv
  BY <1>1, <1>2, SpawnerAssumption
  DEF Init, CounterAccount, CountBound, LimitInv, LimitHoldsUntilFirstWait,
      EndInv, InForkLoop
<1> QED
  BY <1>3, <1>4, <1>5 DEF IInv

-----------------------------------------------------------------------------
(* A step of the reaping loop, of the wait at the limit or of the final    *)
(* wait that changes one child's state preserves the inductive invariant.  *)
LEMMA ReapOneIInv == IInv /\ ReapOne => IInv'
<1> SUFFICES ASSUME IInv, ReapOne PROVE IInv'
  OBVIOUS
<1> USE DEF IInv
<1>1. PICK c \in Slots :
        \/ /\ proc[c] = "zombie"
           /\ proc' = [proc EXCEPT ![c] = "reaped"]
           /\ UNCHANGED stopReports
        \/ /\ proc[c] = "stopped"
           /\ proc' = [proc EXCEPT ![c] = "suspended"]
           /\ stopReports' = stopReports + 1
  BY DEF ReapOne
<1>2. CASE /\ proc[c] = "zombie"
           /\ proc' = [proc EXCEPT ![c] = "reaped"]
           /\ UNCHANGED stopReports
  <2>1. Cardinality(Unreaped') = Cardinality(Unreaped) - 1
    BY <1>2, ReapCardinality
  <2>2. TypeOK'
    BY <1>2 DEF ReapOne, TypeOK, ProcStates
  <2>3. IndexInv' /\ PidInv'
    BY DEF ReapOne, IndexInv, PidInv, InForkLoop
  <2>4. ForkedInOrder'
    BY <1>2 DEF ReapOne, ForkedInOrder, TypeOK
  <2>5. CounterAccount' /\ LimitHoldsUntilFirstWait'
    BY <1>2, <2>1, UnreapedFinite, SpawnerAssumption
    DEF ReapOne, CounterAccount, LimitHoldsUntilFirstWait, InForkLoop, TypeOK
  <2>6. CountBound' /\ LimitInv' /\ EndInv'
    BY <1>2, SpawnerAssumption
    DEF ReapOne, CountBound, LimitInv, EndInv, InForkLoop, TypeOK
  <2> QED
    BY <2>2, <2>3, <2>4, <2>5, <2>6
<1>3. CASE /\ proc[c] = "stopped"
           /\ proc' = [proc EXCEPT ![c] = "suspended"]
           /\ stopReports' = stopReports + 1
  <2>1. /\ Unreaped' = Unreaped
        /\ \A d \in Slots : proc'[d] = "unborn" <=> proc[d] = "unborn"
    BY <1>3, SameUnreaped DEF ProcStates
  <2>2. TypeOK'
    BY <1>3 DEF ReapOne, TypeOK, ProcStates
  <2>3. IndexInv' /\ PidInv'
    BY DEF ReapOne, IndexInv, PidInv, InForkLoop
  <2>4. ForkedInOrder'
    BY <2>1 DEF ReapOne, ForkedInOrder
  <2>5. CounterAccount' /\ LimitHoldsUntilFirstWait'
    BY <1>3, <2>1, UnreapedFinite, SpawnerAssumption
    DEF ReapOne, CounterAccount, LimitHoldsUntilFirstWait, InForkLoop, TypeOK
  <2>6. CountBound' /\ LimitInv' /\ EndInv'
    BY <1>3, SpawnerAssumption
    DEF ReapOne, CountBound, LimitInv, EndInv, InForkLoop, TypeOK
  <2> QED
    BY <2>2, <2>3, <2>4, <2>5, <2>6
<1> QED
  BY <1>1, <1>2, <1>3

(* The wait at the limit: a wait that finds no child at all is impossible  *)
(* before the first reap, since the count is then the number of children.  *)
LEMMA LimitWaitIInv == IInv /\ LimitWait => IInv'
<1> SUFFICES ASSUME IInv, LimitWait PROVE IInv'
  OBVIOUS
<1> USE DEF IInv
<1>1. ASSUME NEW c \in Slots, proc[c] = "zombie",
             proc' = [proc EXCEPT ![c] = "reaped"],
             limitReaps' = limitReaps + 1
      PROVE  IInv'
  <2>1. Cardinality(Unreaped') = Cardinality(Unreaped) - 1
    BY <1>1, ReapCardinality
  <2>2. TypeOK'
    BY <1>1 DEF LimitWait, TypeOK, ProcStates
  <2>3. IndexInv' /\ PidInv'
    BY DEF LimitWait, IndexInv, PidInv, InForkLoop
  <2>4. ForkedInOrder'
    BY <1>1 DEF LimitWait, ForkedInOrder, TypeOK
  <2>5. CounterAccount' /\ LimitHoldsUntilFirstWait'
    BY <1>1, <2>1, UnreapedFinite
    DEF LimitWait, CounterAccount, LimitHoldsUntilFirstWait, InForkLoop, TypeOK
  <2>6. CountBound' /\ LimitInv' /\ EndInv'
    BY <1>1 DEF LimitWait, CountBound, LimitInv, EndInv, InForkLoop, TypeOK
  <2> QED
    BY <2>2, <2>3, <2>4, <2>5, <2>6
<1>2. ASSUME Unreaped = {}, UNCHANGED <<proc, limitReaps>>
      PROVE  IInv'
  <2>1. Unreaped' = Unreaped /\ Cardinality(Unreaped) = 0
    BY <1>2, FS_EmptySet DEF Unreaped
  <2>2. limitReaps # 0 \/ stopReports # 0
    BY <2>1, SpawnerAssumption
    DEF LimitWait, CounterAccount, LimitInv, InForkLoop, TypeOK
  <2>3. TypeOK' /\ IndexInv' /\ PidInv' /\ ForkedInOrder'
    BY <1>2
    DEF LimitWait, TypeOK, IndexInv, PidInv, ForkedInOrder, InForkLoop
  <2>4. CounterAccount' /\ CountBound' /\ LimitInv'
          /\ LimitHoldsUntilFirstWait' /\ EndInv'
    BY <1>2, <2>1, <2>2, SpawnerAssumption
    DEF LimitWait, CounterAccount, CountBound, LimitInv,
        LimitHoldsUntilFirstWait, EndInv, InForkLoop, TypeOK
  <2> QED
    BY <2>3, <2>4
<1> QED
  BY <1>1, <1>2 DEF LimitWait

(* A successful fork() adds exactly one child, the next one in order.      *)
LEMMA ForkOkIInv == IInv /\ ForkOk => IInv'
<1> SUFFICES ASSUME IInv, ForkOk PROVE IInv'
  OBVIOUS
<1> USE DEF IInv
<1>1. i \in Slots /\ i \in Int /\ proc[i] = "unborn"
  BY SpawnerAssumption DEF ForkOk, IndexInv, ForkedInOrder, Slots, TypeOK
<1>2. i \notin Unreaped /\ Unreaped' = Unreaped \cup {i}
  BY <1>1 DEF ForkOk, Unreaped, TypeOK, Slots
<1>3. Cardinality(Unreaped') = Cardinality(Unreaped) + 1
  BY <1>2, UnreapedFinite, FS_AddElement
<1>4. TypeOK'
  BY <1>1, SpawnerAssumption DEF ForkOk, TypeOK, ProcStates, Slots
<1>5. IndexInv' /\ PidInv'
  BY <1>1, SpawnerAssumption DEF ForkOk, IndexInv, PidInv, InForkLoop, Slots
<1>6. ForkedInOrder'
  BY <1>1, SpawnerAssumption DEF ForkOk, ForkedInOrder, TypeOK, Slots
<1>7. CounterAccount' /\ CountBound'
  BY <1>1, <1>3, UnreapedFinite
  DEF ForkOk, CounterAccount, CountBound, InForkLoop, TypeOK
<1>8. LimitInv' /\ LimitHoldsUntilFirstWait' /\ EndInv'
  BY <1>3, UnreapedFinite, SpawnerAssumption
  DEF ForkOk, CounterAccount, LimitInv, LimitHoldsUntilFirstWait, EndInv,
      InForkLoop, TypeOK
<1> QED
  BY <1>4, <1>5, <1>6, <1>7, <1>8

(* The steps of the parent that touch no child.                            *)
LEMMA ParentAloneIInv ==
  IInv /\ (ReapNone \/ ForkFail \/ Backoff \/ LoopDone \/ Announce) => IInv'
<1> SUFFICES ASSUME IInv, ReapNone \/ ForkFail \/ Backoff \/ LoopDone \/ Announce
             PROVE  IInv'
  OBVIOUS
<1> USE DEF IInv
<1>1. Unreaped' = Unreaped
  BY DEF ReapNone, ForkFail, Backoff, LoopDone, Announce, Unreaped
<1>2. CASE ReapNone
  BY <1>1, <1>2, SpawnerAssumption, UnreapedFinite
  DEF ReapNone, MoreDevids, TypeOK, IndexInv, PidInv, ForkedInOrder,
      CounterAccount, CountBound, LimitInv, LimitHoldsUntilFirstWait, EndInv,
      InForkLoop
<1>3. CASE ForkFail
  BY <1>1, <1>3, SpawnerAssumption, UnreapedFinite
  DEF ForkFail, TypeOK, IndexInv, PidInv, ForkedInOrder,
      CounterAccount, CountBound, LimitInv, LimitHoldsUntilFirstWait, EndInv,
      InForkLoop, Slots
<1>4. CASE Backoff
  BY <1>1, <1>4, SpawnerAssumption, UnreapedFinite
  DEF Backoff, TypeOK, IndexInv, PidInv, ForkedInOrder,
      CounterAccount, CountBound, LimitInv, LimitHoldsUntilFirstWait, EndInv,
      InForkLoop, Slots
<1>5. CASE LoopDone
  <2>1. i = DevidNum
    BY <1>5, SpawnerAssumption DEF LoopDone, MoreDevids, IndexInv
  <2>2. DevidNum = 0 => Unreaped = {}
    BY DEF Unreaped, Slots
  <2>3. DevidNum # 0 => ppc' = "announce"
    BY <1>5, <2>1, SpawnerAssumption DEF LoopDone, PidInv
  <2>4. ppc' \in {"announce", "simulate", "exit"}
    BY <1>5 DEF LoopDone, TypeOK
  <2>5. TypeOK' /\ IndexInv' /\ PidInv' /\ ForkedInOrder'
    BY <1>5, <2>1, <2>4
    DEF LoopDone, TypeOK, IndexInv, PidInv, ForkedInOrder, InForkLoop
  <2>6. CounterAccount' /\ CountBound' /\ LimitInv'
          /\ LimitHoldsUntilFirstWait' /\ EndInv'
    BY <1>1, <1>5, <2>2, <2>3, <2>4
    DEF LoopDone, CounterAccount, CountBound, LimitInv,
        LimitHoldsUntilFirstWait, EndInv, InForkLoop
  <2> QED
    BY <2>5, <2>6
<1>6. CASE Announce
  BY <1>1, <1>6
  DEF Announce, TypeOK, IndexInv, PidInv, ForkedInOrder,
      CounterAccount, CountBound, LimitInv, LimitHoldsUntilFirstWait, EndInv,
      InForkLoop
<1> QED
  BY <1>2, <1>3, <1>4, <1>5, <1>6

(* The final wait: the parent leaves it only when no child is left.        *)
LEMMA DrainIInv == IInv /\ Drain => IInv'
<1> SUFFICES ASSUME IInv, Drain PROVE IInv'
  OBVIOUS
<1> USE DEF IInv
<1>1. ASSUME NEW c \in Slots, proc[c] = "zombie",
             proc' = [proc EXCEPT ![c] = "reaped"], UNCHANGED ppc
      PROVE  IInv'
  <2>1. Cardinality(Unreaped') = Cardinality(Unreaped) - 1
    BY <1>1, ReapCardinality
  <2>2. TypeOK'
    BY <1>1 DEF Drain, TypeOK, ProcStates
  <2>3. ForkedInOrder'
    BY <1>1 DEF Drain, ForkedInOrder, TypeOK
  <2>4. LimitHoldsUntilFirstWait'
    BY <1>1, <2>1, UnreapedFinite, SpawnerAssumption
    DEF Drain, LimitHoldsUntilFirstWait
  <2>5. /\ IndexInv' /\ PidInv' /\ CounterAccount' /\ CountBound'
        /\ LimitInv' /\ EndInv'
    BY <1>1
    DEF Drain, IndexInv, PidInv, CounterAccount, CountBound, LimitInv, EndInv,
        InForkLoop
  <2> QED
    BY <2>2, <2>3, <2>4, <2>5
<1>2. ASSUME Unreaped = {}, ppc' = "exit", UNCHANGED proc
      PROVE  IInv'
  <2>1. Unreaped' = Unreaped
    BY <1>2 DEF Unreaped
  <2> QED
    BY <1>2, <2>1
    DEF Drain, TypeOK, IndexInv, PidInv, ForkedInOrder, CounterAccount,
        CountBound, LimitInv, LimitHoldsUntilFirstWait, EndInv, InForkLoop
<1> QED
  BY <1>1, <1>2 DEF Drain

(* The children's own steps never fork or reap anyone.                     *)
LEMMA ChildIInv ==
  ASSUME IInv, NEW c \in Slots, ChildExit(c) \/ ChildStop(c) \/ ChildContinue(c)
  PROVE  IInv'
<1> USE DEF IInv
<1>1. \E s \in {"running", "stopped", "zombie"} :
        proc' = [proc EXCEPT ![c] = s]
  BY DEF ChildExit, ChildStop, ChildContinue
<1>2. proc[c] \in {"running", "stopped", "suspended"}
  BY DEF ChildExit, ChildStop, ChildContinue
<1>3. UNCHANGED <<ppc, i, existChild, pid, okTxt, limitReaps, stopReports>>
  BY DEF ChildExit, ChildStop, ChildContinue
<1>4. /\ Unreaped' = Unreaped
      /\ \A d \in Slots : proc'[d] = "unborn" <=> proc[d] = "unborn"
  BY <1>1, <1>2, SameUnreaped DEF ProcStates
<1>5. TypeOK'
  BY <1>1, <1>3 DEF TypeOK, ProcStates
<1>6. ForkedInOrder'
  BY <1>3, <1>4 DEF ForkedInOrder
<1>7. /\ IndexInv' /\ PidInv' /\ CounterAccount' /\ CountBound' /\ LimitInv'
      /\ LimitHoldsUntilFirstWait' /\ EndInv'
  BY <1>3, <1>4
  DEF IndexInv, PidInv, CounterAccount, CountBound, LimitInv,
      LimitHoldsUntilFirstWait, EndInv, InForkLoop
<1> QED
  BY <1>5, <1>6, <1>7

(* Every step preserves the inductive invariant.                           *)
LEMMA NextIInv == IInv /\ [Next]_vars => IInv'
<1> SUFFICES ASSUME IInv, [Next]_vars PROVE IInv'
  OBVIOUS
<1>1. CASE Parent
  BY <1>1, ReapOneIInv, LimitWaitIInv, ForkOkIInv, ParentAloneIInv, DrainIInv
  DEF Parent
<1>2. ASSUME NEW c \in Slots, ChildExit(c) \/ ChildStop(c) \/ ChildContinue(c)
      PROVE  IInv'
  BY <1>2, ChildIInv
<1>3. CASE UNCHANGED vars
  <2>1. Unreaped' = Unreaped
    BY <1>3 DEF vars, Unreaped
  <2> QED
    BY <1>3, <2>1
    DEF vars, IInv, TypeOK, IndexInv, PidInv, ForkedInOrder, CounterAccount,
        CountBound, LimitInv, LimitHoldsUntilFirstWait, EndInv, InForkLoop
<1> QED
  BY <1>1, <1>2, <1>3 DEF Next, Terminated

(* The inductive invariant of main()'s fork loop and final wait.           *)
THEOREM SpawnerIInv == Spec => []IInv
BY InitIInv, NextIInv, PTL DEF Spec

-----------------------------------------------------------------------------
(* Type correctness of the parent's state, for every fleet.                *)
THEOREM SpawnerTypeOK == Spec => []TypeOK
<1>1. IInv => TypeOK
  BY DEF IInv
<1> QED
  BY <1>1, SpawnerIInv, PTL

(* existChild is the number of unreaped children, plus the children reaped *)
(* at the limit, minus the stops taken for exits (mMain.c:34-39).          *)
THEOREM SpawnerCounterAccount == Spec => []CounterAccount
<1>1. IInv => CounterAccount
  BY DEF IInv
<1> QED
  BY <1>1, SpawnerIInv, PTL

(* The children are forked in order, none twice, none skipped, however     *)
(* often fork() fails (mMain.c:40-49).                                     *)
THEOREM SpawnerForkedInOrder == Spec => []ForkedInOrder
<1>1. IInv => ForkedInOrder
  BY DEF IInv
<1> QED
  BY <1>1, SpawnerIInv, PTL

(* "all fork completed" is true when it is written, and a parent that      *)
(* exits leaves no child behind (mMain.c:51-55).                           *)
THEOREM SpawnerAllForkCompleted == Spec => []AllForkCompleted
<1>1. ASSUME IInv PROVE AllForkCompleted
  <2>1. ~InForkLoop => \A c \in Slots : proc[c] # "unborn"
    BY <1>1, SpawnerAssumption
    DEF IInv, IndexInv, ForkedInOrder, InForkLoop, Slots
  <2>2. ppc = "exit" => \A c \in Slots : proc[c] = "reaped"
    BY <1>1, <2>1 DEF IInv, EndInv, Unreaped, InForkLoop
  <2> QED
    BY <1>1, <2>1, <2>2 DEF IInv, EndInv, AllForkCompleted
<1> QED
  BY <1>1, SpawnerIInv, PTL

(* The limit holds until the first wait at the limit, whatever the limit.  *)
THEOREM SpawnerLimit == Spec => []LimitHoldsUntilFirstWait
<1>1. IInv => LimitHoldsUntilFirstWait
  BY DEF IInv
<1> QED
  BY <1>1, SpawnerIInv, PTL

(* With at least one device the parent is never taken for a child.         *)
THEOREM SpawnerParentIsParent == Spec => []ParentIsParent
<1>1. IInv => ParentIsParent
  BY SpawnerAssumption
  DEF IInv, ParentIsParent, IndexInv, PidInv, EndInv, InForkLoop
<1> QED
  BY <1>1, SpawnerIInv, PTL

-----------------------------------------------------------------------------
(* The fleet. *)

(* Every step of the fleet is one of its parent or a stutter.               *)
LEMMA FleetStep == [FleetNext]_fleetVars => [Next]_vars
<1> SUFFICES ASSUME [FleetNext]_fleetVars  PROVE [Next]_vars
  OBVIOUS
<1>1. CASE ParentStep
  BY <1>1 DEF ParentStep, Next
<1>2. ASSUME NEW c \in Slots,
             \/ SessionOver(c) \/ SessionFails(c) \/ WakeUp(c) \/ Killed(c)
             \/ Stopped(c) \/ Continued(c)
      PROVE  [Next]_vars
  BY <1>2 DEF SessionOver, SessionFails, WakeUp, Killed, Stopped, Continued, Next
<1>3. CASE FleetTerminated
  BY <1>3 DEF FleetTerminated, Next
<1>4. CASE UNCHANGED fleetVars
  BY <1>4 DEF fleetVars
<1> QED  BY <1>1, <1>2, <1>3, <1>4 DEF FleetNext

(* With children that run sessions, sleep, fail and are killed, main()     *)
(* does what Spawner.tla says of it.                                       *)
THEOREM FleetImplementsSpawner == FleetSpec => Spec
<1>1. FleetInit => Init
  BY DEF FleetInit
<1> QED  BY <1>1, FleetStep, PTL DEF FleetSpec, Spec

(* What Spawner's proofs rest on holds of the fleet.                        *)
THEOREM FleetIInv == FleetSpec => []IInv
BY FleetImplementsSpawner, SpawnerIInv, PTL

(* So the bookkeeping, the order of the forks, the end and the limits of   *)
(* main() are those of the parent alone (mMain.c:30-55), whatever the      *)
(* children do.                                                            *)
THEOREM FleetKeepsParent ==
  FleetSpec => []( /\ CounterAccount /\ ForkedInOrder /\ AllForkCompleted
                   /\ LimitHoldsUntilFirstWait /\ ParentIsParent)
BY FleetImplementsSpawner, SpawnerCounterAccount, SpawnerForkedInOrder,
   SpawnerAllForkCompleted, SpawnerLimit, SpawnerParentIsParent, PTL

-----------------------------------------------------------------------------
(* What a step of the parent does to a child. *)
LEMMA ParentOnChild ==
  ASSUME IInv, Parent, NEW c \in Slots
  PROVE  \/ proc'[c] = proc[c]
         \/ proc[c] = "unborn" /\ proc'[c] = "running"
         \/ proc[c] = "zombie" /\ proc'[c] = "reaped"
         \/ proc[c] = "stopped" /\ proc'[c] = "suspended"
<1> DEFINE Moved(d, old, new) ==
             proc[d] = old /\ proc' = [proc EXCEPT ![d] = new]
<1>1. /\ proc \in [Slots -> ProcStates]
      /\ ppc = "fork" => i \in Slots /\ proc[i] = "unborn"
  BY SpawnerAssumption DEF IInv, TypeOK, IndexInv, ForkedInOrder, Slots
<1>2. \/ UNCHANGED proc
      \/ \E d \in Slots : Moved(d, "zombie", "reaped")
      \/ \E d \in Slots : Moved(d, "stopped", "suspended")
      \/ \E d \in Slots : Moved(d, "unborn", "running")
  <2>1. CASE ReapOne
    BY <2>1 DEF ReapOne
  <2>2. CASE LimitWait \/ Drain
    BY <2>2 DEF LimitWait, Drain
  <2>3. CASE ForkOk
    BY <1>1, <2>3 DEF ForkOk
  <2>4. CASE ReapNone \/ ForkFail \/ Backoff \/ LoopDone \/ Announce
    BY <2>4 DEF ReapNone, ForkFail, Backoff, LoopDone, Announce
  <2> QED  BY <2>1, <2>2, <2>3, <2>4 DEF Parent
<1> QED  BY <1>1, <1>2

Plays == {"session", "sleep"}
Present == {"running", "stopped", "suspended"}

(* Nobody has been forked, nobody plays.                                    *)
LEMMA LifeInit == FleetInit => LifeMatchesProcess
BY DEF FleetInit, Init, LifeMatchesProcess

(* A child's life and its process change together.                          *)
LEMMA LifeNext ==
  IInv /\ LifeMatchesProcess /\ [FleetNext]_fleetVars => LifeMatchesProcess'
<1> SUFFICES ASSUME IInv, LifeMatchesProcess, [FleetNext]_fleetVars
             PROVE  LifeMatchesProcess'
  OBVIOUS
<1> USE DEF LifeMatchesProcess
<1>1. CASE ParentStep
  <2>1. \A c \in Slots :
          life'[c] = IF proc[c] = "unborn" /\ proc'[c] # "unborn"
                       THEN "session" ELSE life[c]
    BY <1>1 DEF ParentStep
  <2>2. /\ quitAfterSucc' = quitAfterSucc
        /\ life' \in [Slots -> {"none", "session", "sleep", "served", "failed",
                                "killed"}]
    BY <1>1 DEF ParentStep
  <2>3. ASSUME NEW c \in Slots
        PROVE  /\ life'[c] = "none" <=> proc'[c] = "unborn"
               /\ life'[c] \in Plays <=> proc'[c] \in Present
    BY <1>1, <2>1, <2>3, ParentOnChild DEF ParentStep, Plays, Present
  <2> QED  BY <2>2, <2>3 DEF Plays, Present
<1>2. ASSUME NEW c \in Slots, NEW state, NEW new \in ProcStates,
             proc \in [Slots -> ProcStates],
             proc[c] \in Present, proc' = [proc EXCEPT ![c] = new],
             life' = [life EXCEPT ![c] = state], UNCHANGED quitAfterSucc,
             \/ state \in Plays /\ new \in Present
             \/ state \in {"served", "failed", "killed"} /\ new = "zombie"
      PROVE  LifeMatchesProcess'
  BY <1>2 DEF Plays, Present
<1>3. ASSUME NEW c \in Slots,
             \/ SessionOver(c) \/ SessionFails(c) \/ WakeUp(c) \/ Killed(c)
             \/ Stopped(c) \/ Continued(c)
      PROVE  LifeMatchesProcess'
  <2>1. proc \in [Slots -> ProcStates]
    BY DEF IInv, TypeOK
  <2>2. proc = [proc EXCEPT ![c] = proc[c]] /\ life = [life EXCEPT ![c] = life[c]]
    BY <2>1
  <2>3. CASE SessionOver(c)
    <3>1. CASE quitAfterSucc
      BY <1>2, <2>1, <2>3, <3>1
      DEF SessionOver, ChildExit, Becomes, Present, Plays, ProcStates
    <3>2. CASE ~quitAfterSucc
      BY <1>2, <2>1, <2>2, <2>3, <3>2
      DEF SessionOver, Becomes, vars, Present, Plays, ProcStates
    <3> QED  BY <3>1, <3>2
  <2>4. CASE SessionFails(c)
    BY <1>2, <2>1, <2>4
    DEF SessionFails, ChildExit, Becomes, Present, Plays, ProcStates
  <2>5. CASE WakeUp(c)
    BY <1>2, <2>1, <2>2, <2>5
    DEF WakeUp, Becomes, vars, Present, Plays, ProcStates
  <2>6. CASE Killed(c)
    BY <1>2, <2>1, <2>6
    DEF Killed, ChildExit, Becomes, Present, Plays, ProcStates
  <2>7. CASE Stopped(c)
    BY <1>2, <2>1, <2>2, <2>7
    DEF Stopped, ChildStop, Present, Plays, ProcStates
  <2>8. CASE Continued(c)
    BY <1>2, <2>1, <2>2, <2>8
    DEF Continued, ChildContinue, Present, Plays, ProcStates
  <2> QED  BY <1>3, <2>3, <2>4, <2>5, <2>6, <2>7, <2>8
<1>4. CASE UNCHANGED fleetVars \/ FleetTerminated
  BY <1>4 DEF FleetTerminated, fleetVars, vars
<1> QED  BY <1>1, <1>3, <1>4 DEF FleetNext

(* A child has a process exactly while it plays its terminal.              *)
THEOREM FleetLife == FleetSpec => []LifeMatchesProcess
BY FleetIInv, LifeInit, LifeNext, PTL DEF FleetSpec

-----------------------------------------------------------------------------
(* In a healthy fleet no child was reaped, at the limit or elsewhere.      *)
NoReap == Healthy => limitReaps = 0

FleetInv == IInv /\ LifeMatchesProcess /\ NoReap

(* A child that ended stays ended. *)
LEMMA HealthyBefore ==
  ASSUME IInv, LifeMatchesProcess, [FleetNext]_fleetVars, Healthy'
  PROVE  Healthy
<1>1. stopReports = 0
  <2>1. stopReports \in Nat
    BY DEF IInv, TypeOK
  <2>2. stopReports' = stopReports \/ stopReports' = stopReports + 1
    <3>1. CASE UNCHANGED vars
      BY <3>1 DEF vars
    <3>2. CASE Parent
      BY <3>2 DEF Parent, ReapOne, ReapNone, LimitWait, ForkOk, ForkFail,
                  Backoff, LoopDone, Announce, Drain
    <3>3. ASSUME NEW c \in Slots, ChildExit(c) \/ ChildStop(c) \/ ChildContinue(c)
          PROVE  stopReports' = stopReports
      BY <3>3 DEF ChildExit, ChildStop, ChildContinue
    <3> QED  BY <3>1, <3>2, <3>3, FleetStep DEF Next, Terminated
  <2> QED  BY <2>1, <2>2 DEF Healthy
<1>2. ASSUME NEW c \in Slots  PROVE life[c] \in {"none", "session", "sleep"}
  <2>1. life'[c] \in {"none", "session", "sleep"}
    BY DEF Healthy
  <2>2. CASE ParentStep
    <3>1. life'[c] = IF proc[c] = "unborn" /\ proc'[c] # "unborn"
                       THEN "session" ELSE life[c]
      BY <2>2 DEF ParentStep
    <3> QED  BY <2>1, <3>1 DEF LifeMatchesProcess
  <2>3. ASSUME NEW d \in Slots, SessionOver(d) \/ SessionFails(d) \/ WakeUp(d)
        PROVE  life[c] \in {"none", "session", "sleep"}
    <3>1. life[d] \in {"session", "sleep"} /\ \E s : life' = [life EXCEPT ![d] = s]
      BY <2>3 DEF SessionOver, SessionFails, WakeUp, Becomes
    <3> QED  BY <2>1, <3>1 DEF LifeMatchesProcess
  <2>4. ASSUME NEW d \in Slots, Killed(d)
        PROVE  life[c] \in {"none", "session", "sleep"}
    <3>1. life'[d] = "killed"
      BY <2>4 DEF Killed, Becomes, LifeMatchesProcess
    <3> QED  BY <3>1 DEF Healthy
  <2>5. CASE UNCHANGED life
    BY <2>1, <2>5
  <2> QED
    BY <2>2, <2>3, <2>4, <2>5
    DEF FleetNext, fleetVars, Stopped, Continued, FleetTerminated
<1> QED  BY <1>1, <1>2 DEF Healthy

(* The children of a healthy fleet are those forked, all unreaped.         *)
LEMMA HealthyChildren ==
  ASSUME IInv, LifeMatchesProcess, Healthy
  PROVE  /\ \A c \in Slots : proc[c] \notin {"zombie", "reaped"}
         /\ LET n == IF ppc = "backoff" THEN i + 1 ELSE i
            IN  n \in Nat /\ Unreaped = 0 .. n - 1 /\ Cardinality(Unreaped) = n
<1> DEFINE n == IF ppc = "backoff" THEN i + 1 ELSE i
<1>1. \A c \in Slots : proc[c] \notin {"zombie", "reaped"}
  BY DEF Healthy, LifeMatchesProcess
<1>2. n \in 0 .. DevidNum
  BY SpawnerAssumption DEF IInv, IndexInv, InForkLoop, TypeOK
<1>3. \A c \in Slots : c \in Unreaped <=> c < n
  BY <1>1 DEF IInv, ForkedInOrder, Unreaped
<1>4. Unreaped = 0 .. n - 1
  BY <1>2, <1>3, SpawnerAssumption DEF Unreaped, Slots
<1>5. Cardinality(0 .. n - 1) = n
  BY <1>2, FS_Interval
<1> QED  BY <1>1, <1>2, <1>4, <1>5

(* While no child ends, the parent reaps none.                              *)
LEMMA NoReapNext ==
  FleetInv /\ [FleetNext]_fleetVars => NoReap'
<1> SUFFICES ASSUME FleetInv, [FleetNext]_fleetVars, Healthy'
             PROVE  limitReaps' = 0
  BY DEF NoReap
<1>1. limitReaps = 0 /\ \A c \in Slots : proc[c] # "zombie"
  BY HealthyBefore, HealthyChildren DEF FleetInv, NoReap
<1>2. CASE Parent
  BY <1>1, <1>2 DEF Parent, ReapOne, ReapNone, LimitWait, ForkOk, ForkFail,
                    Backoff, LoopDone, Announce, Drain
<1>3. ASSUME NEW c \in Slots, ChildExit(c) \/ ChildStop(c) \/ ChildContinue(c)
      PROVE  limitReaps' = 0
  BY <1>1, <1>3 DEF ChildExit, ChildStop, ChildContinue
<1>4. CASE UNCHANGED vars
  BY <1>1, <1>4 DEF vars
<1> QED  BY <1>2, <1>3, <1>4, FleetStep DEF Next, Terminated

(* The invariant of the fleet.                                              *)
THEOREM FleetInvAlways == FleetSpec => []FleetInv
<1>1. FleetInit => NoReap
  BY DEF FleetInit, Init, NoReap
<1>2. []IInv /\ []LifeMatchesProcess /\ NoReap /\ [][FleetNext]_fleetVars
        => []NoReap
  <2>1. IInv /\ LifeMatchesProcess /\ NoReap /\ [FleetNext]_fleetVars => NoReap'
    BY NoReapNext DEF FleetInv
  <2> QED  BY <2>1, PTL
<1> QED  BY <1>1, <1>2, FleetIInv, FleetLife, PTL DEF FleetSpec, FleetInv

(* As long as no child ends, a fleet beyond the limit is never forked to   *)
(* its end, and the parent of a smaller one never ends (mMain.c:37-39,     *)
(* 51-55).                                                                 *)
THEOREM FleetWaits == FleetSpec => []HealthyFleetWaits
<1>1. ASSUME FleetInv  PROVE HealthyFleetWaits
  <2> SUFFICES ASSUME Healthy, DevidNum > 0
               PROVE  /\ i <= Limit
                      /\ okTxt => DevidNum <= Limit
                      /\ ppc # "exit"
    BY DEF HealthyFleetWaits
  <2> DEFINE n == IF ppc = "backoff" THEN i + 1 ELSE i
  <2>1. n \in Nat /\ Unreaped = 0 .. n - 1 /\ Cardinality(Unreaped) = n
    BY <1>1, HealthyChildren DEF FleetInv
  <2>2. n <= Limit
    BY <1>1, <2>1
    DEF FleetInv, IInv, NoReap, Healthy, LimitHoldsUntilFirstWait
  <2>3. i <= Limit
    BY <1>1, <2>1, <2>2, SpawnerAssumption DEF FleetInv, IInv, TypeOK
  <2>4. okTxt => DevidNum <= Limit
    BY <1>1, <2>3 DEF FleetInv, IInv, EndInv, IndexInv
  <2>5. ppc # "exit"
    <3>1. SUFFICES ASSUME ppc = "exit"  PROVE FALSE
      OBVIOUS
    <3>2. n = DevidNum /\ Unreaped = {}
      BY <1>1, <3>1 DEF FleetInv, IInv, EndInv, IndexInv, InForkLoop
    <3> QED  BY <2>1, <3>2, SpawnerAssumption
  <2> QED  BY <2>3, <2>4, <2>5
<1> QED  BY <1>1, FleetInvAlways, PTL
=============================================================================
