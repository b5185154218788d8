--------------------------------- MODULE Log ---------------------------------
(***************************************************************************)
(* ts.log: all the children append to it through stdio, one open stream    *)
(* per record (LogStr, LogData, LogState of mLog.c). fwrite() collects     *)
(* what it is given in the stream's buffer and writes the buffer out when  *)
(* the next piece does not fit; fclose() writes the rest. A write to a     *)
(* file opened with "a" goes to its end in one step, whoever else writes.  *)
(* A child may be killed at any time; its buffer is lost with it.          *)
(***************************************************************************)
EXTENDS Integers, Sequences

CONSTANTS
  Children,
  Lengths,   \* of the records, in units of the text
  Cap,       \* what the buffer of a stream holds (st_blksize)
  MaxRecs    \* bound: the records of a child

ASSUME LogAssumption ==
  /\ Lengths \subseteq Nat \ {0}
  /\ Cap \in Nat \ {0}
  /\ MaxRecs \in Nat

VARIABLES
  log,      \* ts.log
  state,    \* "idle", "writing" between fopen() and fclose(), "dead"
  records,  \* history: the lengths of the records of each child so far
  done,     \* how much of its latest record a child has given to fwrite()
  buffer    \* the buffer of its stream

vars == <<log, state, records, done, buffer>>

Unit(c, r, k) == [child |-> c, rec |-> r, pos |-> k]
Units == [child : Children, rec : Nat, pos : Nat]

TypeOK ==
  /\ log \in Seq(Units)
  /\ state \in [Children -> {"idle", "writing", "dead"}]
  /\ records \in [Children -> Seq(Lengths)]
  /\ done \in [Children -> Nat]
  /\ buffer \in [Children -> Seq(Units)]
  /\ \A c \in Children : Len(buffer[c]) <= Cap

Init ==
  /\ log = <<>>
  /\ state = [c \in Children |-> "idle"]
  /\ records = [c \in Children |-> <<>>]
  /\ done = [c \in Children |-> 0]
  /\ buffer = [c \in Children |-> <<>>]

(* fopen(); when it fails the record is left out and nothing else happens. *)
Open(c, len) ==
  /\ state[c] = "idle"
  /\ Len(records[c]) < MaxRecs
  /\ state' = [state EXCEPT ![c] = "writing"]
  /\ records' = [records EXCEPT ![c] = Append(@, len)]
  /\ done' = [done EXCEPT ![c] = 0]
  /\ UNCHANGED <<log, buffer>>

Length(c) == records[c][Len(records[c])]
NextUnit(c) == Unit(c, Len(records[c]), done[c] + 1)

(* Mutated form; no specification uses it: every piece is written out at   *)
(* once.                                                                   *)
PutUnbuffered(c) ==
  /\ state[c] = "writing"
  /\ done[c] < Length(c)
  /\ done' = [done EXCEPT ![c] = @ + 1]
  /\ log' = Append(log, NextUnit(c))
  /\ UNCHANGED <<state, records, buffer>>

(* fwrite(), unit by unit. *)
Put(c) ==
  /\ state[c] = "writing"
  /\ done[c] < Length(c)
  /\ done' = [done EXCEPT ![c] = @ + 1]
  /\ IF Len(buffer[c]) < Cap
       THEN /\ buffer' = [buffer EXCEPT ![c] = Append(@, NextUnit(c))]
            /\ UNCHANGED log
       ELSE /\ buffer' = [buffer EXCEPT ![c] = <<NextUnit(c)>>]
            /\ log' = log \o buffer[c]
  /\ UNCHANGED <<state, records>>

(* Mutated form; no specification uses it: no fclose() at the end. *)
CloseMissing(c) ==
  /\ state[c] = "writing"
  /\ done[c] = Length(c)
  /\ buffer' = [buffer EXCEPT ![c] = <<>>]
  /\ state' = [state EXCEPT ![c] = "idle"]
  /\ UNCHANGED <<log, records, done>>

Close(c) ==
  /\ state[c] = "writing"
  /\ done[c] = Length(c)
  /\ log' = log \o buffer[c]
  /\ buffer' = [buffer EXCEPT ![c] = <<>>]
  /\ state' = [state EXCEPT ![c] = "idle"]
  /\ UNCHANGED <<records, done>>

Die(c) ==
  /\ state[c] # "dead"
  /\ state' = [state EXCEPT ![c] = "dead"]
  /\ buffer' = [buffer EXCEPT ![c] = <<>>]
  /\ UNCHANGED <<log, records, done>>

Terminated ==
  /\ \A c \in Children :
       \/ state[c] = "dead"
       \/ state[c] = "idle" /\ Len(records[c]) = MaxRecs
  /\ UNCHANGED vars

Next ==
  \/ \E c \in Children :
       \/ \E len \in Lengths : Open(c, len)
       \/ Put(c) \/ Close(c) \/ Die(c)
  \/ Terminated

Spec == Init /\ [][Next]_vars

-----------------------------------------------------------------------------
(* Properties *)

Before(u, v) ==
  /\ u.child = v.child
  /\ \/ u.rec < v.rec
     \/ u.rec = v.rec /\ u.pos < v.pos

(* What a child has given to fwrite() so far. *)
Given(c) ==
  UNION {{Unit(c, r, k) :
            k \in 1 .. IF r = Len(records[c]) THEN done[c] ELSE records[c][r]} :
         r \in DOMAIN records[c]}

InLog == {log[j] : j \in DOMAIN log}
InBuffer(c) == {buffer[c][j] : j \in DOMAIN buffer[c]}

(* Whatever the other children append in between (mLog.c:91-119): what a   *)
(* child logged is in ts.log once and in its order; nothing is missing but *)
(* what is still in its buffer, and what a killed child leaves out is the  *)
(* end of its text.                                                        *)
LogKeepsRecords ==
  /\ \A j, k \in DOMAIN log :
       j < k /\ log[j].child = log[k].child => Before(log[j], log[k])
  /\ \A c \in Children :
       /\ state[c] # "dead" => Given(c) \subseteq InLog \cup InBuffer(c)
       /\ \A u \in Given(c), v \in InLog : Before(u, v) => u \in InLog

(* A record that fits the buffer is in ts.log as a whole and in one piece, *)
(* or not at all: no other child's text comes between its parts            *)
(* (LogStr, LogState, and LogData of short packages).                      *)
ShortRecordsWhole ==
  \A j \in DOMAIN log :
    LET u   == log[j]
        len == records[u.child][u.rec]
    IN  len <= Cap =>
          \A k \in 1 .. len :
            /\ j - u.pos + k \in DOMAIN log
            /\ log[j - u.pos + k] = Unit(u.child, u.rec, k)

(* A longer one (LogData of a configuration or of many screens) may be     *)
(* torn, by another child or by a kill, but only where the buffer was full.*)
TornAtFullBuffers ==
  \A j \in DOMAIN log :
    LET u == log[j]
    IN  u.pos < records[u.child][u.rec] /\ u.pos % Cap # 0 =>
          /\ j < Len(log)
          /\ log[j + 1] = Unit(u.child, u.rec, u.pos + 1)
=============================================================================
