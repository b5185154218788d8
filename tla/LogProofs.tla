------------------------------ MODULE LogProofs ------------------------------
(***************************************************************************)
(* What ts.log keeps of the records of any number of children, of any      *)
(* lengths, for any size of stdio's buffer.                                *)
(***************************************************************************)
EXTENDS Log, SequenceTheorems, TLAPS

(* How much of its latest record a child has written out; the rest of what *)
(* it has given to fwrite() is in the buffer.                              *)
Flushed(c) == done[c] - Len(buffer[c])

ChildInv(c) ==
  /\ records[c] = <<>> => done[c] = 0 /\ state[c] # "writing"
  /\ records[c] # <<>> => done[c] <= Length(c)
  /\ records[c] # <<>> /\ state[c] = "idle" => done[c] = Length(c)
  /\ state[c] # "writing" => buffer[c] = <<>>
  /\ Len(buffer[c]) <= done[c] /\ Len(buffer[c]) <= Cap
  /\ \A m \in 1 .. Len(buffer[c]) :
       buffer[c][m] = Unit(c, Len(records[c]), Flushed(c) + m)
  /\ state[c] = "writing" /\ Flushed(c) > 0 => Length(c) > Cap

(* What is in the log was written out.                                     *)
WasWritten(u) ==
  /\ u.child \in Children
  /\ u.rec \in 1 .. Len(records[u.child])
  /\ u.pos \in 1 .. records[u.child][u.rec]
  /\ u.rec = Len(records[u.child]) => u.pos <= Flushed(u.child)

PlaceInv == \A j \in 1 .. Len(log) : WasWritten(log[j])

Order ==
  \A j, k \in 1 .. Len(log) :
    j < k /\ log[j].child = log[k].child => Before(log[j], log[k])

(* What a living child has written out is in the log.                      *)
Complete(c) ==
  \A r \in 1 .. Len(records[c]) : \A k \in 1 .. records[c][r] :
    (r = Len(records[c]) => k <= Flushed(c))
      => \E j \in 1 .. Len(log) : log[j] = Unit(c, r, k)

(* What a child gave to fwrite() before something in the log is there.     *)
Closed(c) ==
  \A r \in 1 .. Len(records[c]) : \A k \in 1 .. records[c][r] :
    \A n \in 1 .. Len(log) :
      log[n].child = c /\ Before(Unit(c, r, k), log[n])
        => \E j \in 1 .. Len(log) : log[j] = Unit(c, r, k)

IInv ==
  /\ TypeOK
  /\ \A c \in Children : ChildInv(c)
  /\ PlaceInv
  /\ Order
  /\ \A c \in Children : IF state[c] = "dead" THEN Closed(c) ELSE Complete(c)

-----------------------------------------------------------------------------
LEMMA TypeInit == Init => TypeOK
BY LogAssumption DEF Init, TypeOK

LEMMA UnitType ==
  ASSUME NEW c \in Children, NEW r \in Nat, NEW k \in Nat
  PROVE  /\ Unit(c, r, k) \in Units
         /\ Unit(c, r, k).child = c
         /\ Unit(c, r, k).rec = r
         /\ Unit(c, r, k).pos = k
BY DEF Unit, Units

LEMMA UnitFields ==
  ASSUME NEW c, NEW r, NEW k
  PROVE  Unit(c, r, k).child = c /\ Unit(c, r, k).rec = r /\ Unit(c, r, k).pos = k
BY DEF Unit

(* Facts of the types, in the form the steps use them.                     *)
LEMMA Types ==
  ASSUME TypeOK, NEW c \in Children
  PROVE  /\ log \in Seq(Units) /\ Len(log) \in Nat
         /\ buffer[c] \in Seq(Units) /\ Len(buffer[c]) \in Nat
         /\ records[c] \in Seq(Lengths) /\ Len(records[c]) \in Nat
         /\ \A r \in 1 .. Len(records[c]) : records[c][r] \in Nat \ {0}
         /\ records[c] # <<>> => /\ Len(records[c]) \in 1 .. Len(records[c])
                                 /\ Length(c) \in Nat \ {0}
         /\ done[c] \in Nat
         /\ Flushed(c) \in Int
<1>1. /\ log \in Seq(Units) /\ buffer[c] \in Seq(Units)
      /\ records[c] \in Seq(Lengths) /\ done[c] \in Nat
  BY DEF TypeOK
<1>2. Len(log) \in Nat /\ Len(buffer[c]) \in Nat /\ Len(records[c]) \in Nat
  BY <1>1
<1>3. \A r \in 1 .. Len(records[c]) : records[c][r] \in Nat \ {0}
  <2>1. \A r \in 1 .. Len(records[c]) : records[c][r] \in Lengths
    BY <1>1, ElementOfSeq
  <2> QED  BY <2>1, LogAssumption
<1>4. records[c] # <<>> => Len(records[c]) \in 1 .. Len(records[c])
  BY <1>1, EmptySeq
<1> QED  BY <1>1, <1>2, <1>3, <1>4 DEF Length, Flushed

LEMMA PutType ==
  ASSUME TypeOK, NEW c \in Children, Put(c)
  PROVE  TypeOK'
<1> DEFINE unit == NextUnit(c)
           old  == buffer[c]
<1>1. unit \in Units
  BY Types, UnitType DEF NextUnit
<1>2. old \in Seq(Units) /\ Len(old) \in Nat /\ Cap \in Nat \ {0} /\ log \in Seq(Units)
  BY Types, LogAssumption
<1>3. Append(old, unit) \in Seq(Units) /\ Len(Append(old, unit)) = Len(old) + 1
  BY <1>1, <1>2
<1>4. <<unit>> \in Seq(Units) /\ Len(<<unit>>) = 1
  BY <1>1
<1>5. log \o old \in Seq(Units)
  BY <1>2
<1>6. done' \in [Children -> Nat] /\ state' = state /\ records' = records
  BY DEF Put, TypeOK
<1>7. PICK new \in Seq(Units) :
        Len(new) <= Cap /\ buffer' = [buffer EXCEPT ![c] = new]
  <2>1. CASE Len(old) < Cap
    <3> HIDE DEF unit
    <3>1. Len(Append(old, unit)) <= Cap
      BY <1>2, <1>3, <2>1
    <3>2. buffer' = [buffer EXCEPT ![c] = Append(old, unit)]
      BY <2>1 DEF Put, unit
    <3> QED  BY <1>3, <3>1, <3>2
  <2>2. CASE ~(Len(old) < Cap)
    <3> HIDE DEF unit
    <3>1. Len(<<unit>>) <= Cap
      BY <1>2, <1>4
    <3>2. buffer' = [buffer EXCEPT ![c] = <<unit>>]
      BY <2>2 DEF Put, unit
    <3> QED  BY <1>4, <3>1, <3>2
  <2> QED  BY <2>1, <2>2
<1>8. log' \in Seq(Units)
  BY <1>2, <1>5 DEF Put
<1>9. buffer' \in [Children -> Seq(Units)] /\ \A d \in Children : Len(buffer'[d]) <= Cap
  BY <1>7 DEF TypeOK
<1> QED  BY <1>6, <1>8, <1>9 DEF TypeOK

LEMMA TypeNext == TypeOK /\ [Next]_vars => TypeOK'
<1> SUFFICES ASSUME TypeOK, [Next]_vars  PROVE TypeOK'
  OBVIOUS
<1>1. ASSUME NEW c \in Children, NEW len \in Lengths, Open(c, len)  PROVE TypeOK'
  <2>1. Append(records[c], len) \in Seq(Lengths)
    BY Types
  <2> QED  BY <1>1, <2>1 DEF Open, TypeOK
<1>2. ASSUME NEW c \in Children, Close(c)  PROVE TypeOK'
  <2>1. log \o buffer[c] \in Seq(Units) /\ <<>> \in Seq(Units) /\ Len(<<>>) <= Cap
    BY Types, LogAssumption
  <2> QED  BY <1>2, <2>1 DEF Close, TypeOK
<1>3. ASSUME NEW c \in Children, Die(c)  PROVE TypeOK'
  <2>1. <<>> \in Seq(Units) /\ Len(<<>>) <= Cap
    BY LogAssumption
  <2> QED  BY <1>3, <2>1 DEF Die, TypeOK
<1>4. CASE UNCHANGED vars
  BY <1>4 DEF vars, TypeOK
<1> QED  BY <1>1, <1>2, <1>3, <1>4, PutType DEF Next, Terminated

(* Type correctness (LogStr, LogData, LogState).                           *)
THEOREM LogTypeOK == Spec => []TypeOK
BY TypeInit, TypeNext, PTL DEF Spec
-----------------------------------------------------------------------------
(* A child that does not take the step. *)
LEMMA Untouched ==
  ASSUME NEW d \in Children, ChildInv(d),
         state'[d] = state[d], records'[d] = records[d],
         done'[d] = done[d], buffer'[d] = buffer[d]
  PROVE  ChildInv(d)' /\ Flushed(d)' = Flushed(d) /\ Length(d)' = Length(d)
BY DEF ChildInv, Flushed, Length

LEMMA OthersUntouched ==
  ASSUME TypeOK, NEW c \in Children, NEW d \in Children, d # c,
         \/ \E len \in Lengths : Open(c, len)
         \/ Put(c) \/ Close(c) \/ Die(c)
  PROVE  /\ state'[d] = state[d] /\ records'[d] = records[d]
         /\ done'[d] = done[d] /\ buffer'[d] = buffer[d]
<1>1. CASE \E len \in Lengths : Open(c, len)
  BY <1>1 DEF TypeOK, Open
<1>2. CASE Put(c)
  <2>1. state'[d] = state[d] /\ records'[d] = records[d] /\ done'[d] = done[d]
    BY <1>2 DEF TypeOK, Put
  <2>2. CASE Len(buffer[c]) < Cap
    BY <1>2, <2>1, <2>2 DEF TypeOK, Put
  <2>3. CASE ~(Len(buffer[c]) < Cap)
    BY <1>2, <2>1, <2>3 DEF TypeOK, Put
  <2> QED  BY <2>2, <2>3
<1>3. CASE Close(c)
  BY <1>3 DEF TypeOK, Close
<1>4. CASE Die(c)
  BY <1>4 DEF TypeOK, Die
<1> QED  BY <1>1, <1>2, <1>3, <1>4

(* fopen() begins a record with an empty buffer. *)
LEMMA OpenFacts ==
  ASSUME TypeOK, NEW c \in Children, ChildInv(c), NEW len \in Lengths, Open(c, len)
  PROVE  /\ ChildInv(c)'
         /\ log' = log /\ state'[c] # "dead" /\ state[c] # "dead"
         /\ Len(records[c])' = Len(records[c]) + 1
         /\ \A r \in 1 .. Len(records[c]) : records'[c][r] = records[c][r]
         /\ Flushed(c)' = 0
         /\ records[c] # <<>> => Flushed(c) = Length(c)
<1>1. /\ state[c] = "idle" /\ state'[c] = "writing" /\ done'[c] = 0
      /\ records'[c] = Append(records[c], len)
      /\ buffer'[c] = buffer[c] /\ log' = log
  BY DEF Open, TypeOK
<1>2. buffer[c] = <<>> /\ (records[c] # <<>> => done[c] = Length(c))
  BY <1>1 DEF ChildInv
<1>3. Len(buffer[c]) = 0
  BY <1>2
<1>4. /\ Len(records'[c]) = Len(records[c]) + 1
      /\ \A r \in 1 .. Len(records[c]) : records'[c][r] = records[c][r]
      /\ records'[c][Len(records[c]) + 1] = len
      /\ records'[c] # <<>>
  BY <1>1, Types, AppendProperties
<1>5. len \in Nat \ {0}
  BY LogAssumption
<1>6. Length(c)' = len /\ Flushed(c)' = 0
  BY <1>1, <1>3, <1>4 DEF Length, Flushed
<1>7. records[c] # <<>> => Flushed(c) = Length(c)
  BY <1>2, <1>3, Types DEF Flushed
<1>8. ChildInv(c)'
  BY <1>1, <1>2, <1>3, <1>4, <1>5, <1>6, LogAssumption DEF ChildInv
<1> QED  BY <1>1, <1>4, <1>6, <1>7, <1>8

(* fwrite() to a buffer with room. *)
LEMMA PutFacts ==
  ASSUME TypeOK, NEW c \in Children, ChildInv(c), Put(c), Len(buffer[c]) < Cap
  PROVE  /\ ChildInv(c)'
         /\ log' = log /\ state' = state /\ records' = records
         /\ Flushed(c)' = Flushed(c)
<1> DEFINE R == Len(records[c])
<1>1. /\ state[c] = "writing" /\ done[c] < Length(c) /\ done'[c] = done[c] + 1
      /\ buffer'[c] = Append(buffer[c], NextUnit(c))
      /\ log' = log /\ state' = state /\ records' = records
  BY DEF Put, TypeOK
<1>2. /\ Len(buffer'[c]) = Len(buffer[c]) + 1
      /\ \A m \in 1 .. Len(buffer[c]) : buffer'[c][m] = buffer[c][m]
      /\ buffer'[c][Len(buffer[c]) + 1] = NextUnit(c)
  <2>1. NextUnit(c) \in Units
    BY Types, UnitType DEF NextUnit
  <2> HIDE DEF R
  <2> QED  BY <1>1, <2>1, Types, AppendProperties
<1>3. Flushed(c)' = Flushed(c) /\ Length(c)' = Length(c)
  BY <1>1, <1>2, Types DEF Flushed, Length
<1>4. NextUnit(c) = Unit(c, R, Flushed(c) + (Len(buffer[c]) + 1))
  BY Types DEF NextUnit, Flushed
<1>5. \A m \in 1 .. Len(buffer'[c]) : buffer'[c][m] = Unit(c, R, Flushed(c) + m)
  <2> SUFFICES ASSUME NEW m \in 1 .. Len(buffer'[c])
               PROVE  buffer'[c][m] = Unit(c, R, Flushed(c) + m)
    OBVIOUS
  <2>1. Len(buffer[c]) \in Nat
    BY Types
  <2>2. m \in 1 .. Len(buffer[c]) \/ m = Len(buffer[c]) + 1
    BY ONLY <1>2, <2>1, m \in 1 .. Len(buffer'[c])
  <2>3. CASE m \in 1 .. Len(buffer[c])
    <3>1. buffer'[c][m] = buffer[c][m]
      BY <1>2, <2>3
    <3>2. buffer[c][m] = Unit(c, R, Flushed(c) + m)
      BY <2>3 DEF ChildInv
    <3> QED  BY <3>1, <3>2
  <2>4. CASE m = Len(buffer[c]) + 1
    BY <1>2, <1>4, <2>4
  <2> QED  BY <2>2, <2>3, <2>4
<1>6. records[c] # <<>>
  BY <1>1 DEF ChildInv
<1>7. done'[c] <= Length(c) /\ Len(buffer'[c]) <= done'[c] /\ Len(buffer'[c]) <= Cap
  <2>1. /\ done[c] \in Nat /\ Len(buffer[c]) \in Nat /\ Length(c) \in Nat
        /\ Len(buffer[c]) <= done[c]
    BY <1>6, Types, LogAssumption DEF ChildInv
  <2>2. Cap \in Nat
    BY LogAssumption
  <2> QED  BY ONLY <1>1, <1>2, <2>1, <2>2, Len(buffer[c]) < Cap
<1>8. ChildInv(c)'
  BY <1>1, <1>3, <1>5, <1>6, <1>7 DEF ChildInv
<1> QED  BY <1>1, <1>3, <1>8

(* The buffer goes to the log, by fwrite() that finds it full or fclose(). *)
Flush(c) ==
  /\ state[c] = "writing" /\ state'[c] # "dead"
  /\ log' = log \o buffer[c]
  /\ records' = records
  /\ Flushed(c)' = done[c]

LEMMA SpillFacts ==
  ASSUME TypeOK, NEW c \in Children, ChildInv(c), Put(c), ~(Len(buffer[c]) < Cap)
  PROVE  ChildInv(c)' /\ Flush(c) /\ Len(buffer[c]) = Cap /\ Length(c) > Cap
<1>1. /\ state[c] = "writing" /\ done[c] < Length(c) /\ done'[c] = done[c] + 1
      /\ buffer'[c] = <<NextUnit(c)>>
      /\ log' = log \o buffer[c] /\ state' = state /\ records' = records
  BY DEF Put, TypeOK
<1>2. Len(buffer'[c]) = 1 /\ buffer'[c][1] = NextUnit(c)
  BY <1>1
<1>3. Flushed(c)' = done[c] /\ Length(c)' = Length(c)
  BY <1>1, <1>2, Types DEF Flushed, Length
<1>4. Len(buffer[c]) = Cap /\ Cap <= done[c] /\ Length(c) > Cap
  <2>1. records[c] # <<>>
    BY <1>1 DEF ChildInv
  <2>2. Len(buffer[c]) <= Cap /\ Len(buffer[c]) <= done[c]
    BY DEF ChildInv
  <2> QED  BY <1>1, <2>1, <2>2, Types, LogAssumption
<1>5. \A m \in 1 .. Len(buffer'[c]) :
        buffer'[c][m] = Unit(c, Len(records[c]), done[c] + m)
  BY <1>2 DEF NextUnit
<1>6. records[c] # <<>> /\ done'[c] <= Length(c)
  BY <1>1, Types DEF ChildInv
<1>7. Len(buffer'[c]) <= done'[c] /\ Len(buffer'[c]) <= Cap
  BY <1>1, <1>2, Types, LogAssumption
<1>8. ChildInv(c)'
  BY <1>1, <1>3, <1>4, <1>5, <1>6, <1>7 DEF ChildInv
<1> QED  BY <1>1, <1>3, <1>4, <1>8 DEF Flush

LEMMA CloseFacts ==
  ASSUME TypeOK, NEW c \in Children, ChildInv(c), Close(c)
  PROVE  ChildInv(c)' /\ Flush(c) /\ done[c] = Length(c)
<1>1. /\ state[c] = "writing" /\ done[c] = Length(c) /\ done' = done
      /\ buffer'[c] = <<>> /\ state'[c] = "idle"
      /\ log' = log \o buffer[c] /\ records' = records
  BY DEF Close, TypeOK
<1>2. Len(buffer'[c]) = 0 /\ records[c] # <<>>
  BY <1>1 DEF ChildInv
<1>3. Flushed(c)' = done[c] /\ Length(c)' = Length(c)
  BY <1>1, <1>2, Types DEF Flushed, Length
<1>4. ChildInv(c)'
  BY <1>1, <1>2, <1>3, Types, LogAssumption DEF ChildInv
<1> QED  BY <1>1, <1>3, <1>4 DEF Flush

LEMMA DieFacts ==
  ASSUME TypeOK, NEW c \in Children, ChildInv(c), Die(c)
  PROVE  /\ ChildInv(c)'
         /\ log' = log /\ records' = records
         /\ state[c] # "dead" /\ state'[c] = "dead"
         /\ Flushed(c)' >= Flushed(c)
<1>1. /\ state'[c] = "dead" /\ state[c] # "dead" /\ done' = done
      /\ buffer'[c] = <<>> /\ log' = log /\ records' = records
  BY DEF Die, TypeOK
<1>2. Len(buffer'[c]) = 0
  BY <1>1
<1>3. Length(c)' = Length(c) /\ Flushed(c)' = done[c]
  BY <1>1, <1>2, Types DEF Length, Flushed
<1>4. done[c] >= Flushed(c)
  BY Types DEF Flushed
<1>5. ChildInv(c)'
  BY <1>1, <1>2, <1>3, Types, LogAssumption DEF ChildInv
<1> QED  BY <1>1, <1>3, <1>4, <1>5
-----------------------------------------------------------------------------
NextFlushed(d) == done'[d] - Len(buffer'[d])

(* The records of a child only become more, and what is written out of its *)
(* latest one, too.                                                        *)
Grows(d) ==
  /\ Len(records'[d]) >= Len(records[d])
  /\ \A r \in 1 .. Len(records[d]) : records'[d][r] = records[d][r]
  /\ Len(records'[d]) = Len(records[d]) => NextFlushed(d) >= Flushed(d)

WillBeWritten(u) ==
  /\ u.child \in Children
  /\ u.rec \in 1 .. Len(records'[u.child])
  /\ u.pos \in 1 .. records'[u.child][u.rec]
  /\ u.rec = Len(records'[u.child]) => u.pos <= NextFlushed(u.child)

LEMMA PlaceNext == PlaceInv' <=> \A j \in 1 .. Len(log') : WillBeWritten(log'[j])
BY DEF PlaceInv, WasWritten, WillBeWritten, Flushed, NextFlushed

LEMMA StillWritten ==
  ASSUME TypeOK, TypeOK', NEW u, WasWritten(u), \A d \in Children : Grows(d)
  PROVE  WillBeWritten(u)
<1> DEFINE d == u.child
<1>1. /\ d \in Children /\ u.rec \in 1 .. Len(records[d])
      /\ u.pos \in 1 .. records[d][u.rec]
      /\ u.rec = Len(records[d]) => u.pos <= Flushed(d)
  BY DEF WasWritten
<1>2. Grows(d)
  BY <1>1
<1>3. /\ Len(records[d]) \in Nat /\ Len(records'[d]) \in Nat
      /\ Flushed(d) \in Int /\ NextFlushed(d) \in Int
  BY <1>1, Types DEF NextFlushed, TypeOK
<1>4. records[d][u.rec] \in Nat
  BY <1>1, Types
<1>5. u.rec \in 1 .. Len(records'[d]) /\ u.pos \in 1 .. records'[d][u.rec]
  BY <1>1, <1>2, <1>3 DEF Grows
<1>6. u.rec = Len(records'[d]) => u.pos <= NextFlushed(d)
  BY <1>1, <1>2, <1>3, <1>4 DEF Grows
<1> QED  BY <1>1, <1>5, <1>6 DEF WillBeWritten

(* What is written out is in the log, so nothing is missing before it.     *)
LEMMA LiveClosed ==
  ASSUME TypeOK, PlaceInv, NEW c \in Children, Complete(c)
  PROVE  Closed(c)
<1> SUFFICES ASSUME NEW r \in 1 .. Len(records[c]), NEW k \in 1 .. records[c][r],
                    NEW n \in 1 .. Len(log), log[n].child = c,
                    Before(Unit(c, r, k), log[n])
             PROVE  \E j \in 1 .. Len(log) : log[j] = Unit(c, r, k)
  BY DEF Closed
<1> DEFINE v == log[n]
<1>1. /\ v.rec \in 1 .. Len(records[c])
      /\ v.pos \in 1 .. records[c][v.rec]
      /\ v.rec = Len(records[c]) => v.pos <= Flushed(c)
  BY DEF PlaceInv, WasWritten
<1>2. r < v.rec \/ (r = v.rec /\ k < v.pos)
  BY UnitFields DEF Before
<1>3. Len(records[c]) \in Nat /\ Flushed(c) \in Int /\ records[c][v.rec] \in Nat
      /\ records[c][r] \in Nat
  BY <1>1, Types
<1>4. r = Len(records[c]) => k <= Flushed(c)
  BY <1>1, <1>2, <1>3
<1> QED  BY <1>4 DEF Complete

(* What a flush makes of the log. *)
LEMMA FlushedLog ==
  ASSUME TypeOK, NEW c \in Children, ChildInv(c), Flush(c)
  PROVE  /\ Len(log') = Len(log) + Len(buffer[c])
         /\ \A j \in 1 .. Len(log) : log'[j] = log[j]
         /\ \A m \in 1 .. Len(buffer[c]) :
              log'[Len(log) + m] = Unit(c, Len(records[c]), Flushed(c) + m)
         /\ \A j \in 1 .. Len(log') :
              \/ j \in 1 .. Len(log)
              \/ \E m \in 1 .. Len(buffer[c]) : j = Len(log) + m
<1>1. /\ log \in Seq(Units) /\ buffer[c] \in Seq(Units)
      /\ Len(log) \in Nat /\ Len(buffer[c]) \in Nat /\ log' = log \o buffer[c]
  BY Types DEF Flush
<1>2. /\ Len(log') = Len(log) + Len(buffer[c])
      /\ \A j \in 1 .. Len(log) + Len(buffer[c]) :
           log'[j] = IF j <= Len(log) THEN log[j] ELSE buffer[c][j - Len(log)]
  BY <1>1, ConcatProperties
<1>3. \A j \in 1 .. Len(log) : log'[j] = log[j]
  BY <1>1, <1>2
<1>4. ASSUME NEW m \in 1 .. Len(buffer[c])
      PROVE  log'[Len(log) + m] = Unit(c, Len(records[c]), Flushed(c) + m)
  <2>1. /\ Len(log) + m \in 1 .. Len(log) + Len(buffer[c])
        /\ ~(Len(log) + m <= Len(log)) /\ (Len(log) + m) - Len(log) = m
    BY <1>1
  <2>2. log'[Len(log) + m] = buffer[c][m]
    BY <1>2, <2>1
  <2> QED  BY <2>2 DEF ChildInv
<1>5. ASSUME NEW j \in 1 .. Len(log'), j \notin 1 .. Len(log)
      PROVE  \E m \in 1 .. Len(buffer[c]) : j = Len(log) + m
  <2>1. j - Len(log) \in 1 .. Len(buffer[c]) /\ j = Len(log) + (j - Len(log))
    BY <1>1, <1>2, <1>5
  <2> QED  BY <2>1
<1> QED  BY <1>2, <1>3, <1>4, <1>5

(* Where the flushed units belong. *)
LEMMA FlushPlaces ==
  ASSUME TypeOK, TypeOK', NEW c \in Children, ChildInv(c), Flush(c),
         NEW m \in 1 .. Len(buffer[c])
  PROVE  /\ Len(records[c]) \in 1 .. Len(records[c])
         /\ Flushed(c) \in Nat
         /\ Flushed(c) + m \in 1 .. records[c][Len(records[c])]
         /\ Flushed(c) + m <= Flushed(c)'
<1>1. records[c] # <<>>
  BY DEF Flush, ChildInv
<1>2. /\ done[c] \in Nat /\ Len(buffer[c]) \in Nat /\ Len(buffer[c]) <= done[c]
      /\ done[c] <= Length(c) /\ Flushed(c)' = done[c] /\ Length(c) \in Nat
  BY <1>1, Types DEF ChildInv, Flush
<1>3. Len(records[c]) \in 1 .. Len(records[c])
  BY <1>1, Types
<1> QED  BY <1>2, <1>3 DEF Flushed, Length

LEMMA FlushInv ==
  ASSUME IInv, TypeOK', NEW c \in Children, Flush(c),
         \A d \in Children : d # c => state'[d] = state[d] /\ Flushed(d)' = Flushed(d)
  PROVE  /\ PlaceInv' /\ Order'
         /\ \A d \in Children :
              IF state'[d] = "dead" THEN Closed(d)' ELSE Complete(d)'
<1> DEFINE R == Len(records[c])
           L == Len(log)
<1>1. /\ TypeOK /\ ChildInv(c) /\ PlaceInv /\ Order
      /\ records' = records /\ Flushed(c)' = done[c]
      /\ state[c] = "writing" /\ state'[c] # "dead"
  BY DEF IInv, Flush
<1>2. /\ Len(log') = L + Len(buffer[c])
      /\ \A j \in 1 .. L : log'[j] = log[j]
      /\ \A m \in 1 .. Len(buffer[c]) : log'[L + m] = Unit(c, R, Flushed(c) + m)
      /\ \A j \in 1 .. Len(log') :
           \/ j \in 1 .. L
           \/ \E m \in 1 .. Len(buffer[c]) : j = L + m
  BY <1>1, FlushedLog
<1>3. L \in Nat /\ Len(log') \in Nat /\ Len(buffer[c]) \in Nat
  BY <1>1, Types
<1>4. \A m \in 1 .. Len(buffer[c]) :
        /\ R \in 1 .. R /\ Flushed(c) \in Nat
        /\ Flushed(c) + m \in 1 .. records[c][R]
        /\ Flushed(c) + m <= Flushed(c)'
  BY <1>1, FlushPlaces
<1>5. \A d \in Children : Grows(d)
  <2>1. /\ done[c] >= Flushed(c) /\ Flushed(c) \in Int
        /\ \A d \in Children : Flushed(d) \in Int /\ Len(records[d]) \in Nat
    BY <1>1, Types DEF Flushed
  <2>2. \A d \in Children : NextFlushed(d) = Flushed(d)'
    BY DEF NextFlushed, Flushed
  <2>3. \A d \in Children : NextFlushed(d) >= Flushed(d)
    <3>1. NextFlushed(c) >= Flushed(c)
      BY <1>1, <2>1, <2>2
    <3>2. \A d \in Children : d # c => NextFlushed(d) = Flushed(d)
      BY <2>2
    <3> QED  BY <2>1, <3>1, <3>2
  <2> QED  BY <1>1, <2>1, <2>3 DEF Grows
<1> HIDE DEF R, L
<1>6. PlaceInv'
  <2> SUFFICES ASSUME NEW j \in 1 .. Len(log')  PROVE WillBeWritten(log'[j])
    BY PlaceNext
  <2>1. CASE j \in 1 .. L
    BY <1>1, <1>2, <1>5, <2>1, StillWritten DEF PlaceInv, L
  <2>2. ASSUME NEW m \in 1 .. Len(buffer[c]), j = L + m  PROVE WillBeWritten(log'[j])
    <3>1. log'[j] = Unit(c, R, Flushed(c) + m)
      BY <1>2, <2>2
    <3>2. /\ log'[j].child = c /\ log'[j].rec = R /\ log'[j].pos = Flushed(c) + m
      BY <3>1, UnitFields
    <3> QED  BY <1>1, <1>4, <3>2 DEF WillBeWritten, R, Flushed, NextFlushed
  <2> QED  BY <1>2, <2>1, <2>2
<1>7. Order'
  <2> SUFFICES ASSUME NEW j \in 1 .. Len(log'), NEW k \in 1 .. Len(log'), j < k,
                      log'[j].child = log'[k].child
               PROVE  Before(log'[j], log'[k])
    BY DEF Order
  <2>1. CASE k \in 1 .. L
    <3>1. j \in 1 .. L
      BY <1>3, <2>1
    <3> QED  BY <1>1, <1>2, <2>1, <3>1 DEF Order, L
  <2>2. ASSUME NEW m \in 1 .. Len(buffer[c]), k = L + m
        PROVE  Before(log'[j], log'[k])
    <3>1. log'[k].child = c /\ log'[k].rec = R /\ log'[k].pos = Flushed(c) + m
      BY <1>2, <2>2, UnitFields
    <3>2. R \in Nat /\ Flushed(c) \in Nat
      BY <1>4
    <3>3. CASE j \in 1 .. L
      <4>1. WasWritten(log[j]) /\ log'[j] = log[j]
        BY <1>1, <1>2, <3>3 DEF PlaceInv, L
      <4>2. /\ log[j].rec \in 1 .. R
            /\ log[j].pos \in 1 .. records[c][log[j].rec]
            /\ log[j].rec = R => log[j].pos <= Flushed(c)
        BY <3>1, <4>1 DEF WasWritten, R
      <4>3. records[c][log[j].rec] \in Nat
        BY <1>1, <4>2, Types DEF R
      <4>4. log[j].rec < R \/ (log[j].rec = R /\ log[j].pos < Flushed(c) + m)
        BY <3>2, <4>2, <4>3
      <4> QED  BY <3>1, <4>1, <4>4 DEF Before
    <3>4. ASSUME NEW n \in 1 .. Len(buffer[c]), j = L + n
          PROVE  Before(log'[j], log'[k])
      <4>1. log'[j].rec = R /\ log'[j].pos = Flushed(c) + n
        BY <1>2, <3>4, UnitFields
      <4>2. n < m
        BY <1>3, <2>2, <3>4
      <4> QED  BY <3>1, <3>2, <4>1, <4>2 DEF Before
    <3> QED  BY <1>2, <3>3, <3>4
  <2> QED  BY <1>2, <2>1, <2>2
<1>8. ASSUME NEW d \in Children, state'[d] # "dead"  PROVE Complete(d)'
  <2>1. Complete(d)
    BY <1>1, <1>8 DEF IInv
  <2> SUFFICES ASSUME NEW r \in 1 .. Len(records[d]), NEW k \in 1 .. records[d][r],
                      r = Len(records[d]) => k <= Flushed(d)'
               PROVE  \E j \in 1 .. Len(log') : log'[j] = Unit(d, r, k)
    BY <1>1 DEF Complete
  <2>2. CASE r = Len(records[d]) => k <= Flushed(d)
    <3>1. PICK j \in 1 .. L : log[j] = Unit(d, r, k)
      BY <2>1, <2>2 DEF Complete, L
    <3>2. j \in 1 .. Len(log') /\ log'[j] = Unit(d, r, k)
      BY <1>2, <1>3, <3>1
    <3> QED  BY <3>2
  <2>3. CASE ~(r = Len(records[d]) => k <= Flushed(d))
    <3>1. d = c /\ r = R /\ k <= done[c] /\ ~(k <= Flushed(c))
      BY <1>1, <2>3 DEF R
    <3>2. records[c][r] \in Nat /\ done[c] \in Nat /\ Flushed(c) = done[c] - Len(buffer[c])
      BY <1>1, <3>1, Types DEF Flushed
    <3> DEFINE m == k - Flushed(c)
    <3>3. m \in 1 .. Len(buffer[c]) /\ Flushed(c) + m = k
      BY <1>3, <3>1, <3>2
    <3>4. L + m \in 1 .. Len(log') /\ log'[L + m] = Unit(d, r, k)
      BY <1>2, <1>3, <3>1, <3>3
    <3> QED  BY <3>4
  <2> QED  BY <2>2, <2>3
<1>9. ASSUME NEW d \in Children, state'[d] = "dead"  PROVE Closed(d)'
  <2>1. d # c /\ Closed(d)
    BY <1>1, <1>9 DEF IInv
  <2> SUFFICES ASSUME NEW r \in 1 .. Len(records[d]), NEW k \in 1 .. records[d][r],
                      NEW n \in 1 .. Len(log'), log'[n].child = d,
                      Before(Unit(d, r, k), log'[n])
               PROVE  \E j \in 1 .. Len(log') : log'[j] = Unit(d, r, k)
    BY <1>1 DEF Closed
  <2>2. n \in 1 .. L
    <3>1. \A m \in 1 .. Len(buffer[c]) : log'[L + m].child = c
      BY <1>2, UnitFields
    <3> QED  BY <1>2, <2>1, <3>1
  <2>3. PICK j \in 1 .. L : log[j] = Unit(d, r, k)
    BY <1>2, <2>1, <2>2 DEF Closed, L
  <2>4. j \in 1 .. Len(log') /\ log'[j] = Unit(d, r, k)
    BY <1>2, <1>3, <2>3
  <2> QED  BY <2>4
<1> QED  BY <1>6, <1>7, <1>8, <1>9
-----------------------------------------------------------------------------
(* A step that writes nothing to the log. *)
LEMMA QuietPlaces ==
  ASSUME IInv, TypeOK', log' = log, \A d \in Children : Grows(d)
  PROVE  PlaceInv' /\ Order'
<1>1. PlaceInv'
  BY StillWritten, PlaceNext DEF IInv, PlaceInv
<1>2. Order'
  BY DEF IInv, Order
<1> QED  BY <1>1, <1>2

LEMMA OthersQuiet ==
  ASSUME NEW d \in Children, log' = log, state'[d] = state[d],
         records'[d] = records[d], Flushed(d)' = Flushed(d),
         IF state[d] = "dead" THEN Closed(d) ELSE Complete(d)
  PROVE  IF state'[d] = "dead" THEN Closed(d)' ELSE Complete(d)'
<1>1. CASE state[d] = "dead"
  BY <1>1 DEF Closed
<1>2. CASE state[d] # "dead"
  BY <1>2 DEF Complete
<1> QED  BY <1>1, <1>2

LEMMA OpenInv ==
  ASSUME IInv, TypeOK', NEW c \in Children, NEW len \in Lengths, Open(c, len)
  PROVE  IInv'
<1>1. TypeOK /\ ChildInv(c)
  BY DEF IInv
<1>2. /\ ChildInv(c)'
      /\ log' = log /\ state'[c] # "dead" /\ state[c] # "dead"
      /\ Len(records'[c]) = Len(records[c]) + 1
      /\ \A r \in 1 .. Len(records[c]) : records'[c][r] = records[c][r]
      /\ Flushed(c)' = 0
      /\ records[c] # <<>> => Flushed(c) = Length(c)
  BY <1>1, OpenFacts
<1>3. \A d \in Children : d # c =>
        /\ state'[d] = state[d] /\ records'[d] = records[d]
        /\ done'[d] = done[d] /\ buffer'[d] = buffer[d]
  BY <1>1, OthersUntouched
<1>4. \A d \in Children : d # c => ChildInv(d)' /\ Flushed(d)' = Flushed(d)
  BY <1>3, Untouched DEF IInv
<1>5. Len(records[c]) \in Nat
  BY <1>1, Types
<1>6. \A d \in Children : Grows(d)
  <2>1. ASSUME NEW d \in Children, d # c  PROVE Grows(d)
    <3>1. NextFlushed(d) = Flushed(d) /\ Flushed(d) \in Int /\ Len(records[d]) \in Nat
      BY <1>1, <1>3, <2>1, Types DEF NextFlushed, Flushed
    <3> QED  BY <1>3, <2>1, <3>1 DEF Grows
  <2>2. Grows(c)
    BY <1>2, <1>5 DEF Grows
  <2> QED  BY <2>1, <2>2
<1>7. Complete(c)'
  <2> SUFFICES ASSUME NEW r \in 1 .. Len(records'[c]), NEW k \in 1 .. records'[c][r],
                      r = Len(records'[c]) => k <= 0
               PROVE  \E j \in 1 .. Len(log) : log[j] = Unit(c, r, k)
    BY <1>2 DEF Complete
  <2>1. Complete(c)
    BY <1>2 DEF IInv
  <2>2. r \in 1 .. Len(records[c]) /\ k \in 1 .. records[c][r]
    BY <1>2, <1>5
  <2>3. r = Len(records[c]) => k <= Flushed(c)
    <3>1. records[c] # <<>>
      BY <1>5, <2>2
    <3> QED  BY <1>2, <2>2, <3>1 DEF Length
  <2> QED  BY <2>1, <2>2, <2>3 DEF Complete
<1>8. \A d \in Children : d # c =>
        IF state'[d] = "dead" THEN Closed(d)' ELSE Complete(d)'
  BY <1>2, <1>3, <1>4, OthersQuiet DEF IInv
<1>9. \A d \in Children : IF state'[d] = "dead" THEN Closed(d)' ELSE Complete(d)'
  BY <1>2, <1>7, <1>8
<1> QED  BY <1>2, <1>4, <1>6, <1>9, QuietPlaces DEF IInv

LEMMA PutInv ==
  ASSUME IInv, TypeOK', NEW c \in Children, Put(c), Len(buffer[c]) < Cap
  PROVE  IInv'
<1>1. TypeOK /\ ChildInv(c)
  BY DEF IInv
<1>2. /\ ChildInv(c)' /\ log' = log /\ state' = state /\ records' = records
      /\ Flushed(c)' = Flushed(c)
  BY <1>1, PutFacts
<1>3. \A d \in Children : d # c =>
        /\ state'[d] = state[d] /\ records'[d] = records[d]
        /\ done'[d] = done[d] /\ buffer'[d] = buffer[d]
  BY <1>1, OthersUntouched
<1>4. \A d \in Children : ChildInv(d)' /\ Flushed(d)' = Flushed(d)
  BY <1>2, <1>3, Untouched DEF IInv
<1>5. ASSUME NEW d \in Children  PROVE Grows(d)
  <2>1. NextFlushed(d) = Flushed(d)' /\ Flushed(d) \in Int /\ Len(records[d]) \in Nat
    BY <1>1, Types DEF NextFlushed, Flushed
  <2> QED  BY <1>2, <1>4, <2>1 DEF Grows
<1>6. \A d \in Children : IF state'[d] = "dead" THEN Closed(d)' ELSE Complete(d)'
  BY <1>2, <1>4, OthersQuiet DEF IInv
<1> QED  BY <1>2, <1>4, <1>5, <1>6, QuietPlaces DEF IInv

LEMMA DieInv ==
  ASSUME IInv, TypeOK', NEW c \in Children, Die(c)
  PROVE  IInv'
<1>1. TypeOK /\ ChildInv(c) /\ PlaceInv
  BY DEF IInv
<1>2. /\ ChildInv(c)' /\ log' = log /\ records' = records
      /\ state[c] # "dead" /\ state'[c] = "dead" /\ Flushed(c)' >= Flushed(c)
  BY <1>1, DieFacts
<1>3. \A d \in Children : d # c =>
        /\ state'[d] = state[d] /\ records'[d] = records[d]
        /\ done'[d] = done[d] /\ buffer'[d] = buffer[d]
  BY <1>1, OthersUntouched
<1>4. \A d \in Children : d # c => ChildInv(d)' /\ Flushed(d)' = Flushed(d)
  BY <1>3, Untouched DEF IInv
<1>5. ASSUME NEW d \in Children  PROVE Grows(d)
  <2>1. NextFlushed(d) = Flushed(d)' /\ Flushed(d) \in Int /\ Len(records[d]) \in Nat
    BY <1>1, Types DEF NextFlushed, Flushed
  <2>2. Flushed(d)' >= Flushed(d)
    BY <1>2, <1>4, <2>1
  <2> QED  BY <1>2, <2>1, <2>2 DEF Grows
<1>6. Closed(c)'
  <2>1. Closed(c)
    BY <1>1, <1>2, LiveClosed DEF IInv
  <2> QED  BY <1>2, <2>1 DEF Closed
<1>7. \A d \in Children : d # c =>
        IF state'[d] = "dead" THEN Closed(d)' ELSE Complete(d)'
  BY <1>2, <1>3, <1>4, OthersQuiet DEF IInv
<1>8. \A d \in Children : IF state'[d] = "dead" THEN Closed(d)' ELSE Complete(d)'
  BY <1>2, <1>6, <1>7
<1> QED  BY <1>2, <1>4, <1>5, <1>8, QuietPlaces DEF IInv

LEMMA FlushIInv ==
  ASSUME IInv, TypeOK', NEW c \in Children, ChildInv(c)', Flush(c),
         \A d \in Children : d # c =>
           /\ state'[d] = state[d] /\ records'[d] = records[d]
           /\ done'[d] = done[d] /\ buffer'[d] = buffer[d]
  PROVE  IInv'
<1>1. \A d \in Children : d # c => ChildInv(d)' /\ Flushed(d)' = Flushed(d)
  BY Untouched DEF IInv
<1>2. /\ PlaceInv' /\ Order'
      /\ \A d \in Children : IF state'[d] = "dead" THEN Closed(d)' ELSE Complete(d)'
  BY <1>1, FlushInv
<1> QED  BY <1>1, <1>2 DEF IInv

LEMMA InvInit == Init => IInv
<1> SUFFICES ASSUME Init  PROVE IInv
  OBVIOUS
<1>1. TypeOK
  BY TypeInit
<1>2. ASSUME NEW c \in Children  PROVE ChildInv(c) /\ Complete(c) /\ state[c] # "dead"
  <2>1. /\ records[c] = <<>> /\ done[c] = 0 /\ buffer[c] = <<>> /\ state[c] = "idle"
        /\ Len(records[c]) = 0 /\ Len(buffer[c]) = 0
    BY DEF Init
  <2> QED  BY <2>1, LogAssumption DEF ChildInv, Complete, Flushed
<1>3. Len(log) = 0
  BY DEF Init
<1>4. PlaceInv /\ Order
  BY <1>3 DEF PlaceInv, Order
<1> QED  BY <1>1, <1>2, <1>4 DEF IInv

LEMMA InvNext == IInv /\ [Next]_vars => IInv'
<1> SUFFICES ASSUME IInv, [Next]_vars  PROVE IInv'
  OBVIOUS
<1>1. TypeOK /\ TypeOK'
  BY TypeNext DEF IInv
<1>2. ASSUME NEW c \in Children, NEW len \in Lengths, Open(c, len)  PROVE IInv'
  BY <1>1, <1>2, OpenInv
<1>3. ASSUME NEW c \in Children, Put(c)  PROVE IInv'
  <2>1. CASE Len(buffer[c]) < Cap
    BY <1>1, <1>3, <2>1, PutInv
  <2>2. CASE ~(Len(buffer[c]) < Cap)
    <3>1. ChildInv(c)' /\ Flush(c)
      BY <1>1, <1>3, <2>2, SpillFacts DEF IInv
    <3> QED  BY <1>1, <1>3, <3>1, OthersUntouched, FlushIInv
  <2> QED  BY <2>1, <2>2
<1>4. ASSUME NEW c \in Children, Close(c)  PROVE IInv'
  <2>1. ChildInv(c)' /\ Flush(c)
    BY <1>1, <1>4, CloseFacts DEF IInv
  <2> QED  BY <1>1, <1>4, <2>1, OthersUntouched, FlushIInv
<1>5. ASSUME NEW c \in Children, Die(c)  PROVE IInv'
  BY <1>1, <1>5, DieInv
<1>6. CASE UNCHANGED vars
  BY <1>6 DEF vars, IInv, TypeOK, ChildInv, Length, Flushed, PlaceInv,
     WasWritten, Order, Complete, Closed
<1> QED  BY <1>2, <1>3, <1>4, <1>5, <1>6 DEF Next, Terminated

THEOREM LogIInv == Spec => []IInv
BY InvInit, InvNext, PTL DEF Spec
(* What a child logged is in ts.log once and in its order, and what a kill *)
(* leaves out is the end of it, whatever the others append (LogStr,        *)
(* LogData, LogState).                                                     *)
THEOREM LogKeeps == Spec => []LogKeepsRecords
<1>1. IInv => LogKeepsRecords
  <2> SUFFICES ASSUME IInv  PROVE LogKeepsRecords
    OBVIOUS
  <2>1. TypeOK /\ PlaceInv /\ Order /\ Len(log) \in Nat /\ DOMAIN log = 1 .. Len(log)
    BY DEF IInv, TypeOK
  <2>2. ASSUME NEW c \in Children  PROVE Closed(c)
    BY <2>1, <2>2, LiveClosed DEF IInv
  <2>3. ASSUME NEW c \in Children, NEW u \in Given(c)
        PROVE  \E r \in 1 .. Len(records[c]) : \E k \in 1 .. records[c][r] :
                 u = Unit(c, r, k) /\ (r = Len(records[c]) => k <= done[c])
    <3>1. DOMAIN records[c] = 1 .. Len(records[c]) /\ done[c] \in Nat
      BY <2>1, Types DEF TypeOK
    <3>2. PICK r \in 1 .. Len(records[c]) :
            u \in {Unit(c, r, k) :
                     k \in 1 .. IF r = Len(records[c]) THEN done[c] ELSE records[c][r]}
      BY <2>3, <3>1 DEF Given
    <3>3. PICK k \in 1 .. IF r = Len(records[c]) THEN done[c] ELSE records[c][r] :
            u = Unit(c, r, k)
      BY <3>2
    <3>4. r = Len(records[c]) => done[c] <= records[c][r]
      <4>1. records[c] # <<>>
        BY <2>1, <3>1, Types
      <4> QED  BY <4>1 DEF IInv, ChildInv, Length
    <3>5. records[c][r] \in Nat
      BY <2>1, Types
    <3>6. k \in 1 .. records[c][r] /\ (r = Len(records[c]) => k <= done[c])
      BY <3>1, <3>3, <3>4, <3>5
    <3> QED  BY <3>3, <3>6
  <2>4. \A j, k \in DOMAIN log :
          j < k /\ log[j].child = log[k].child => Before(log[j], log[k])
    BY <2>1 DEF Order
  <2>5. ASSUME NEW c \in Children, state[c] # "dead", NEW u \in Given(c)
        PROVE  u \in InLog \cup InBuffer(c)
    <3> PICK r \in 1 .. Len(records[c]) : \E k \in 1 .. records[c][r] :
               u = Unit(c, r, k) /\ (r = Len(records[c]) => k <= done[c])
      BY <2>3
    <3>1. PICK k \in 1 .. records[c][r] :
            u = Unit(c, r, k) /\ (r = Len(records[c]) => k <= done[c])
      OBVIOUS
    <3>2. Complete(c) /\ ChildInv(c)
      BY <2>5 DEF IInv
    <3>3. CASE r = Len(records[c]) => k <= Flushed(c)
      BY <2>1, <3>1, <3>2, <3>3 DEF Complete, InLog
    <3>4. CASE ~(r = Len(records[c]) => k <= Flushed(c))
      <4> DEFINE m == k - Flushed(c)
      <4>1. /\ Len(buffer[c]) \in Nat /\ done[c] \in Nat
            /\ Flushed(c) = done[c] - Len(buffer[c]) /\ records[c][r] \in Nat
        BY <2>1, Types DEF Flushed
      <4>2. m \in 1 .. Len(buffer[c]) /\ Flushed(c) + m = k
        BY <3>1, <3>4, <4>1
      <4>3. buffer[c][m] = u
        BY <3>1, <3>2, <3>4, <4>2 DEF ChildInv
      <4>4. DOMAIN buffer[c] = 1 .. Len(buffer[c])
        BY <2>1, Types
      <4> QED  BY <4>2, <4>3, <4>4 DEF InBuffer
    <3> QED  BY <3>3, <3>4
  <2>6. ASSUME NEW c \in Children, NEW u \in Given(c), NEW v \in InLog, Before(u, v)
        PROVE  u \in InLog
    <3> PICK r \in 1 .. Len(records[c]) : \E k \in 1 .. records[c][r] : u = Unit(c, r, k)
      BY <2>3
    <3>1. PICK k \in 1 .. records[c][r] : u = Unit(c, r, k)
      OBVIOUS
    <3>2. PICK n \in 1 .. Len(log) : v = log[n]
      BY <2>1 DEF InLog
    <3>3. log[n].child = c
      BY <2>6, <3>1, <3>2, UnitFields DEF Before
    <3> QED  BY <2>1, <2>2, <2>6, <3>1, <3>2, <3>3 DEF Closed, InLog
  <2> QED  BY <2>4, <2>5, <2>6 DEF LogKeepsRecords
<1> QED  BY <1>1, LogIInv, PTL

-----------------------------------------------------------------------------
LEMMA ModAdd ==
  ASSUME NEW a \in Nat, NEW n \in Nat \ {0}, a % n = 0
  PROVE  (a + n) % n = 0
<1> DEFINE q == a \div n
           p == (a + n) \div n
           r == (a + n) % n
<1>1. /\ a = n * q + (a % n) /\ q \in Int
      /\ a + n = n * p + r /\ p \in Int /\ r \in Int /\ 0 <= r /\ r < n
  OBVIOUS
<1>2. a = n * q
  <2> HIDE DEF q, p, r
  <2> QED  BY <1>1
<1> DEFINE d == (q + 1) - p
<1>3. r = n * d /\ d \in Int
  <2> HIDE DEF q, p, r
  <2> QED  BY <1>1, <1>2
<1> HIDE DEF q, p, d
<1>4. CASE d >= 1
  <2>1. n * d >= n
    BY <1>3, <1>4
  <2> QED  BY <1>1, <1>3, <2>1
<1>5. CASE d <= 0
  <2>1. n * d <= 0
    BY <1>3, <1>5
  <2> QED  BY <1>1, <1>3, <2>1
<1> QED  BY <1>3, <1>4, <1>5

(* The units of a record from its first one on, at one place of the log.   *)
WholeAt(j) ==
  \A k \in 1 .. records[log[j].child][log[j].rec] :
    /\ (j - log[j].pos) + k \in 1 .. Len(log)
    /\ log[(j - log[j].pos) + k] = Unit(log[j].child, log[j].rec, k)

ShortInv ==
  \A j \in 1 .. Len(log) :
    records[log[j].child][log[j].rec] <= Cap => WholeAt(j)

(* A unit is followed by the next one, unless the record or the buffer     *)
(* ended with it.                                                          *)
Followed(j) ==
  /\ j < Len(log)
  /\ log[j + 1] = Unit(log[j].child, log[j].rec, log[j].pos + 1)

TornInv ==
  \A j \in 1 .. Len(log) :
    log[j].pos < records[log[j].child][log[j].rec] /\ log[j].pos % Cap # 0
      => Followed(j)

(* A record is written out in full buffers. *)
FullInv ==
  \A c \in Children : state[c] = "writing" => Flushed(c) >= 0 /\ Flushed(c) % Cap = 0

SameLengths ==
  \A j \in 1 .. Len(log) :
    records'[log[j].child][log[j].rec] = records[log[j].child][log[j].rec]

LEMMA QuietParts ==
  ASSUME ShortInv, TornInv, log' = log, SameLengths
  PROVE  ShortInv' /\ TornInv'
<1>1. ShortInv'
  BY DEF ShortInv, WholeAt, SameLengths
<1>2. TornInv'
  BY DEF TornInv, Followed, SameLengths
<1> QED  BY <1>1, <1>2

LEMMA FlushShort ==
  ASSUME IInv, ShortInv, NEW c \in Children, Flush(c),
         Length(c) <= Cap => done[c] = Length(c)
  PROVE  ShortInv'
<1> DEFINE R == Len(records[c])
           L == Len(log)
<1>1. /\ TypeOK /\ ChildInv(c) /\ PlaceInv
      /\ records' = records /\ state[c] = "writing"
  BY DEF IInv, Flush
<1>2. /\ Len(log') = L + Len(buffer[c])
      /\ \A j \in 1 .. L : log'[j] = log[j]
      /\ \A m \in 1 .. Len(buffer[c]) : log'[L + m] = Unit(c, R, Flushed(c) + m)
      /\ \A j \in 1 .. Len(log') :
           \/ j \in 1 .. L
           \/ \E m \in 1 .. Len(buffer[c]) : j = L + m
  BY <1>1, FlushedLog
<1>3. /\ L \in Nat /\ Len(buffer[c]) \in Nat /\ done[c] \in Nat
      /\ Flushed(c) = done[c] - Len(buffer[c]) /\ Len(buffer[c]) <= done[c]
  BY <1>1, Types DEF Flushed, ChildInv
<1> HIDE DEF R, L
<1> SUFFICES ASSUME NEW j \in 1 .. Len(log'),
                    records[log'[j].child][log'[j].rec] <= Cap,
                    NEW k \in 1 .. records[log'[j].child][log'[j].rec]
             PROVE  /\ (j - log'[j].pos) + k \in 1 .. Len(log')
                    /\ log'[(j - log'[j].pos) + k] = Unit(log'[j].child, log'[j].rec, k)
  BY <1>1 DEF ShortInv, WholeAt
<1>4. CASE j \in 1 .. L
  <2>1. log'[j] = log[j]
    BY <1>2, <1>4
  <2>2. /\ (j - log[j].pos) + k \in 1 .. L
        /\ log[(j - log[j].pos) + k] = Unit(log[j].child, log[j].rec, k)
    BY <1>4, <2>1 DEF ShortInv, WholeAt, L
  <2>3. (j - log[j].pos) + k \in 1 .. Len(log')
    BY <1>2, <1>3, <2>2
  <2> QED  BY <1>2, <2>1, <2>2, <2>3
<1>5. ASSUME NEW m \in 1 .. Len(buffer[c]), j = L + m
      PROVE  /\ (j - log'[j].pos) + k \in 1 .. Len(log')
             /\ log'[(j - log'[j].pos) + k] = Unit(log'[j].child, log'[j].rec, k)
  <2>1. log'[j].child = c /\ log'[j].rec = R /\ log'[j].pos = Flushed(c) + m
    BY <1>2, <1>5, UnitFields
  <2>2. records[c][R] = Length(c) /\ Length(c) <= Cap /\ k \in 1 .. Length(c)
    BY <2>1 DEF Length, R
  <2>3. records[c] # <<>>
    BY <1>1 DEF ChildInv
  <2>4. Flushed(c) = 0 /\ Len(buffer[c]) = Length(c)
    <3>1. ~(Length(c) > Cap) /\ ~(Flushed(c) > 0)
      BY <1>1, <2>2, <2>3, Types, LogAssumption DEF ChildInv
    <3> QED  BY <1>3, <2>2, <3>1
  <2>5. (j - log'[j].pos) + k = L + k
    BY <1>3, <1>5, <2>1, <2>4
  <2>6. L + k \in 1 .. Len(log') /\ log'[L + k] = Unit(c, R, k)
    BY <1>2, <1>3, <2>2, <2>4
  <2> QED  BY <2>1, <2>5, <2>6
<1> QED  BY <1>2, <1>4, <1>5

LEMMA FlushTorn ==
  ASSUME IInv, TornInv, NEW c \in Children, Flush(c),
         done[c] = Length(c) \/ done[c] % Cap = 0
  PROVE  TornInv'
<1> DEFINE R == Len(records[c])
           L == Len(log)
<1>1. /\ TypeOK /\ ChildInv(c) /\ records' = records
  BY DEF IInv, Flush
<1>2. /\ Len(log') = L + Len(buffer[c])
      /\ \A j \in 1 .. L : log'[j] = log[j]
      /\ \A m \in 1 .. Len(buffer[c]) : log'[L + m] = Unit(c, R, Flushed(c) + m)
      /\ \A j \in 1 .. Len(log') :
           \/ j \in 1 .. L
           \/ \E m \in 1 .. Len(buffer[c]) : j = L + m
  BY <1>1, FlushedLog
<1>3. /\ L \in Nat /\ Len(buffer[c]) \in Nat /\ done[c] \in Nat
      /\ Flushed(c) = done[c] - Len(buffer[c])
  BY <1>1, Types DEF Flushed
<1> HIDE DEF R, L
<1> SUFFICES ASSUME NEW j \in 1 .. Len(log'),
                    log'[j].pos < records[log'[j].child][log'[j].rec],
                    log'[j].pos % Cap # 0
             PROVE  /\ j < Len(log')
                    /\ log'[j + 1] = Unit(log'[j].child, log'[j].rec, log'[j].pos + 1)
  BY <1>1 DEF TornInv, Followed
<1>4. CASE j \in 1 .. L
  <2>1. log'[j] = log[j]
    BY <1>2, <1>4
  <2>2. j < L /\ log[j + 1] = Unit(log[j].child, log[j].rec, log[j].pos + 1)
    BY <1>4, <2>1 DEF TornInv, Followed, L
  <2>3. j + 1 \in 1 .. L /\ j < Len(log')
    BY <1>2, <1>3, <1>4, <2>2
  <2> QED  BY <1>2, <2>1, <2>2, <2>3
<1>5. ASSUME NEW m \in 1 .. Len(buffer[c]), j = L + m
      PROVE  /\ j < Len(log')
             /\ log'[j + 1] = Unit(log'[j].child, log'[j].rec, log'[j].pos + 1)
  <2>1. log'[j].child = c /\ log'[j].rec = R /\ log'[j].pos = Flushed(c) + m
    BY <1>2, <1>5, UnitFields
  <2>2. records[c][R] = Length(c) /\ Flushed(c) + m < Length(c)
        /\ (Flushed(c) + m) % Cap # 0
    BY <2>1 DEF Length, R
  <2>3. m # Len(buffer[c])
    <3> SUFFICES ASSUME m = Len(buffer[c])  PROVE FALSE
      OBVIOUS
    <3>1. Flushed(c) + m = done[c]
      BY <1>3
    <3>2. done[c] < Length(c) /\ done[c] % Cap # 0
      BY <2>2, <3>1
    <3>3. done[c] # Length(c)
      BY <1>3, <3>2
    <3> QED  BY <3>2, <3>3
  <2>4. m + 1 \in 1 .. Len(buffer[c]) /\ L + (m + 1) = j + 1
        /\ Flushed(c) + (m + 1) = (Flushed(c) + m) + 1
    BY <1>3, <1>5, <2>3
  <2>5. j < Len(log') /\ log'[j + 1] = Unit(c, R, (Flushed(c) + m) + 1)
    BY <1>2, <1>3, <1>5, <2>4
  <2> QED  BY <2>1, <2>5
<1> QED  BY <1>2, <1>4, <1>5
LEMMA FullSame ==
  ASSUME FullInv, TypeOK, NEW c \in Children,
         \A d \in Children : d # c =>
           state'[d] = state[d] /\ done'[d] = done[d] /\ buffer'[d] = buffer[d],
         state'[c] = "writing" => Flushed(c)' >= 0 /\ Flushed(c)' % Cap = 0
  PROVE  FullInv'
BY DEF FullInv, Flushed

LEMMA SpillFull ==
  ASSUME IInv, FullInv, NEW c \in Children, state[c] = "writing", Len(buffer[c]) = Cap
  PROVE  done[c] \in Nat /\ done[c] % Cap = 0
<1>1. /\ done[c] \in Nat /\ Flushed(c) = done[c] - Cap
      /\ Flushed(c) >= 0 /\ Flushed(c) % Cap = 0 /\ Cap \in Nat \ {0}
  BY Types, LogAssumption DEF IInv, FullInv, Flushed
<1>2. (Flushed(c) + Cap) % Cap = 0
  <2>1. Flushed(c) \in Nat
    BY <1>1
  <2> QED  BY <1>1, <2>1, ModAdd
<1>3. Flushed(c) + Cap = done[c]
  BY <1>1
<1> QED  BY <1>1, <1>2, <1>3

Parts == ShortInv /\ TornInv /\ FullInv

LEMMA PartsInit == Init => Parts
<1> SUFFICES ASSUME Init  PROVE Parts
  OBVIOUS
<1>1. Len(log) = 0 /\ \A c \in Children : state[c] = "idle"
  BY DEF Init
<1> QED  BY <1>1 DEF Parts, ShortInv, TornInv, FullInv

LEMMA PartsNext == IInv /\ Parts /\ [Next]_vars => Parts'
<1> SUFFICES ASSUME IInv, Parts, [Next]_vars  PROVE Parts'
  OBVIOUS
<1> USE DEF Parts
<1>1. TypeOK /\ PlaceInv /\ \A c \in Children : ChildInv(c)
  BY DEF IInv
<1>2. ASSUME NEW c \in Children, NEW len \in Lengths, Open(c, len)  PROVE Parts'
  <2>1. /\ log' = log /\ Flushed(c)' = 0
        /\ \A r \in 1 .. Len(records[c]) : records'[c][r] = records[c][r]
    BY <1>1, <1>2, OpenFacts
  <2>2. \A d \in Children : d # c =>
          /\ state'[d] = state[d] /\ records'[d] = records[d]
          /\ done'[d] = done[d] /\ buffer'[d] = buffer[d]
    BY <1>1, <1>2, OthersUntouched
  <2>3. SameLengths
    BY <1>1, <2>1, <2>2 DEF SameLengths, PlaceInv, WasWritten
  <2>4. 0 % Cap = 0
    BY LogAssumption
  <2>5. FullInv'
    BY <1>1, <2>1, <2>2, <2>4, FullSame
  <2> QED  BY <2>1, <2>3, <2>5, QuietParts
<1>3. ASSUME NEW c \in Children, Put(c)  PROVE Parts'
  <2>1. \A d \in Children : d # c =>
          /\ state'[d] = state[d] /\ records'[d] = records[d]
          /\ done'[d] = done[d] /\ buffer'[d] = buffer[d]
    BY <1>1, <1>3, OthersUntouched
  <2>2. CASE Len(buffer[c]) < Cap
    <3>1. log' = log /\ state' = state /\ records' = records /\ Flushed(c)' = Flushed(c)
      BY <1>1, <1>3, <2>2, PutFacts
    <3>2. SameLengths
      BY <3>1 DEF SameLengths
    <3>3. FullInv'
      BY <1>1, <2>1, <3>1, FullSame DEF FullInv
    <3> QED  BY <3>1, <3>2, <3>3, QuietParts
  <2>3. CASE ~(Len(buffer[c]) < Cap)
    <3>1. Flush(c) /\ Len(buffer[c]) = Cap /\ Length(c) > Cap
      BY <1>1, <1>3, <2>3, SpillFacts
    <3>2. state[c] = "writing" /\ Flushed(c)' = done[c] /\ records[c] # <<>>
      BY <1>1, <3>1 DEF Flush, ChildInv
    <3>3. done[c] \in Nat /\ done[c] % Cap = 0
      BY <3>1, <3>2, SpillFull
    <3>4. ~(Length(c) <= Cap)
      BY <1>1, <3>1, <3>2, Types, LogAssumption
    <3>5. FullInv'
      BY <1>1, <2>1, <3>2, <3>3, FullSame
    <3> QED  BY <3>1, <3>3, <3>4, <3>5, FlushShort, FlushTorn
  <2> QED  BY <2>2, <2>3
<1>4. ASSUME NEW c \in Children, Close(c)  PROVE Parts'
  <2>1. Flush(c) /\ done[c] = Length(c)
    BY <1>1, <1>4, CloseFacts
  <2>2. state'[c] = "idle"
    BY <1>1, <1>4 DEF Close, TypeOK
  <2>3. FullInv'
    BY <1>1, <1>4, <2>2, OthersUntouched, FullSame
  <2> QED  BY <2>1, <2>3, FlushShort, FlushTorn
<1>5. ASSUME NEW c \in Children, Die(c)  PROVE Parts'
  <2>1. log' = log /\ records' = records /\ state'[c] = "dead"
    BY <1>1, <1>5, DieFacts
  <2>2. SameLengths
    BY <2>1 DEF SameLengths
  <2>3. FullInv'
    BY <1>1, <1>5, <2>1, OthersUntouched, FullSame
  <2> QED  BY <2>1, <2>2, <2>3, QuietParts
<1>6. CASE UNCHANGED vars
  BY <1>6 DEF vars, ShortInv, WholeAt, TornInv, Followed, FullInv, Flushed
<1> QED  BY <1>2, <1>3, <1>4, <1>5, <1>6 DEF Next, Terminated

THEOREM LogParts == Spec => []Parts
BY LogIInv, PartsInit, PartsNext, PTL DEF Spec

(* A record that fits the buffer of its stream stays in one piece, however *)
(* many children append (LogStr, LogState, LogData).                       *)
THEOREM LogShortWhole == Spec => []ShortRecordsWhole
<1>1. ASSUME IInv, Parts  PROVE ShortRecordsWhole
  <2>1. DOMAIN log = 1 .. Len(log)
    BY <1>1 DEF IInv, TypeOK
  <2> QED  BY <1>1, <2>1 DEF Parts, ShortInv, WholeAt, ShortRecordsWhole
<1> QED  BY <1>1, LogIInv, LogParts, PTL

(* A longer one is torn only where stdio's buffer was full (LogData).      *)
THEOREM LogTorn == Spec => []TornAtFullBuffers
<1>1. ASSUME IInv, Parts  PROVE TornAtFullBuffers
  <2>1. DOMAIN log = 1 .. Len(log)
    BY <1>1 DEF IInv, TypeOK
  <2> QED  BY <1>1, <2>1 DEF Parts, TornInv, Followed, TornAtFullBuffers
<1> QED  BY <1>1, LogIInv, LogParts, PTL
=============================================================================
