---------------------------- MODULE CpuRamProofs ----------------------------
(***************************************************************************)
(* For any number of children: the file has an owner, and a child that     *)
(* nobody disturbed and whose commands worked reports the truth. What a    *)
(* child finds in the file depends on what it has seen, step by step: that *)
(* is Undisturbed below. Only a finite set of children is assumed, so that *)
(* there is always an inode left for a new file.                           *)
(***************************************************************************)
EXTENDS CpuRam, FiniteSetTheorems, SequenceTheorems, TLAPS

(* An inode that nothing leads to is empty. *)
FreeEmpty == \A n \in Inodes : ~InUse(n, path, fd) => content[n] = <<>>

(* A child has the file open exactly at the places between an open and the *)
(* close after it.                                                         *)
FdOpen == \A c \in Children :
  fd[c] \in Inodes <=> pc[c] \in {"writeCpu", "writeRam", "read"}

(* The name is there for a child that saw nobody remove it, if one of its  *)
(* commands has opened the file.                                           *)
NameOf(c) ==
  pc[c] \in Window /\ "remove" \notin seen[c] =>
    /\ path \in Inodes \/ "noCpu" \in seen[c]
    /\ pc[c] = "writeRam" => path \in Inodes
    /\ pc[c] \in {"fopen", "read"} =>
         path \in Inodes \/ {"noCpu", "noRam"} \subseteq seen[c]

NameKept == \A c \in Children : NameOf(c)

(* A child that is writing writes to the file of that name, if any, unless *)
(* somebody created another one.                                           *)
SameFile == \A c \in Children :
  pc[c] \in {"writeCpu", "writeRam"} /\ "write" \notin seen[c] =>
    path \in {fd[c], NoInode}

(* What nobody wrote to holds the child's lines, without those that went   *)
(* to an inode whose name was removed or were not written at all.          *)
OwnLines(c, lines) ==
  \/ lines = <<"C", "R">>
  \/ lines = <<"C">> /\ "noRam" \in seen[c]
  \/ lines = <<"R">> /\ "remove" \in seen[c]
  \/ lines = <<>> /\ {"noRam", "remove"} \subseteq seen[c]

LinesOf(c) ==
  {"write", "noCpu"} \cap seen[c] = {} =>
    /\ pc[c] = "writeCpu" => content[fd[c]] = <<>>
    /\ pc[c] = "append" /\ path \in Inodes => content[path] = <<"C">>
    /\ pc[c] = "writeRam" =>
         \/ content[fd[c]] = <<"C">>
         \/ content[fd[c]] = <<>> /\ "remove" \in seen[c]
    /\ pc[c] = "fopen" /\ path \in Inodes => OwnLines(c, content[path])
    /\ pc[c] = "read" => OwnLines(c, content[fd[c]])

Undisturbed == \A c \in Children : LinesOf(c)

IInv ==
  /\ TypeOK
  /\ FileHasOwner
  /\ FreeEmpty
  /\ FdOpen
  /\ NameKept
  /\ SameFile
  /\ Undisturbed
  /\ FalseOnlyIfDisturbed

-----------------------------------------------------------------------------
(* Inodes are enough: more than the children, so that one is left for a    *)
(* new file; and NoInode is none of them.                                  *)
LEMMA NoInodeIsNone ==
  Inodes \subseteq Nat /\ NoInode \in Nat /\ NoInode \notin Inodes
<1>1. Cardinality(Children) \in Nat
  BY CpuRamAssumption, FS_CardinalityType
<1> QED
  BY <1>1 DEF Inodes, NoInode

(* There are more inodes than open descriptors.                            *)
LEMMA InodeLeft ==
  ASSUME NEW opened \in [Children -> Inodes \cup {NoInode}]
  PROVE  \E n \in Inodes : \A c \in Children : opened[c] # n
<1> DEFINE Opened == {opened[c] : c \in Children}
<1>1. IsFiniteSet(Children) /\ Cardinality(Children) \in Nat
  BY CpuRamAssumption, FS_CardinalityType
<1>2. IsFiniteSet(Opened) /\ Cardinality(Opened) <= Cardinality(Children)
  <2>1. opened \in Surjection(Children, Opened)
    <3>1. opened \in [Children -> Opened]
      OBVIOUS
    <3>2. \A t \in Opened : \E c \in Children : opened[c] = t
      OBVIOUS
    <3> QED
      BY <3>1, <3>2 DEF Surjection
  <2> HIDE DEF Opened
  <2> QED
    BY <2>1, <1>1, FS_Surjection
<1>3. IsFiniteSet(Inodes) /\ Cardinality(Inodes) = Cardinality(Children) + 1
  <2>1. 0 \in Int /\ Cardinality(Children) \in Int
    BY <1>1
  <2>2. /\ IsFiniteSet(0 .. Cardinality(Children))
        /\ Cardinality(0 .. Cardinality(Children)) =
             IF 0 > Cardinality(Children) THEN 0
             ELSE Cardinality(Children) - 0 + 1
    BY <2>1, FS_Interval
  <2> QED
    BY <2>2, <1>1 DEF Inodes
<1>4. ~ (Inodes \subseteq Opened)
  <2>1. SUFFICES ASSUME Inodes \subseteq Opened PROVE FALSE
    OBVIOUS
  <2> HIDE DEF Opened
  <2>2. Inodes \in SUBSET Opened
    BY <2>1
  <2>3. Cardinality(Inodes) <= Cardinality(Opened)
    BY <2>2, <1>2, FS_Subset
  <2>4. Cardinality(Opened) \in Nat
    BY <1>2, FS_CardinalityType
  <2> QED
    BY <2>3, <2>4, <1>1, <1>2, <1>3
<1> QED
  BY <1>4

(* An open for writing leads to the file of that name, or to an inode that *)
(* nothing else leads to.                                                  *)
LEMMA TargetIsFree ==
  ASSUME TypeOK
  PROVE  /\ Target \in Inodes
         /\ path \in Inodes => Target = path
         /\ path = NoInode => \A c \in Children : fd[c] # Target
<1>1. CASE path # NoInode
  BY <1>1, NoInodeIsNone DEF Target, TypeOK
<1>2. CASE path = NoInode
  <2>1. \E n \in Inodes : \A c \in Children : fd[c] # n
    BY InodeLeft DEF TypeOK
  <2>2. \E n \in Inodes : ~InUse(n, path, fd)
    BY <2>1, <1>2, NoInodeIsNone DEF InUse
  <2>3. Target \in Inodes /\ ~InUse(Target, path, fd)
    BY <2>2, <1>2 DEF Target
  <2> QED
    BY <2>3, <1>2, NoInodeIsNone DEF InUse
<1> QED
  BY <1>1, <1>2

-----------------------------------------------------------------------------
(* A line more is a longer file.                                           *)
LEMMA AppendOne ==
  /\ Append(<<>>, "R") = <<"R">> /\ Append(<<"C">>, "R") = <<"C", "R">>
  /\ Append(<<"R">>, "R") = <<"R", "R">>
<1>1. ASSUME NEW a \in {"C", "R"}  PROVE Append(<<a>>, "R") = <<a, "R">>
  <2> DEFINE s == Append(<<a>>, "R")
             t == <<a, "R">>
  <2>1. <<a>> \in Seq({"C", "R"}) /\ Len(<<a>>) = 1
    OBVIOUS
  <2>2. s \in Seq({"C", "R"}) /\ Len(s) = 2 /\ s[1] = a /\ s[2] = "R"
    BY <2>1
  <2>3. t \in Seq({"C", "R"}) /\ Len(t) = 2
    OBVIOUS
  <2>4. \A k \in 1 .. 2 : s[k] = t[k]
    BY <2>2
  <2> HIDE DEF s, t
  <2>5. s = t
    BY <2>2, <2>3, <2>4, SeqEqual
  <2> QED
    BY <2>5 DEF s, t
<1>2. Append(<<>>, "R") = <<"R">>
  OBVIOUS
<1> QED
  BY <1>1, <1>2

(* What the lines become, and what is read from them.                      *)
LEMMA LinesBecome ==
  /\ \A s \in FileText : Overwrite(s) \in FileText /\ Appended(s) \in FileText
  /\ Overwrite(<<>>) = <<"C">>
  /\ Appended(<<>>) = <<"R">> /\ Appended(<<"C">>) = <<"C", "R">>
<1>1. /\ Append(<<>>, "R") = <<"R">> /\ Append(<<"C">>, "R") = <<"C", "R">>
      /\ Append(<<"R">>, "R") = <<"R", "R">>
  BY AppendOne
<1>2. ASSUME NEW s \in FileText  PROVE Overwrite(s) \in FileText
  BY DEF Overwrite, FileText
<1>3. ASSUME NEW s \in FileText  PROVE Appended(s) \in FileText
  <2>1. CASE Len(s) < 2
    <3>1. s \in {<<>>, <<"C">>, <<"R">>}
      BY <2>1 DEF FileText
    <3>2. Append(s, "R") \in FileText
      BY <1>1, <3>1 DEF FileText
    <3> QED
      BY <2>1, <3>2 DEF Appended
  <2>2. CASE ~(Len(s) < 2)
    BY <2>2 DEF Appended
  <2> QED
    BY <2>1, <2>2
<1>4. Overwrite(<<>>) = <<"C">>
  BY DEF Overwrite
<1>5. Appended(<<>>) = <<"R">> /\ Appended(<<"C">>) = <<"C", "R">>
  BY <1>1 DEF Appended
<1> QED
  BY <1>2, <1>3, <1>4, <1>5

(* Both numbers come out of the lines a child writes on its own, and the   *)
(* one whose line is there if one is not.                                  *)
LEMMA ParsedLines ==
  /\ \A s \in FileText :
       Parsed(s) \in Report /\ Parsed(s).CPUHz # "uninit"
  /\ Parsed(<<"C", "R">>) = TrueReport
  /\ Parsed(<<"C">>) = [CPUHz |-> "true", RAM |-> "zero"]
  /\ Parsed(<<"R">>) = [CPUHz |-> "zero", RAM |-> "true"]
  /\ Parsed(<<>>) = [CPUHz |-> "zero", RAM |-> "zero"]
<1>1. ASSUME NEW s \in FileText
      PROVE  Parsed(s) \in Report /\ Parsed(s).CPUHz # "uninit"
  <2>1. CASE s = <<>>
    BY <2>1 DEF Parsed, Report, CpuValues, RamValues
  <2>2. CASE s # <<>> /\ s[1] # "C"
    <3>1. Parsed(s) = [CPUHz |-> "zero", RAM |-> RamOf(s[1])]
      BY <2>2 DEF Parsed
    <3>2. RamOf(s[1]) \in RamValues
      BY DEF RamOf, RamValues
    <3> QED
      BY <3>1, <3>2 DEF Report, CpuValues
  <2>3. CASE s # <<>> /\ s[1] = "C"
    <3>1. Parsed(s) =
            [CPUHz |-> "true",
             RAM |-> IF Len(s) = 1 THEN "zero" ELSE RamOf(s[2])]
      BY <2>3 DEF Parsed
    <3>2. (IF Len(s) = 1 THEN "zero" ELSE RamOf(s[2])) \in RamValues
      BY DEF RamOf, RamValues
    <3> QED
      BY <3>1, <3>2 DEF Report, CpuValues
  <2> QED
    BY <2>1, <2>2, <2>3
<1>2. Parsed(<<"C", "R">>) = TrueReport
  BY DEF Parsed, RamOf, TrueReport
<1>3. Parsed(<<"R">>) = [CPUHz |-> "zero", RAM |-> "true"]
  BY DEF Parsed, RamOf
<1>4. Parsed(<<"C">>) = [CPUHz |-> "true", RAM |-> "zero"]
  BY DEF Parsed, RamOf
<1>5. Parsed(<<>>) = [CPUHz |-> "zero", RAM |-> "zero"]
  BY DEF Parsed
<1> QED
  BY <1>1, <1>2, <1>3, <1>4, <1>5

-----------------------------------------------------------------------------
(* Type correctness, one action at a time.                                 *)
LEMMA KeptType ==
  ASSUME NEW lines \in [Inodes -> FileText]
  PROVE  Kept(lines) \in [Inodes -> FileText]
BY DEF Kept, FileText

(* What the others are shown, and what a command did not do, are happenings. *)
LEMMA ShownType ==
  ASSUME TypeOK, NEW c, NEW what \in Happenings
  PROVE  /\ Shown(c, what) \in [Children -> SUBSET Happenings]
         /\ Failed(c, what) \in [Children -> SUBSET Happenings]
BY DEF Shown, Failed, TypeOK

(* A command ends with the child at a place that is one.                   *)
LEMMA ThenType ==
  ASSUME TypeOK, NEW c, NEW place \in Window,
         NEW happened \in [Children -> SUBSET Happenings],
         Then(c, place, happened)
  PROVE  /\ pc' \in [Children -> {"idle", "session", "done"} \cup Window]
         /\ seen' \in [Children -> SUBSET Happenings]
<1>1. CASE c \in aborted
  BY <1>1 DEF Then, TypeOK
<1>2. CASE c \notin aborted
  BY <1>2 DEF Then, TypeOK
<1> QED
  BY <1>1, <1>2

(* Every step keeps the types; only an open file is written or read.       *)
LEMMA TypeOKStep ==
  ASSUME TypeOK, FdOpen, NEW c \in Children, Child(c)
  PROVE  TypeOK'
<1>0. /\ Target \in Inodes
      /\ Shown(c, "write") \in [Children -> SUBSET Happenings]
      /\ Shown(c, "remove") \in [Children -> SUBSET Happenings]
      /\ Failed(c, "noCpu") \in [Children -> SUBSET Happenings]
      /\ Failed(c, "noRam") \in [Children -> SUBSET Happenings]
  BY TargetIsFree, ShownType DEF Happenings
<1>a. "append" \in Window /\ "fopen" \in Window
  BY DEF Window
<1>1. CASE OpenTrunc(c)
  BY <1>0, <1>1 DEF OpenTrunc, Begin, TypeOK, FileText, Window
<1>2. CASE WriteCpu(c)
  <2>1. fd[c] \in Inodes
    BY <1>2 DEF FdOpen, WriteCpu
  <2>2. [content EXCEPT ![fd[c]] = Overwrite(@)] \in [Inodes -> FileText]
    BY <2>1, LinesBecome DEF TypeOK
  <2>3. content' \in [Inodes -> FileText]
    BY <1>2, <2>2, KeptType DEF WriteCpu
  <2>4. /\ pc' \in [Children -> {"idle", "session", "done"} \cup Window]
        /\ seen' \in [Children -> SUBSET Happenings]
    BY <1>0, <1>a, <1>2, ThenType DEF WriteCpu
  <2> QED
    BY <1>2, <2>3, <2>4 DEF WriteCpu, TypeOK
<1>3. CASE OpenAppend(c)
  BY <1>0, <1>3 DEF OpenAppend, TypeOK, Window
<1>4. CASE WriteRam(c)
  <2>1. fd[c] \in Inodes
    BY <1>4 DEF FdOpen, WriteRam
  <2>2. [content EXCEPT ![fd[c]] = Appended(@)] \in [Inodes -> FileText]
    BY <2>1, LinesBecome DEF TypeOK
  <2>3. content' \in [Inodes -> FileText]
    BY <1>4, <2>2, KeptType DEF WriteRam
  <2>4. /\ pc' \in [Children -> {"idle", "session", "done"} \cup Window]
        /\ seen' \in [Children -> SUBSET Happenings]
    BY <1>0, <1>a, <1>4, ThenType DEF WriteRam
  <2> QED
    BY <1>4, <2>3, <2>4 DEF WriteRam, TypeOK
<1>5. CASE FOpen(c)
  <2>1. [CPUHz |-> "uninit", RAM |-> "uninit"] \in Report
    BY DEF Report, CpuValues, RamValues
  <2> QED
    BY <1>5, <2>1 DEF FOpen, TypeOK, Window
<1>6. CASE Read(c)
  <2>1. fd[c] \in Inodes
    BY <1>6 DEF FdOpen, Read
  <2>2. Parsed(content[fd[c]]) \in Report
    BY <2>1, ParsedLines DEF TypeOK
  <2>3. content' \in [Inodes -> FileText]
    BY <1>6, KeptType DEF Read, TypeOK
  <2> QED
    BY <1>6, <2>2, <2>3 DEF Read, TypeOK
<1>7. CASE EndSession(c)
  <2>1. content' \in [Inodes -> FileText]
    BY <1>7, KeptType DEF EndSession, TypeOK
  <2>2. seen' \in [Children -> SUBSET Happenings]
    BY <1>0, <1>7 DEF EndSession, TypeOK
  <2> QED
    BY <1>7, <2>1, <2>2 DEF EndSession, TypeOK
<1>8. CASE Abort(c)
  <2>1. content' \in [Inodes -> FileText]
    BY <1>8, KeptType DEF Abort, TypeOK
  <2> QED
    BY <1>8, <2>1 DEF Abort, TypeOK
<1>9. CASE NoTrunc(c)
  <2>1. [seen EXCEPT ![c] = {"noCpu"}] \in [Children -> SUBSET Happenings]
    BY DEF TypeOK, Happenings
  <2>2. /\ pc' \in [Children -> {"idle", "session", "done"} \cup Window]
        /\ seen' \in [Children -> SUBSET Happenings]
    BY <1>a, <1>9, <2>1, ThenType DEF NoTrunc
  <2> QED
    BY <1>9, <2>2 DEF NoTrunc, TypeOK
<1>10. CASE WriteNoCpu(c)
  <2>1. content' \in [Inodes -> FileText]
    BY <1>10, KeptType DEF WriteNoCpu, TypeOK
  <2>2. /\ pc' \in [Children -> {"idle", "session", "done"} \cup Window]
        /\ seen' \in [Children -> SUBSET Happenings]
    BY <1>0, <1>a, <1>10, ThenType DEF WriteNoCpu
  <2> QED
    BY <1>10, <2>1, <2>2 DEF WriteNoCpu, TypeOK
<1>11. CASE NoAppend(c)
  <2>1. /\ pc' \in [Children -> {"idle", "session", "done"} \cup Window]
        /\ seen' \in [Children -> SUBSET Happenings]
    BY <1>0, <1>a, <1>11, ThenType DEF NoAppend
  <2> QED
    BY <1>11, <2>1 DEF NoAppend, TypeOK
<1>12. CASE WriteNoRam(c)
  <2>1. content' \in [Inodes -> FileText]
    BY <1>12, KeptType DEF WriteNoRam, TypeOK
  <2>2. /\ pc' \in [Children -> {"idle", "session", "done"} \cup Window]
        /\ seen' \in [Children -> SUBSET Happenings]
    BY <1>0, <1>a, <1>12, ThenType DEF WriteNoRam
  <2> QED
    BY <1>12, <2>1, <2>2 DEF WriteNoRam, TypeOK
<1> QED
  BY <1>1, <1>2, <1>3, <1>4, <1>5, <1>6, <1>7, <1>8, <1>9, <1>10, <1>11, <1>12
  DEF Child

(* Where the end of a command leaves the child and the others, and what    *)
(* each has seen then.                                                     *)
LEMMA ThenPlaces ==
  ASSUME TypeOK, NEW c \in Children, NEW place,
         NEW happened \in [Children -> SUBSET Happenings],
         Then(c, place, happened)
  PROVE  /\ \/ pc'[c] = place /\ seen'[c] = happened[c] /\ c \notin aborted
            \/ pc'[c] = "done" /\ seen'[c] = {} /\ c \in aborted
         /\ \A d \in Children \ {c} :
              pc'[d] = pc[d] /\ seen'[d] = happened[d]
<1>1. CASE c \in aborted
  BY <1>1 DEF Then, TypeOK
<1>2. CASE c \notin aborted
  BY <1>2 DEF Then, TypeOK
<1> QED
  BY <1>1, <1>2

(* The end of either command, whether it did its work or not: the file it  *)
(* had open is closed, and what it has seen is what was shown before and   *)
(* its failure.                                                            *)
CommandEnds(c, place, what) ==
  /\ path' = path /\ report' = report /\ aborted' = aborted
  /\ fd' = [fd EXCEPT ![c] = NoInode]
  /\ \/ pc'[c] = place /\ seen'[c] = seen[c] \cup what /\ c \notin aborted
     \/ pc'[c] = "done" /\ seen'[c] = {} /\ c \in aborted
  /\ \A d \in Children \ {c} : pc'[d] = pc[d]

(* The steps at which a command ends are such ends.                        *)
LEMMA CommandSteps ==
  ASSUME TypeOK, FdOpen, NEW c \in Children
  PROVE  /\ WriteCpu(c) => CommandEnds(c, "append", {})
         /\ WriteNoCpu(c) => CommandEnds(c, "append", {"noCpu"})
         /\ WriteRam(c) => CommandEnds(c, "fopen", {})
         /\ WriteNoRam(c) => CommandEnds(c, "fopen", {"noRam"})
         /\ NoAppend(c) => CommandEnds(c, "fopen", {"noRam"})
<1>0. /\ Shown(c, "write") \in [Children -> SUBSET Happenings]
      /\ Failed(c, "noCpu") \in [Children -> SUBSET Happenings]
      /\ Failed(c, "noRam") \in [Children -> SUBSET Happenings]
      /\ Shown(c, "write")[c] = seen[c]
      /\ Failed(c, "noCpu")[c] = seen[c] \cup {"noCpu"}
      /\ Failed(c, "noRam")[c] = seen[c] \cup {"noRam"}
  BY ShownType DEF Happenings, Shown, Failed, TypeOK
<1>1. WriteCpu(c) => CommandEnds(c, "append", {})
  BY <1>0, ThenPlaces DEF WriteCpu, CommandEnds
<1>2. WriteNoCpu(c) => CommandEnds(c, "append", {"noCpu"})
  BY <1>0, ThenPlaces DEF WriteNoCpu, CommandEnds
<1>3. WriteRam(c) => CommandEnds(c, "fopen", {})
  BY <1>0, ThenPlaces DEF WriteRam, CommandEnds
<1>4. WriteNoRam(c) => CommandEnds(c, "fopen", {"noRam"})
  BY <1>0, ThenPlaces DEF WriteNoRam, CommandEnds
<1>5. NoAppend(c) => CommandEnds(c, "fopen", {"noRam"})
  <2>1. SUFFICES ASSUME NoAppend(c) PROVE CommandEnds(c, "fopen", {"noRam"})
    OBVIOUS
  <2>2. fd[c] = NoInode
    BY <2>1 DEF NoAppend, FdOpen, TypeOK
  <2>3. fd' = [fd EXCEPT ![c] = NoInode]
    BY <2>1, <2>2 DEF NoAppend, TypeOK
  <2> QED
    BY <1>0, <2>1, <2>3, ThenPlaces DEF NoAppend, CommandEnds
<1> QED
  BY <1>1, <1>2, <1>3, <1>4, <1>5

(* A command that is not started leaves everything but the places.         *)
LEMMA NoTruncStep ==
  ASSUME TypeOK, FdOpen, NEW c \in Children, NoTrunc(c)
  PROVE  /\ fd[c] = NoInode
         /\ path' = path /\ fd' = fd /\ content' = content
         /\ aborted' = aborted
         /\ \/ pc'[c] = "append" /\ seen'[c] = {"noCpu"} /\ c \notin aborted
            \/ pc'[c] = "done" /\ seen'[c] = {} /\ c \in aborted
         /\ \A d \in Children \ {c} :
              /\ pc'[d] = pc[d] /\ seen'[d] = seen[d]
              /\ report'[d] = report[d]
<1> DEFINE happened == [seen EXCEPT ![c] = {"noCpu"}]
<1>1. happened \in [Children -> SUBSET Happenings]
  BY DEF TypeOK, Happenings
<1>2. fd[c] = NoInode
  BY DEF NoTrunc, FdOpen, TypeOK
<1>3. /\ happened[c] = {"noCpu"}
      /\ \A d \in Children \ {c} : happened[d] = seen[d]
  BY DEF TypeOK
<1>4. Then(c, "append", happened)
  BY DEF NoTrunc
<1>5. \A d \in Children \ {c} : report'[d] = report[d]
  BY DEF NoTrunc, TypeOK
<1> HIDE DEF happened
<1>6. /\ \/ pc'[c] = "append" /\ seen'[c] = {"noCpu"} /\ c \notin aborted
         \/ pc'[c] = "done" /\ seen'[c] = {} /\ c \in aborted
      /\ \A d \in Children \ {c} : pc'[d] = pc[d] /\ seen'[d] = seen[d]
  BY <1>1, <1>3, <1>4, ThenPlaces
<1> QED
  BY <1>2, <1>5, <1>6 DEF NoTrunc

(* The steps at which a command ends, one for each of its outcomes.        *)
Ends(c) ==
  WriteCpu(c) \/ WriteNoCpu(c) \/ WriteRam(c) \/ WriteNoRam(c) \/ NoAppend(c)

(* A child opens the file before it uses it and closes it after.           *)
LEMMA FdOpenStep ==
  ASSUME TypeOK, FdOpen, NEW c \in Children, Child(c)
  PROVE  FdOpen'
<1> USE NoInodeIsNone, TargetIsFree DEF Window, TypeOK, FdOpen
<1>1. CASE OpenTrunc(c)
  BY <1>1 DEF OpenTrunc
<1>2. CASE Ends(c)
  <2>1. \/ CommandEnds(c, "append", {}) \/ CommandEnds(c, "append", {"noCpu"})
        \/ CommandEnds(c, "fopen", {}) \/ CommandEnds(c, "fopen", {"noRam"})
    BY <1>2, CommandSteps DEF Ends
  <2> QED
    BY <2>1 DEF CommandEnds
<1>3. CASE OpenAppend(c)
  BY <1>3 DEF OpenAppend
<1>4. CASE NoTrunc(c)
  BY <1>4, NoTruncStep
<1>5. CASE FOpen(c)
  BY <1>5 DEF FOpen
<1>6. CASE Read(c)
  BY <1>6 DEF Read
<1>7. CASE EndSession(c)
  BY <1>7 DEF EndSession
<1>8. CASE Abort(c)
  BY <1>8 DEF Abort, HasOpen
<1> QED
  BY <1>1, <1>2, <1>3, <1>4, <1>5, <1>6, <1>7, <1>8 DEF Child, Ends

(* A step on the file leaves the child in its session, but for those that  *)
(* remove the file, and for a child that is killed.                        *)
LEMMA FileHasOwnerStep ==
  ASSUME TypeOK, FdOpen, FileHasOwner, NEW c \in Children, Child(c)
  PROVE  FileHasOwner'
<1>1. CASE EndSession(c)
  BY <1>1 DEF EndSession, FileHasOwner
<1>2. CASE Abort(c)
  BY <1>2 DEF Abort, FileHasOwner
<1>3. CASE Ends(c)
  <2>1. \/ CommandEnds(c, "append", {}) \/ CommandEnds(c, "append", {"noCpu"})
        \/ CommandEnds(c, "fopen", {}) \/ CommandEnds(c, "fopen", {"noRam"})
    BY <1>3, CommandSteps DEF Ends
  <2>2. pc'[c] \in Window \/ aborted' # {}
    BY <2>1 DEF CommandEnds, Window
  <2> QED
    BY <2>2 DEF FileHasOwner
<1>4. CASE NoTrunc(c)
  <2>1. pc'[c] \in Window \/ aborted' # {}
    BY <1>4, NoTruncStep DEF Window
  <2> QED
    BY <2>1 DEF FileHasOwner
<1>5. CASE OpenTrunc(c) \/ OpenAppend(c) \/ FOpen(c) \/ Read(c)
  <2>1. pc'[c] \in Window \cup {"session"}
    BY <1>5 DEF OpenTrunc, OpenAppend, FOpen, Read, Window, TypeOK
  <2> QED
    BY <2>1 DEF FileHasOwner
<1> QED
  BY <1>1, <1>2, <1>3, <1>4, <1>5 DEF Child, Ends

-----------------------------------------------------------------------------
(* No line is left in an inode that is free, so a new file is empty.       *)
LEMMA FreeEmptyStep ==
  ASSUME TypeOK, FdOpen, FreeEmpty, NEW c \in Children, Child(c)
  PROVE  FreeEmpty'
<1>1. ASSUME NEW lines \in [Inodes -> FileText], content' = Kept(lines)
      PROVE  FreeEmpty'
  BY <1>1 DEF Kept, FreeEmpty
<1>2. CASE OpenTrunc(c)
  <2>1. fd[c] = NoInode
    BY <1>2 DEF OpenTrunc, Begin, FdOpen, TypeOK
  <2>2. ASSUME NEW n \in Inodes, ~InUse(n, path', fd')
        PROVE  content'[n] = <<>>
    <3>1. n # Target /\ path' = Target
      BY <1>2, <2>2 DEF OpenTrunc, InUse
    <3>2. n # path
      BY <3>1, TargetIsFree, NoInodeIsNone
    <3>3. \A e \in Children : fd[e] # n
      BY <1>2, <2>1, <2>2, NoInodeIsNone DEF OpenTrunc, InUse, TypeOK
    <3>4. content[n] = <<>>
      BY <3>2, <3>3 DEF FreeEmpty, InUse
    <3> QED
      BY <1>2, <3>1, <3>4 DEF OpenTrunc, TypeOK
  <2> QED
    BY <2>2 DEF FreeEmpty
<1>3. CASE OpenAppend(c)
  <2>1. fd[c] = NoInode
    BY <1>3 DEF OpenAppend, FdOpen, TypeOK
  <2>2. ASSUME NEW n \in Inodes, ~InUse(n, path', fd')
        PROVE  content'[n] = <<>>
    <3>1. n # Target /\ path' = Target
      BY <1>3, <2>2 DEF OpenAppend, InUse
    <3>2. n # path
      BY <3>1, TargetIsFree, NoInodeIsNone
    <3>3. \A e \in Children : fd[e] # n
      BY <1>3, <2>1, <2>2, NoInodeIsNone DEF OpenAppend, InUse, TypeOK
    <3>4. content[n] = <<>>
      BY <3>2, <3>3 DEF FreeEmpty, InUse
    <3> QED
      BY <1>3, <3>4 DEF OpenAppend
  <2> QED
    BY <2>2 DEF FreeEmpty
<1>4. CASE WriteCpu(c)
  <2>1. [content EXCEPT ![fd[c]] = Overwrite(@)] \in [Inodes -> FileText]
    BY <1>4, LinesBecome DEF WriteCpu, FdOpen, TypeOK
  <2> QED
    BY <1>1, <1>4, <2>1 DEF WriteCpu
<1>5. CASE WriteRam(c)
  <2>1. [content EXCEPT ![fd[c]] = Appended(@)] \in [Inodes -> FileText]
    BY <1>5, LinesBecome DEF WriteRam, FdOpen, TypeOK
  <2> QED
    BY <1>1, <1>5, <2>1 DEF WriteRam
<1>6. CASE FOpen(c)
  <2>1. ASSUME NEW n \in Inodes, ~InUse(n, path', fd')
        PROVE  ~InUse(n, path, fd)
    BY <1>6, <2>1, NoInodeIsNone DEF FOpen, InUse, TypeOK, FdOpen
  <2> QED
    BY <1>6, <2>1 DEF FOpen, FreeEmpty
<1>7. CASE NoTrunc(c)
  <2>1. path' = path /\ fd' = fd /\ content' = content
    BY <1>7 DEF NoTrunc
  <2> QED
    BY <2>1 DEF FreeEmpty, InUse
<1>8. CASE NoAppend(c)
  <2>1. path' = path /\ fd' = fd /\ content' = content
    BY <1>8 DEF NoAppend
  <2> QED
    BY <2>1 DEF FreeEmpty, InUse
<1>9. CASE WriteNoCpu(c) \/ WriteNoRam(c) \/ Read(c) \/ EndSession(c)
  BY <1>1, <1>9 DEF WriteNoCpu, WriteNoRam, Read, EndSession, TypeOK
<1>10. CASE Abort(c)
  <2>1. CASE path' = path /\ fd' = fd /\ content' = content
    BY <2>1 DEF FreeEmpty, InUse
  <2>2. CASE content' = Kept(content)
    BY <1>1, <2>2 DEF TypeOK
  <2> QED
    BY <1>10, <2>1, <2>2 DEF Abort
<1> QED
  BY <1>2, <1>3, <1>4, <1>5, <1>6, <1>7, <1>8, <1>9, <1>10 DEF Child

-----------------------------------------------------------------------------
(* What the end of a command is to another child: either the command wrote *)
(* and the other has seen it, or the inodes in use hold what they held.    *)
LEMMA CommandToOthers ==
  ASSUME TypeOK, FdOpen, NEW c \in Children, Ends(c),
         NEW d \in Children, d # c
  PROVE  /\ pc'[d] = pc[d] /\ fd'[d] = fd[d] /\ report'[d] = report[d]
         /\ path' = path /\ seen[d] \subseteq seen'[d]
         /\ pc[d] \notin Window => seen'[d] = seen[d]
         /\ \/ pc[d] \in Window => "write" \in seen'[d]
            \/ \A n \in Inodes :
                 InUse(n, path', fd') => content'[n] = content[n]
<1>1. /\ pc'[d] = pc[d] /\ fd'[d] = fd[d] /\ report'[d] = report[d]
      /\ path' = path
  <2>1. \/ CommandEnds(c, "append", {}) \/ CommandEnds(c, "append", {"noCpu"})
        \/ CommandEnds(c, "fopen", {}) \/ CommandEnds(c, "fopen", {"noRam"})
    BY CommandSteps DEF Ends
  <2> QED
    BY <2>1 DEF CommandEnds, TypeOK
<1>0. /\ Shown(c, "write") \in [Children -> SUBSET Happenings]
      /\ Failed(c, "noCpu") \in [Children -> SUBSET Happenings]
      /\ Failed(c, "noRam") \in [Children -> SUBSET Happenings]
  BY ShownType DEF Happenings
<1>2. CASE WriteCpu(c) \/ WriteRam(c)
  <2>1. seen'[d] = Shown(c, "write")[d]
    BY <1>0, <1>2, ThenPlaces DEF WriteCpu, WriteRam
  <2>2. seen'[d] = IF pc[d] \in Window THEN seen[d] \cup {"write"} ELSE seen[d]
    BY <2>1 DEF Shown
  <2> QED
    BY <1>1, <2>2
<1>3. CASE WriteNoCpu(c) \/ WriteNoRam(c)
  <2>1. \/ seen'[d] = Failed(c, "noCpu")[d]
        \/ seen'[d] = Failed(c, "noRam")[d]
    BY <1>0, <1>3, ThenPlaces DEF WriteNoCpu, WriteNoRam
  <2>2. seen'[d] = seen[d]
    BY <2>1 DEF Failed, TypeOK
  <2>3. content' = Kept(content)
    BY <1>3 DEF WriteNoCpu, WriteNoRam
  <2> QED
    BY <1>1, <2>2, <2>3 DEF Kept
<1>4. CASE NoAppend(c)
  <2>1. seen'[d] = Failed(c, "noRam")[d] /\ content' = content
    BY <1>0, <1>4, ThenPlaces DEF NoAppend
  <2>2. seen'[d] = seen[d]
    BY <2>1 DEF Failed, TypeOK
  <2> QED
    BY <1>1, <2>1, <2>2
<1> QED
  BY <1>2, <1>3, <1>4 DEF Ends

(* What a step of child c is to another child d: d stays where it is, and  *)
(* either d has seen a write, or what d can reach holds what it held.      *)
LEMMA Others ==
  ASSUME TypeOK, FdOpen, NEW c \in Children, Child(c),
         NEW d \in Children, d # c
  PROVE  /\ pc'[d] = pc[d] /\ fd'[d] = fd[d] /\ report'[d] = report[d]
         /\ seen[d] \subseteq seen'[d]
         /\ pc[d] \notin Window => seen'[d] = seen[d]
         /\ path \in Inodes =>
              path' \in Inodes \/ pc[d] \notin Window \/ "remove" \in seen'[d]
         /\ \/ pc[d] \in Window => "write" \in seen'[d]
            \/ /\ path' \in {path, NoInode}
               /\ \A n \in Inodes :
                    InUse(n, path', fd') => content'[n] = content[n]
<1>1. CASE OpenTrunc(c)
  BY <1>1, TargetIsFree, NoInodeIsNone DEF OpenTrunc, Begin, Shown, TypeOK
<1>2. CASE Ends(c)
  BY <1>2, CommandToOthers
<1>3. CASE OpenAppend(c)
  BY <1>3, TargetIsFree, NoInodeIsNone DEF OpenAppend, Shown, TypeOK
<1>4. CASE NoTrunc(c)
  BY <1>4, NoTruncStep
<1>5. CASE FOpen(c)
  BY <1>5 DEF FOpen, TypeOK
<1>6. CASE Read(c)
  BY <1>6 DEF Read, Kept, TypeOK
<1>7. CASE EndSession(c)
  <2>1. /\ pc'[d] = pc[d] /\ fd'[d] = fd[d] /\ report'[d] = report[d]
        /\ path' = NoInode
    BY <1>7 DEF EndSession, TypeOK
  <2>2. seen'[d] = IF path = NoInode \/ pc[d] \notin Window THEN seen[d]
                   ELSE seen[d] \cup {"remove"}
    BY <1>7 DEF EndSession, Shown, TypeOK
  <2>3. \A n \in Inodes : InUse(n, path', fd') => content'[n] = content[n]
    BY <1>7 DEF EndSession, Kept
  <2> QED
    BY <2>1, <2>2, <2>3, NoInodeIsNone
<1>8. CASE Abort(c)
  <2>1. /\ pc'[d] = pc[d] /\ fd'[d] = fd[d] /\ report'[d] = report[d]
        /\ path' = path /\ seen'[d] = seen[d]
    BY <1>8 DEF Abort, TypeOK
  <2>2. \A n \in Inodes : InUse(n, path', fd') => content'[n] = content[n]
    BY <1>8 DEF Abort, Kept
  <2> QED
    BY <2>1, <2>2
<1> QED
  BY <1>1, <1>2, <1>3, <1>4, <1>5, <1>6, <1>7, <1>8 DEF Child, Ends

-----------------------------------------------------------------------------
(* The name stays for a child that does not see it removed, unless its own *)
(* commands opened nothing.                                                *)
LEMMA NameKeptStep ==
  ASSUME TypeOK, FdOpen, NameKept, NEW c \in Children, Child(c)
  PROVE  NameKept'
<1>1. ASSUME NEW d \in Children, d # c PROVE NameOf(d)'
  <2>1. NameOf(d)
    BY DEF NameKept
  <2>2. /\ pc'[d] = pc[d] /\ seen[d] \subseteq seen'[d]
        /\ path \in Inodes =>
             path' \in Inodes \/ pc[d] \notin Window \/ "remove" \in seen'[d]
    BY <1>1, Others
  <2> QED
    BY <2>1, <2>2 DEF NameOf
<1>2. NameOf(c)'
  <2>0. NameOf(c)
    BY DEF NameKept
  <2>1. CASE OpenTrunc(c) \/ OpenAppend(c)
    <3>1. path' \in Inodes /\ pc'[c] \in {"writeCpu", "writeRam"}
      BY <2>1, TargetIsFree DEF OpenTrunc, OpenAppend, TypeOK
    <3> QED
      BY <3>1 DEF NameOf
  <2>2. CASE NoTrunc(c)
    BY <2>2, NoTruncStep DEF NameOf, Window
  <2>3. CASE WriteCpu(c) \/ WriteNoCpu(c)
    <3>1. /\ pc[c] = "writeCpu" /\ path' = path
          /\ \/ pc'[c] = "append" /\ seen[c] \subseteq seen'[c]
             \/ pc'[c] = "done"
      BY <2>3, CommandSteps DEF CommandEnds, WriteCpu, WriteNoCpu
    <3> QED
      BY <2>0, <3>1 DEF NameOf, Window
  <2>4. CASE WriteRam(c) \/ WriteNoRam(c)
    <3>1. /\ pc[c] = "writeRam" /\ path' = path
          /\ \/ pc'[c] = "fopen" /\ seen[c] \subseteq seen'[c]
             \/ pc'[c] = "done"
      BY <2>4, CommandSteps DEF CommandEnds, WriteRam, WriteNoRam
    <3> QED
      BY <2>0, <3>1 DEF NameOf, Window
  <2>5. CASE NoAppend(c)
    <3>1. /\ pc[c] = "append" /\ path' = path
          /\ \/ pc'[c] = "fopen" /\ seen'[c] = seen[c] \cup {"noRam"}
             \/ pc'[c] = "done"
      BY <2>5, CommandSteps DEF CommandEnds, NoAppend
    <3> QED
      BY <2>0, <3>1 DEF NameOf, Window
  <2>6. CASE FOpen(c)
    <3>1. \/ pc'[c] = "session"
          \/ path' \in Inodes /\ pc'[c] = "read"
      BY <2>6 DEF FOpen, TypeOK
    <3> QED
      BY <3>1 DEF NameOf, Window
  <2>7. CASE Read(c) \/ EndSession(c)
    <3>1. pc'[c] \notin Window
      BY <2>7 DEF Read, EndSession, TypeOK, Window
    <3> QED
      BY <3>1 DEF NameOf
  <2>8. CASE Abort(c)
    <3>1. \/ pc'[c] = "done"
          \/ pc' = pc /\ path' = path /\ seen' = seen
      BY <2>8 DEF Abort, TypeOK
    <3> QED
      BY <2>0, <3>1 DEF NameOf, Window
  <2> QED
    BY <2>1, <2>2, <2>3, <2>4, <2>5, <2>6, <2>7, <2>8 DEF Child
<1> QED
  BY <1>1, <1>2 DEF NameKept

(* A file of that name that is another one was created before its eyes.    *)
LEMMA SameFileStep ==
  ASSUME TypeOK, FdOpen, SameFile, NEW c \in Children, Child(c)
  PROVE  SameFile'
<1>1. ASSUME NEW d \in Children, d # c,
             pc'[d] \in {"writeCpu", "writeRam"}, "write" \notin seen'[d]
      PROVE  path' \in {fd'[d], NoInode}
  <2>1. /\ pc'[d] = pc[d] /\ fd'[d] = fd[d] /\ seen[d] \subseteq seen'[d]
        /\ path' \in {path, NoInode}
    BY <1>1, Others DEF Window
  <2> QED
    BY <1>1, <2>1 DEF SameFile
<1>2. ASSUME pc'[c] \in {"writeCpu", "writeRam"}, "write" \notin seen'[c]
      PROVE  path' \in {fd'[c], NoInode}
  <2>1. CASE OpenTrunc(c) \/ OpenAppend(c)
    BY <2>1 DEF OpenTrunc, OpenAppend, TypeOK
  <2>2. CASE Abort(c)
    <3>1. pc' = pc /\ path' = path /\ fd' = fd /\ seen' = seen
      BY <1>2, <2>2 DEF Abort, TypeOK
    <3> QED
      BY <1>2, <3>1 DEF SameFile
  <2>3. CASE Ends(c) \/ NoTrunc(c)
    <3>1. pc'[c] \in {"append", "fopen", "done"}
      BY <2>3, CommandSteps, NoTruncStep DEF Ends, CommandEnds
    <3> QED
      BY <1>2, <3>1
  <2>4. CASE FOpen(c) \/ Read(c) \/ EndSession(c)
    BY <1>2, <2>4 DEF FOpen, Read, EndSession, TypeOK
  <2> QED
    BY <2>1, <2>2, <2>3, <2>4 DEF Child, Ends
<1> QED
  BY <1>1, <1>2 DEF SameFile

(* What another child does leaves the lines of d as they are, or d sees it *)
(* write.                                                                  *)
LEMMA LinesOfOther ==
  ASSUME TypeOK, FdOpen, NEW c \in Children, Child(c),
         NEW d \in Children, d # c, LinesOf(d)
  PROVE  LinesOf(d)'
<1>1. /\ pc'[d] = pc[d] /\ fd'[d] = fd[d]
      /\ seen[d] \subseteq seen'[d]
  BY Others
<1>2. SUFFICES ASSUME pc[d] \in Window, {"write", "noCpu"} \cap seen'[d] = {}
               PROVE  LinesOf(d)'
  BY <1>1 DEF LinesOf, Window
<1>3. /\ path' \in {path, NoInode}
      /\ \A n \in Inodes : InUse(n, path', fd') => content'[n] = content[n]
  BY <1>2, Others
<1>4. fd[d] \in Inodes => content'[fd'[d]] = content[fd[d]]
  BY <1>1, <1>3 DEF InUse
<1>5. path' \in Inodes => path' = path /\ content'[path'] = content[path]
  BY <1>3, NoInodeIsNone DEF InUse
<1>7. {"write", "noCpu"} \cap seen[d] = {}
  BY <1>1, <1>2
<1>8. pc[d] \in {"writeCpu", "writeRam", "read"} => fd[d] \in Inodes
  BY DEF FdOpen
<1>a. pc'[d] = "writeCpu" => content'[fd'[d]] = <<>>
  BY <1>1, <1>4, <1>7, <1>8 DEF LinesOf
<1>b. pc'[d] = "append" /\ path' \in Inodes => content'[path'] = <<"C">>
  BY <1>1, <1>5, <1>7 DEF LinesOf
<1>c. pc'[d] = "writeRam" =>
        \/ content'[fd'[d]] = <<"C">>
        \/ content'[fd'[d]] = <<>> /\ "remove" \in seen'[d]
  BY <1>1, <1>4, <1>7, <1>8 DEF LinesOf
<1>d. pc'[d] = "fopen" /\ path' \in Inodes => OwnLines(d, content[path])'
  <2>1. SUFFICES ASSUME pc'[d] = "fopen", path' \in Inodes
                 PROVE  OwnLines(d, content[path])'
    OBVIOUS
  <2>2. OwnLines(d, content[path]) /\ content'[path'] = content[path]
    BY <1>1, <1>5, <1>7, <2>1 DEF LinesOf
  <2> QED
    BY <1>1, <2>2 DEF OwnLines
<1>e. pc'[d] = "read" => OwnLines(d, content[fd[d]])'
  <2>1. SUFFICES ASSUME pc'[d] = "read" PROVE OwnLines(d, content[fd[d]])'
    OBVIOUS
  <2>2. OwnLines(d, content[fd[d]]) /\ content'[fd'[d]] = content[fd[d]]
    BY <1>1, <1>4, <1>7, <1>8, <2>1 DEF LinesOf
  <2> QED
    BY <1>1, <2>2 DEF OwnLines
<1> QED
  BY <1>a, <1>b, <1>c, <1>d, <1>e DEF LinesOf

(* A command that ends has written its line behind those before it, or is  *)
(* known not to have.                                                      *)
LEMMA LinesAtEnd ==
  ASSUME TypeOK, FdOpen, SameFile, NEW c \in Children, LinesOf(c), Ends(c)
  PROVE  LinesOf(c)'
<1>1. CASE WriteCpu(c)
  <2>1. /\ pc[c] = "writeCpu" /\ path' = path
        /\ (pc'[c] = "append" /\ seen'[c] = seen[c]) \/ pc'[c] = "done"
    BY <1>1, CommandSteps DEF CommandEnds, WriteCpu
  <2>2. ASSUME {"write", "noCpu"} \cap seen[c] = {}, path \in Inodes
        PROVE  content'[path'] = <<"C">>
    <3>1. fd[c] = path /\ content[path] = <<>>
      BY <2>1, <2>2, NoInodeIsNone DEF SameFile, LinesOf, WriteCpu
    <3>2. InUse(path, path', fd')
      BY <2>1 DEF InUse
    <3>3. content'[path] = Overwrite(content[path])
      BY <1>1, <2>2, <3>1, <3>2 DEF WriteCpu, Kept, TypeOK
    <3> QED
      BY <2>1, <3>1, <3>3, LinesBecome
  <2> QED
    BY <2>1, <2>2 DEF LinesOf
<1>2. CASE WriteNoCpu(c)
  <2>1. "noCpu" \in seen'[c] \/ pc'[c] = "done"
    BY <1>2, CommandSteps DEF CommandEnds
  <2> QED
    BY <2>1 DEF LinesOf
<1>3. CASE WriteRam(c) \/ WriteNoRam(c)
  <2>1. /\ pc[c] = "writeRam" /\ path' = path
        /\ \/ pc'[c] = "fopen" /\ seen[c] \subseteq seen'[c]
           \/ pc'[c] = "done"
    BY <1>3, CommandSteps DEF CommandEnds, WriteRam, WriteNoRam
  <2>2. ASSUME {"write", "noCpu"} \cap seen[c] = {}, path \in Inodes,
               pc'[c] = "fopen"
        PROVE  OwnLines(c, content[path])'
    <3>1. /\ fd[c] = path
          /\ content[path] = <<"C">>
               \/ (content[path] = <<>> /\ "remove" \in seen[c])
      BY <2>1, <2>2, NoInodeIsNone DEF SameFile, LinesOf
    <3>2. InUse(path, path', fd')
      BY <2>1 DEF InUse
    <3>3. CASE WriteRam(c)
      <4>1. content'[path] = Appended(content[path])
        BY <2>2, <3>1, <3>2, <3>3 DEF WriteRam, Kept, TypeOK
      <4> QED
        BY <2>1, <2>2, <3>1, <4>1, LinesBecome DEF OwnLines
    <3>4. CASE WriteNoRam(c)
      <4>1. content'[path] = content[path]
        BY <2>2, <3>2, <3>4 DEF WriteNoRam, Kept
      <4>2. "noRam" \in seen'[c]
        BY <2>2, <3>4, CommandSteps DEF CommandEnds
      <4> QED
        BY <2>1, <2>2, <3>1, <4>1, <4>2 DEF OwnLines
    <3> QED
      BY <1>3, <3>3, <3>4
  <2>3. CASE pc'[c] = "done"
    BY <2>3 DEF LinesOf
  <2>4. CASE pc'[c] = "fopen" /\ seen[c] \subseteq seen'[c]
    <3>1. {"write", "noCpu"} \cap seen'[c] = {} /\ path' \in Inodes =>
            OwnLines(c, content[path])'
      BY <2>1, <2>2, <2>4
    <3> QED
      BY <2>4, <3>1 DEF LinesOf
  <2> QED
    BY <2>1, <2>3, <2>4
<1>4. CASE NoAppend(c)
  <2>1. /\ pc[c] = "append" /\ path' = path /\ content' = content
        /\ \/ pc'[c] = "fopen" /\ seen'[c] = seen[c] \cup {"noRam"}
           \/ pc'[c] = "done"
    BY <1>4, CommandSteps DEF CommandEnds, NoAppend
  <2>2. CASE pc'[c] = "done"
    BY <2>2 DEF LinesOf
  <2>3. CASE pc'[c] = "fopen" /\ seen'[c] = seen[c] \cup {"noRam"}
    BY <2>1, <2>3 DEF LinesOf, OwnLines
  <2> QED
    BY <2>1, <2>2, <2>3
<1> QED
  BY <1>1, <1>2, <1>3, <1>4 DEF Ends

(* Its own steps write its lines one after the other.                      *)
LEMMA LinesOfOwn ==
  ASSUME TypeOK, FreeEmpty, FdOpen, NameKept, SameFile,
         NEW c \in Children, LinesOf(c), Child(c)
  PROVE  LinesOf(c)'
<1>1. CASE OpenTrunc(c)
  <2>1. pc'[c] = "writeCpu" /\ fd'[c] = Target /\ content'[Target] = <<>>
    BY <1>1, TargetIsFree DEF OpenTrunc, TypeOK
  <2> QED
    BY <2>1 DEF LinesOf
<1>2. CASE Ends(c)
  BY <1>2, LinesAtEnd
<1>3. CASE OpenAppend(c)
  <2>1. /\ pc[c] = "append" /\ pc'[c] = "writeRam" /\ fd'[c] = Target
        /\ seen'[c] = seen[c] /\ content' = content
    BY <1>3 DEF OpenAppend, Shown, TypeOK
  <2>2. CASE path \in Inodes
    BY <2>1, <2>2, TargetIsFree DEF LinesOf
  <2>3. CASE path = NoInode
    <3>1. "remove" \in seen[c] \/ "noCpu" \in seen[c]
      BY <2>1, <2>3, NoInodeIsNone DEF NameKept, NameOf, Window
    <3>2. content[Target] = <<>>
      BY <2>3, TargetIsFree, NoInodeIsNone DEF FreeEmpty, InUse
    <3> QED
      BY <2>1, <3>1, <3>2 DEF LinesOf
  <2> QED
    BY <2>2, <2>3 DEF TypeOK
<1>4. CASE NoTrunc(c)
  <2>1. "noCpu" \in seen'[c] \/ pc'[c] = "done"
    BY <1>4, NoTruncStep
  <2> QED
    BY <2>1 DEF LinesOf
<1>5. CASE FOpen(c)
  <2>1. CASE path = NoInode
    <3>1. pc'[c] = "session"
      BY <1>5, <2>1 DEF FOpen, TypeOK
    <3> QED
      BY <3>1 DEF LinesOf
  <2>2. CASE path \in Inodes
    <3>1. /\ pc[c] = "fopen" /\ pc'[c] = "read" /\ fd'[c] = path
          /\ seen' = seen /\ content' = content
      BY <1>5, <2>2, NoInodeIsNone DEF FOpen, TypeOK
    <3> QED
      BY <2>2, <3>1 DEF LinesOf, OwnLines
  <2> QED
    BY <2>1, <2>2 DEF TypeOK
<1>6. CASE Read(c) \/ EndSession(c)
  <2>1. pc'[c] \in {"session", "idle", "done"}
    BY <1>6 DEF Read, EndSession, TypeOK
  <2> QED
    BY <2>1 DEF LinesOf
<1>7. CASE Abort(c)
  <2>1. \/ pc'[c] = "done"
        \/ /\ pc' = pc /\ path' = path /\ fd' = fd /\ content' = content
           /\ seen' = seen
    BY <1>7 DEF Abort, TypeOK
  <2> QED
    BY <2>1 DEF LinesOf, OwnLines
<1> QED
  BY <1>1, <1>2, <1>3, <1>4, <1>5, <1>6, <1>7 DEF Child, Ends

(* Both lemmas together.                                                   *)
LEMMA UndisturbedStep ==
  ASSUME TypeOK, FreeEmpty, FdOpen, NameKept, SameFile, Undisturbed,
         NEW c \in Children, Child(c)
  PROVE  Undisturbed'
<1>1. ASSUME NEW d \in Children PROVE LinesOf(d)'
  <2>1. LinesOf(d)
    BY DEF Undisturbed
  <2>2. CASE d = c
    BY <2>1, <2>2, LinesOfOwn
  <2>3. CASE d # c
    BY <2>1, <2>3, LinesOfOther
  <2> QED
    BY <2>2, <2>3
<1> QED
  BY <1>1 DEF Undisturbed

(* What a child whose commands worked, or failed, finds on its own, and    *)
(* what excuses what it makes of it.                                       *)
LEMMA FoundLines ==
  ASSUME TypeOK, NEW c \in Children, NEW lines, OwnLines(c, lines)
  PROVE  /\ Parsed(lines).CPUHz \in {"true", "zero"}
         /\ Parsed(lines).RAM \in {"true", "zero"}
         /\ Parsed(lines).CPUHz = "zero" => "remove" \in seen[c]
         /\ Parsed(lines).RAM = "zero" => "noRam" \in seen[c]
<1>1. CASE lines = <<"C", "R">>
  <2>1. Parsed(lines) = [CPUHz |-> "true", RAM |-> "true"]
    BY <1>1, ParsedLines DEF TrueReport
  <2> QED
    BY <2>1
<1>2. CASE lines = <<"C">> /\ "noRam" \in seen[c]
  <2>1. Parsed(lines) = [CPUHz |-> "true", RAM |-> "zero"]
    BY <1>2, ParsedLines
  <2> QED
    BY <1>2, <2>1
<1>3. CASE lines = <<"R">> /\ "remove" \in seen[c]
  <2>1. Parsed(lines) = [CPUHz |-> "zero", RAM |-> "true"]
    BY <1>3, ParsedLines
  <2> QED
    BY <1>3, <2>1
<1>4. CASE lines = <<>> /\ {"noRam", "remove"} \subseteq seen[c]
  <2>1. Parsed(lines) = [CPUHz |-> "zero", RAM |-> "zero"]
    BY <1>4, ParsedLines
  <2> QED
    BY <1>4, <2>1
<1> QED
  BY <1>1, <1>2, <1>3, <1>4 DEF OwnLines

(* What it reports is what it found; reports of others do not change.      *)
LEMMA FalseOnlyIfDisturbedStep ==
  ASSUME TypeOK, FdOpen, NameKept, Undisturbed, FalseOnlyIfDisturbed,
         NEW c \in Children, Child(c)
  PROVE  FalseOnlyIfDisturbed'
<1> DEFINE Justified(d) ==
      Reported(d) =>
        /\ report[d].CPUHz # "true" => seen[d] \ {"noRam"} # {}
        /\ report[d].RAM # "true" => seen[d] # {}
        /\ report[d].CPUHz = "uninit" =>
             "remove" \in seen[d] \/ {"noCpu", "noRam"} \subseteq seen[d]
        /\ report[d].RAM = "cut" => {"write", "noCpu"} \cap seen[d] # {}
<1>1. ASSUME NEW d \in Children, d # c PROVE Justified(d)'
  <2>1. /\ pc'[d] = pc[d] /\ report'[d] = report[d]
        /\ pc[d] = "session" => seen'[d] = seen[d]
    BY <1>1, Others DEF Window
  <2> QED
    BY <2>1 DEF FalseOnlyIfDisturbed, Reported
<1>2. Justified(c)'
  <2>1. CASE FOpen(c) /\ path = NoInode
    <3>1. /\ "remove" \in seen[c] \/ {"noCpu", "noRam"} \subseteq seen[c]
          /\ seen' = seen
      BY <2>1, NoInodeIsNone DEF FOpen, NameKept, NameOf, Window
    <3>2. report'[c] = [CPUHz |-> "uninit", RAM |-> "uninit"]
      BY <2>1 DEF FOpen, TypeOK
    <3>3. report'[c].RAM # "cut"
      BY <3>2
    <3> QED
      BY <3>1, <3>3
  <2>2. CASE Read(c)
    <3>1. /\ pc[c] = "read" /\ seen' = seen /\ fd[c] \in Inodes
          /\ report'[c] = Parsed(content[fd[c]])
      BY <2>2 DEF Read, FdOpen, TypeOK
    <3>2. report'[c].CPUHz # "uninit"
      BY <3>1, ParsedLines DEF TypeOK
    <3>3. CASE {"write", "noCpu"} \cap seen[c] # {}
      BY <3>1, <3>2, <3>3
    <3>4. CASE {"write", "noCpu"} \cap seen[c] = {}
      <4>1. OwnLines(c, content[fd[c]])
        BY <3>1, <3>4 DEF Undisturbed, LinesOf
      <4>2. /\ report'[c].CPUHz # "true" => "remove" \in seen[c]
            /\ report'[c].RAM # "true" => "noRam" \in seen[c]
            /\ report'[c].RAM # "cut"
        BY <3>1, <4>1, FoundLines
      <4> QED
        BY <3>1, <3>2, <4>2
    <3> QED
      BY <3>3, <3>4
  <2>3. CASE pc'[c] # "session"
    BY <2>3 DEF Reported
  <2>4. CASE Abort(c)
    <3>1. report'[c] = NoReport
      BY <2>4 DEF Abort, TypeOK
    <3> QED
      BY <3>1 DEF Reported
  <2>5. \/ FOpen(c) /\ path = NoInode
        \/ Read(c) \/ Abort(c)
        \/ pc'[c] # "session"
    <3>1. CASE Ends(c) \/ NoTrunc(c)
      BY <3>1, CommandSteps, NoTruncStep DEF Ends, CommandEnds
    <3>2. CASE OpenTrunc(c) \/ OpenAppend(c) \/ EndSession(c)
      BY <3>2 DEF OpenTrunc, OpenAppend, EndSession, TypeOK
    <3>3. CASE FOpen(c)
      BY <3>3 DEF FOpen, TypeOK
    <3> QED
      BY <3>1, <3>2, <3>3 DEF Child, Ends
  <2> QED
    BY <2>1, <2>2, <2>3, <2>4, <2>5
<1> QED
  BY <1>1, <1>2 DEF FalseOnlyIfDisturbed, Reported

-----------------------------------------------------------------------------
(* The inductive invariant holds in every state.                           *)
LEMMA InitIInv == Init => IInv
<1> SUFFICES ASSUME Init PROVE IInv
  OBVIOUS
<1> USE NoInodeIsNone DEF Init
<1>1. TypeOK
  <2>1. [n \in Inodes |-> <<>>] \in [Inodes -> FileText]
    BY DEF FileText
  <2> QED
    BY <2>1 DEF TypeOK
<1>2. FileHasOwner /\ FreeEmpty
  BY DEF FileHasOwner, FreeEmpty
<1>3. FdOpen /\ NameKept /\ SameFile /\ Undisturbed
  BY DEF FdOpen, NameKept, NameOf, SameFile, Undisturbed, LinesOf, Window
<1>4. FalseOnlyIfDisturbed
  BY DEF FalseOnlyIfDisturbed, Reported
<1> QED
  BY <1>1, <1>2, <1>3, <1>4 DEF IInv

(* Every step preserves it: one lemma above for each of its conjuncts.     *)
LEMMA NextIInv == IInv /\ [Next]_vars => IInv'
<1> SUFFICES ASSUME IInv, [Next]_vars PROVE IInv'
  OBVIOUS
<1>1. CASE UNCHANGED vars
  <2>1. TypeOK' /\ FileHasOwner' /\ FreeEmpty' /\ FdOpen'
    BY <1>1
    DEF vars, IInv, TypeOK, FileHasOwner, FreeEmpty, InUse, FdOpen
  <2>2. NameKept' /\ SameFile'
    BY <1>1 DEF vars, IInv, NameKept, NameOf, SameFile
  <2>3. Undisturbed'
    BY <1>1 DEF vars, IInv, Undisturbed, LinesOf, OwnLines
  <2>4. FalseOnlyIfDisturbed'
    BY <1>1 DEF vars, IInv, FalseOnlyIfDisturbed, Reported
  <2> QED
    BY <2>1, <2>2, <2>3, <2>4 DEF IInv
<1>2. ASSUME NEW c \in Children, Child(c) PROVE IInv'
  BY <1>2, TypeOKStep, FileHasOwnerStep, FreeEmptyStep, FdOpenStep,
     NameKeptStep, SameFileStep, UndisturbedStep, FalseOnlyIfDisturbedStep
  DEF IInv
<1> QED
  BY <1>1, <1>2 DEF Next, Terminated

(* The inductive invariant, the source of the theorems below.              *)
THEOREM CpuRamIInv == Spec => []IInv
BY InitIInv, NextIInv, PTL DEF Spec

-----------------------------------------------------------------------------
(* The inodes, the lines and the reports are what their types say.         *)
THEOREM CpuRamTypeOK == Spec => []TypeOK
<1>1. IInv => TypeOK
  BY DEF IInv
<1> QED
  BY <1>1, CpuRamIInv, PTL

(* A child reports something false only if another one wrote or removed    *)
(* the file between its own truncation and its own reading of it, or a     *)
(* command of its own failed: however many children there are, whatever an *)
(* earlier session left behind, and whoever is killed where.               *)
THEOREM CpuRamFalseOnlyIfDisturbed == Spec => []FalseOnlyIfDisturbed
<1>1. IInv => FalseOnlyIfDisturbed
  BY DEF IInv
<1> QED
  BY <1>1, CpuRamIInv, PTL

(* The file does not outlive the sessions, unless one was aborted. *)
THEOREM CpuRamFileHasOwner == Spec => []FileHasOwner
<1>1. IInv => FileHasOwner
  BY DEF IInv
<1> QED
  BY <1>1, CpuRamIInv, PTL
=============================================================================
