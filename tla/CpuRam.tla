------------------------------- MODULE CpuRam -------------------------------
(***************************************************************************)
(* CPU_RAM.dat: SetCPURAM of mProtocol.c lets two shell commands write the *)
(* CPU frequency and the RAM size to one file of the working directory,    *)
(* then reads the file back; ClientSimulate removes it when a session      *)
(* ends. All the children of ts share the directory, and nothing locks     *)
(* the file: the steps below are those of the processes on the file. A     *)
(* command may fail, which SetCPURAM does not look at; and a child may be  *)
(* killed anywhere, while a command it has started goes on.                *)
(***************************************************************************)
EXTENDS Naturals, Sequences, FiniteSets

CONSTANT Children

ASSUME CpuRamAssumption == IsFiniteSet(Children)

VARIABLES
  pc,       \* where each child is in its session
  path,     \* the inode that the name CPU_RAM.dat leads to
  fd,       \* the inode a child, or its shell command, has open
  content,  \* the lines in each inode
  report,   \* the CPUHz and RAM of the latest CS_Identify of the child
  seen,     \* history: what others did to the file while the child used it,
            \* and what its own commands did not do
  aborted   \* history: the children that left without Label_OK

vars == <<pc, path, fd, content, report, seen, aborted>>

(* Enough for the name and a descriptor of every child to lead to inodes   *)
(* of their own.                                                           *)
Inodes == 0 .. Cardinality(Children)
NoInode == Cardinality(Children) + 1

(* "C": the line of the CPU; "R": the line of the RAM; "r": the end of a   *)
(* RAM line whose beginning a CPU line has overwritten. Of a longer file   *)
(* only the first two matter: nobody reads more, and no line moves up.     *)
FileText == {<<>>, <<"C">>, <<"R">>, <<"C", "R">>, <<"C", "r">>, <<"R", "R">>}

CpuValues == {"true", "zero", "uninit"}
RamValues == {"true", "zero", "cut", "uninit"}
Report == [CPUHz : CpuValues, RAM : RamValues]
NoReport == [CPUHz |-> "none", RAM |-> "none"]
TrueReport == [CPUHz |-> "true", RAM |-> "true"]

(* A write or a removal by another child, a command of its own that failed.*)
Happenings == {"write", "remove", "noCpu", "noRam"}

(* The places between the truncation of the file and the reading of it.    *)
Window == {"writeCpu", "append", "writeRam", "fopen", "read"}

TypeOK ==
  /\ pc \in [Children -> {"idle", "session", "done"} \cup Window]
  /\ path \in Inodes \cup {NoInode}
  /\ fd \in [Children -> Inodes \cup {NoInode}]
  /\ content \in [Inodes -> FileText]
  /\ report \in [Children -> Report \cup {NoReport}]
  /\ seen \in [Children -> SUBSET Happenings]
  /\ aborted \subseteq Children

Init ==
  /\ pc = [c \in Children |-> "idle"]
  /\ path = NoInode
  /\ fd = [c \in Children |-> NoInode]
  /\ content = [n \in Inodes |-> <<>>]
  /\ report = [c \in Children |-> NoReport]
  /\ seen = [c \in Children |-> {}]
  /\ aborted = {}

-----------------------------------------------------------------------------
InUse(n, name, opened) == n = name \/ \E c \in Children : opened[c] = n

(* Where an open for writing leads to: the file there is, or a new one.    *)
Target ==
  IF path # NoInode THEN path
  ELSE CHOOSE n \in Inodes : ~InUse(n, path, fd)

(* An inode that nothing leads to any more is freed, and empty when it is  *)
(* used again.                                                             *)
Kept(lines) ==
  [n \in Inodes |-> IF InUse(n, path', fd') THEN lines[n] ELSE <<>>]

(* Child c has done something to the file: the others that are using it    *)
(* meanwhile have seen it.                                                 *)
Shown(c, what) ==
  [d \in Children |->
     IF d # c /\ pc[d] \in Window THEN seen[d] \cup {what} ELSE seen[d]]

(* The end of a command: that of a killed child is the last of it.         *)
Then(c, place, happened) ==
  IF c \in aborted
  THEN pc' = [pc EXCEPT ![c] = "done"] /\ seen' = [happened EXCEPT ![c] = {}]
  ELSE pc' = [pc EXCEPT ![c] = place] /\ seen' = happened

(* The first command begins with a new account of what happens.            *)
Begin(c, what) ==
  /\ pc[c] \in {"idle", "session"}
  /\ seen' = [what EXCEPT ![c] = {}]
  /\ report' = [report EXCEPT ![c] = NoReport]

Failed(c, what) == [seen EXCEPT ![c] = @ \cup {what}]

(* Mutated form; no specification uses it. *)
OpenNoTrunc(c) ==
  /\ Begin(c, Shown(c, "write"))
  /\ path' = Target
  /\ fd' = [fd EXCEPT ![c] = Target]
  /\ pc' = [pc EXCEPT ![c] = "writeCpu"]
  /\ UNCHANGED <<content, aborted>>

(* The open of "... > CPU_RAM.dat": the file is created, or truncated.     *)
OpenTrunc(c) ==
  /\ Begin(c, Shown(c, "write"))
  /\ path' = Target
  /\ fd' = [fd EXCEPT ![c] = Target]
  /\ content' = [content EXCEPT ![Target] = <<>>]
  /\ pc' = [pc EXCEPT ![c] = "writeCpu"]
  /\ UNCHANGED aborted

(* No process, or no open file: an old file stays as it is.                *)
NoTrunc(c) ==
  /\ pc[c] \in {"idle", "session"}
  /\ report' = [report EXCEPT ![c] = NoReport]
  /\ Then(c, "append", [seen EXCEPT ![c] = {"noCpu"}])
  /\ UNCHANGED <<path, fd, content, aborted>>

(* The CPU line goes to the beginning of the inode that was opened: it is  *)
(* as long as another CPU line, and shorter than a RAM line.               *)
Overwrite(s) ==
  CASE s = <<>>      -> <<"C">>
    [] s # <<>> /\ s[1] = "C" -> s
    [] s # <<>> /\ s[1] # "C" -> <<"C", "r">>

WriteCpu(c) ==
  /\ pc[c] = "writeCpu"
  /\ fd' = [fd EXCEPT ![c] = NoInode]
  /\ UNCHANGED <<path, report, aborted>>
  /\ content' = Kept([content EXCEPT ![fd[c]] = Overwrite(@)])
  /\ Then(c, "append", Shown(c, "write"))

(* Nothing is written: no line says "cpu MHz", the disk is full, a process *)
(* of the pipeline failed or was killed.                                   *)
WriteNoCpu(c) ==
  /\ pc[c] = "writeCpu"
  /\ fd' = [fd EXCEPT ![c] = NoInode]
  /\ UNCHANGED <<path, report, aborted>>
  /\ content' = Kept(content)
  /\ Then(c, "append", Failed(c, "noCpu"))

(* The open of "... >> CPU_RAM.dat": a file that was removed is created.   *)
OpenAppend(c) ==
  /\ pc[c] = "append"
  /\ path' = Target
  /\ fd' = [fd EXCEPT ![c] = Target]
  /\ seen' = Shown(c, "write")
  /\ pc' = [pc EXCEPT ![c] = "writeRam"]
  /\ UNCHANGED <<content, report, aborted>>

NoAppend(c) ==
  /\ pc[c] = "append"
  /\ Then(c, "fopen", Failed(c, "noRam"))
  /\ UNCHANGED <<path, fd, content, report, aborted>>

(* The RAM line goes behind what there is.                                 *)
Appended(s) == IF Len(s) < 2 THEN Append(s, "R") ELSE s

WriteRam(c) ==
  /\ pc[c] = "writeRam"
  /\ fd' = [fd EXCEPT ![c] = NoInode]
  /\ UNCHANGED <<path, report, aborted>>
  /\ content' = Kept([content EXCEPT ![fd[c]] = Appended(@)])
  /\ Then(c, "fopen", Shown(c, "write"))

WriteNoRam(c) ==
  /\ pc[c] = "writeRam"
  /\ fd' = [fd EXCEPT ![c] = NoInode]
  /\ UNCHANGED <<path, report, aborted>>
  /\ content' = Kept(content)
  /\ Then(c, "fopen", Failed(c, "noRam"))

(* fopen fails when the file is gone: SetCPURAM returns ERROR, GenIdentify *)
(* goes on, and the two fields keep what malloc'ed memory held.            *)
FOpen(c) ==
  /\ pc[c] = "fopen"
  /\ IF path = NoInode
       THEN /\ report' = [report EXCEPT
                 ![c] = [CPUHz |-> "uninit", RAM |-> "uninit"]]
            /\ pc' = [pc EXCEPT ![c] = "session"]
            /\ UNCHANGED fd
       ELSE /\ fd' = [fd EXCEPT ![c] = path]
            /\ pc' = [pc EXCEPT ![c] = "read"]
            /\ UNCHANGED report
  /\ UNCHANGED <<path, content, seen, aborted>>

(* The two numbers SetCPURAM finds: the first field of the file is the CPU *)
(* line's number or, when a RAM line comes first, empty; the number after  *)
(* it is the RAM.                                                          *)
RamOf(line) == IF line = "R" THEN "true" ELSE "cut"

Parsed(s) ==
  CASE s = <<>> -> [CPUHz |-> "zero", RAM |-> "zero"]
    [] s # <<>> /\ s[1] # "C" -> [CPUHz |-> "zero", RAM |-> RamOf(s[1])]
    [] s # <<>> /\ s[1] = "C" ->
         [CPUHz |-> "true",
          RAM |-> IF Len(s) = 1 THEN "zero" ELSE RamOf(s[2])]

Read(c) ==
  /\ pc[c] = "read"
  /\ report' = [report EXCEPT ![c] = Parsed(content[fd[c]])]
  /\ fd' = [fd EXCEPT ![c] = NoInode]
  /\ UNCHANGED <<path, seen, aborted>>
  /\ content' = Kept(content)
  /\ pc' = [pc EXCEPT ![c] = "session"]

(* Mutated form; no specification uses it. *)
EndSessionNoRemove(c) ==
  /\ pc[c] \in {"idle", "session"} /\ c \notin aborted
  /\ seen' = [seen EXCEPT ![c] = {}]
  /\ report' = [report EXCEPT ![c] = NoReport]
  /\ \E next \in {"idle", "done"} : pc' = [pc EXCEPT ![c] = next]
  /\ UNCHANGED <<path, fd, content, aborted>>

(* Label_OK, after a session with or without an identification: remove()   *)
(* takes the name away, whoever else uses the file. The child then sleeps  *)
(* until its next session, or exits.                                       *)
EndSession(c) ==
  /\ pc[c] \in {"idle", "session"} /\ c \notin aborted
  /\ path' = NoInode
  /\ UNCHANGED <<fd, aborted>>
  /\ content' = Kept(content)
  /\ seen' = [(IF path = NoInode THEN seen ELSE Shown(c, "remove"))
                EXCEPT ![c] = {}]
  /\ report' = [report EXCEPT ![c] = NoReport]
  /\ \E next \in {"idle", "done"} : pc' = [pc EXCEPT ![c] = next]

(* Where a command may be running, which a signal to the child does not    *)
(* end; where it has the file open, one is.                                *)
MayRun == {"idle", "session", "append", "writeCpu", "writeRam"}
HasOpen == {"writeCpu", "writeRam"}

(* Label_ERROR, or a signal at any place: the file is left where it is. A  *)
(* command that runs goes on, and the one after it is not started.         *)
Abort(c) ==
  /\ c \notin aborted
  /\ aborted' = aborted \cup {c}
  /\ report' = [report EXCEPT ![c] = NoReport]
  /\ UNCHANGED path
  /\ \/ /\ pc[c] \in MayRun
        /\ UNCHANGED <<pc, fd, content, seen>>
     \/ /\ pc[c] \notin HasOpen \cup {"done"}
        /\ pc' = [pc EXCEPT ![c] = "done"]
        /\ fd' = [fd EXCEPT ![c] = NoInode]
        /\ content' = Kept(content)
        /\ seen' = [seen EXCEPT ![c] = {}]

Child(c) ==
  \/ OpenTrunc(c) \/ WriteCpu(c) \/ OpenAppend(c) \/ WriteRam(c)
  \/ NoTrunc(c) \/ WriteNoCpu(c) \/ NoAppend(c) \/ WriteNoRam(c)
  \/ FOpen(c) \/ Read(c) \/ EndSession(c) \/ Abort(c)

Terminated ==
  /\ \A c \in Children : pc[c] = "done"
  /\ UNCHANGED vars

Next == (\E c \in Children : Child(c)) \/ Terminated

Spec == Init /\ [][Next]_vars

-----------------------------------------------------------------------------
(* Properties *)

Reported(c) == pc[c] = "session" /\ report[c] # NoReport

(* A child whose commands both did their work reports something false only *)
(* because others used the file while it did: the truncation makes a file  *)
(* that an aborted session, or its shell, left behind harmless. Without    *)
(* its CPU line everything may be false, without its RAM line only the     *)
(* RAM; and fields are left uninitialised only if another child ended its  *)
(* session in between or both commands failed (mProtocol.c:40-47,          *)
(* mClient.c:249).                                                         *)
FalseOnlyIfDisturbed ==
  \A c \in Children : Reported(c) =>
    /\ report[c].CPUHz # "true" => seen[c] \ {"noRam"} # {}
    /\ report[c].RAM # "true" => seen[c] # {}
    /\ report[c].CPUHz = "uninit" =>
         "remove" \in seen[c] \/ {"noCpu", "noRam"} \subseteq seen[c]
    /\ report[c].RAM = "cut" => {"write", "noCpu"} \cap seen[c] # {}

(* CPU_RAM.dat is there only while some child that will remove it is in    *)
(* its session, or because a child was aborted: ts tidies up after itself  *)
(* although any child's remove() may hit the others (mClient.c:249).       *)
FileHasOwner ==
  path # NoInode =>
    aborted # {} \/ \E c \in Children : pc[c] \in Window \cup {"session"}

(* mProtocol.c:35: "fetch CPU & RAM infomation from OS" - what is reported *)
(* is what the OS says, unless the commands could not tell.                *)
ReportTrue ==
  \A c \in Children :
    Reported(c) /\ seen[c] \cap {"noCpu", "noRam"} = {} =>
      report[c] = TrueReport
=============================================================================
