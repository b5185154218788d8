------------------------------- MODULE Client -------------------------------
(***************************************************************************)
(* One simulated terminal: ClientSimulate of mClient.c, called again and   *)
(* again by the child's loop of main(), and the server at the other end of *)
(* its connection. The server may send requests faster than they are       *)
(* answered, close the connection, reset it, or die in the middle of a     *)
(* message; the terminal may run out of memory or miss a data file.        *)
(***************************************************************************)
EXTENDS Protocol, Integers

CONSTANTS
  MaxAsks   \* bound: the requests of one session

ASSUME ClientAssumption == MaxAsks \in Nat

VARIABLES
  quitAfterSucc,  \* the field of configFile
  pc,             \* where the child is in main() and ClientSimulate
  conn,           \* the connection as the child's kernel has it
  toClient,       \* the requests on their way to the client
  incoming,       \* the body of the request whose header the client has read
  cur,            \* recvHeader
  iden,           \* sc_iden: what the client found in its latest body
  sendBuf,        \* the package to send
  xls_termNum, xls_vScrNum,
  row,            \* the row this session appended to ts_count.xls
  held,           \* what the process holds that it should give back
  interval,       \* what ClientSimulate returned to main()
  asked, answered,  \* history: requests sent, answers received, by the server
  tally           \* history: the counts the server has from those answers

control  == <<quitAfterSucc, pc>>
network  == <<conn, toClient, incoming, asked, answered, tally>>
session  == <<cur, iden, sendBuf, xls_termNum, xls_vScrNum>>
results  == <<row, held, interval>>
vars     == <<control, network, session, results>>

NoHeader == [type |-> "none", ID |-> 0]
NoPackage == [type |-> "none", ID |-> 0, num |-> 0]
NoRow == [termNum |-> -1, vScrNum |-> -1]

(* A server that dies may leave an IDENTIFY without (all of) its body.     *)
Torn(r) == IF r.type = "IDENTIFY" THEN [r EXCEPT !.body = "torn"] ELSE r

Messages == Requests \cup {Torn(r) : r \in Requests}

Counts == [termNum : Nat, vScrNum : Nat]

(* "rst": reset while it was open; "broken": reset after the server had    *)
(* closed its side, which is what a send after the close leads to.         *)
TypeOK ==
  /\ quitAfterSucc \in BOOLEAN
  /\ pc \in {"socket", "connect", "recv", "body", "check", "gen", "send",
             "ok", "error", "sleep", "exitOK", "exitERROR", "sigpipe", "segv"}
  /\ conn \in {"none", "open", "fin", "rst", "broken"}
  /\ toClient \in Seq(Messages)
  /\ incoming \in {"none", "torn", "old", "genuine", "forged"}
  /\ cur \in [type : Asks \cup {"none"}, ID : Nat]
  /\ iden \in {"garbage", "old", "genuine", "forged"}
  /\ sendBuf \in Responses \cup {NoPackage}
  /\ xls_termNum \in Nat
  /\ xls_vScrNum \in Nat
  /\ row \in Counts \cup {NoRow}
  /\ held \subseteq {"cSocket", "tempBuf", "fp", "CPU_RAM_FILE"}
  /\ interval \in {"none", "garbage", "reTransTime"}
  /\ asked \in Seq(Requests)
  /\ answered \in Seq(Responses)
  /\ tally \in Counts

Init ==
  /\ quitAfterSucc \in BOOLEAN
  /\ pc = "socket"
  /\ conn = "none"
  /\ toClient = <<>>
  /\ incoming = "none"
  /\ cur = NoHeader
  /\ iden = "garbage"
  /\ sendBuf = NoPackage
  /\ xls_termNum = 0
  /\ xls_vScrNum = 0
  /\ row = NoRow
  /\ held = {}
  /\ interval = "none"
  /\ asked = <<>>
  /\ answered = <<>>
  /\ tally = [termNum |-> 0, vScrNum |-> 0]

-----------------------------------------------------------------------------
(* The server and the network. *)

ServerAsk(r) ==
  /\ conn = "open"
  /\ Len(asked) < MaxAsks
  /\ asked' = Append(asked, r)
  /\ toClient' = Append(toClient, r)
  /\ UNCHANGED <<control, conn, incoming, answered, tally, session, results>>

(* The server closes its side; what it sent before still arrives.          *)
ServerClose ==
  /\ conn = "open"
  /\ conn' = "fin"
  /\ UNCHANGED <<control, toClient, incoming, asked, answered, tally, session,
                 results>>

(* The server dies in the middle of an IDENTIFY.                           *)
ServerDie(r) ==
  /\ conn = "open"
  /\ r.type = "IDENTIFY"
  /\ Len(asked) < MaxAsks
  /\ asked' = Append(asked, r)
  /\ toClient' = Append(toClient, Torn(r))
  /\ conn' = "fin"
  /\ UNCHANGED <<control, incoming, answered, tally, session, results>>

(* The connection is reset: the last of what was sent may never arrive,    *)
(* from any byte on.                                                       *)
ServerReset ==
  /\ conn = "open"
  /\ conn' = "rst"
  /\ \/ /\ \E n \in 0 .. Len(toClient) :
             \/ toClient' = SubSeq(toClient, 1, n)
             \/ /\ n < Len(toClient)
                /\ toClient' =
                     Append(SubSeq(toClient, 1, n), Torn(toClient[n + 1]))
        /\ UNCHANGED incoming
     \/ /\ pc = "body"
        /\ toClient' = <<>>
        /\ incoming' = "torn"
  /\ UNCHANGED <<control, asked, answered, tally, session, results>>

Server ==
  \/ \E r \in Requests : ServerAsk(r) \/ ServerDie(r)
  \/ ServerClose \/ ServerReset

-----------------------------------------------------------------------------
(* ClientSimulate *)

(* socket(): its failure returns ERROR at once.                            *)
SocketOk ==
  /\ pc = "socket"
  /\ pc' = "connect"
  /\ held' = held \cup {"cSocket"}
  /\ UNCHANGED <<quitAfterSucc, network, session, row, interval>>

SocketFail ==
  /\ pc = "socket"
  /\ pc' = "exitERROR"
  /\ UNCHANGED <<quitAfterSucc, network, session, results>>

(* A connect() that fails is tried again after a second, without end, and  *)
(* changes nothing; this is the one that succeeds.                         *)
Connect ==
  /\ pc = "connect"
  /\ pc' = "recv"
  /\ conn' = "open"
  /\ asked' = <<>>
  /\ answered' = <<>>
  /\ tally' = [termNum |-> 0, vScrNum |-> 0]
  /\ UNCHANGED <<quitAfterSucc, toClient, incoming, session, results>>

(* read() returns 0 or an error once everything that arrived is consumed.  *)
NoMoreData == toClient = <<>> /\ conn \in {"fin", "rst", "broken"}

(* Mutated forms; no specification uses them.                              *)
RecvHeaderSkipsEth ==
  /\ pc = "recv"
  /\ toClient # <<>>
  /\ cur' = [type |-> toClient[1].type, ID |-> toClient[1].ID]
  /\ incoming' = toClient[1].body
  /\ toClient' = Tail(toClient)
  /\ pc' = CASE cur'.type = "IDENTIFY"    -> "body"
             [] cur'.type \notin Handled  -> "error"
             [] cur'.type = "ETHINFO"     -> "recv"
             [] OTHER                     -> "gen"
  /\ UNCHANGED <<quitAfterSucc, conn, asked, answered, tally, iden, sendBuf,
                 xls_termNum, xls_vScrNum, results>>

RecvClosedIgnored ==
  /\ pc = "recv"
  /\ NoMoreData
  /\ pc' = "recv"
  /\ UNCHANGED <<quitAfterSucc, network, session, results>>

(* RecvN of a header and the switch on its pLType.                         *)
RecvHeader ==
  /\ pc = "recv"
  /\ toClient # <<>>
  /\ cur' = [type |-> toClient[1].type, ID |-> toClient[1].ID]
  /\ incoming' = toClient[1].body
  /\ toClient' = Tail(toClient)
  /\ pc' = CASE cur'.type = "IDENTIFY"    -> "body"
             [] cur'.type \notin Handled  -> "error"
             [] OTHER                     -> "gen"
  /\ UNCHANGED <<quitAfterSucc, conn, asked, answered, tally, iden, sendBuf,
                 xls_termNum, xls_vScrNum, results>>

(* RecvN returns SERVER_CLOSED: the end of a session like any other.       *)
RecvClosed ==
  /\ pc = "recv"
  /\ NoMoreData
  /\ pc' = "ok"
  /\ UNCHANGED <<quitAfterSucc, network, session, results>>

RecvBody ==
  /\ pc = "body"
  /\ incoming # "torn"
  /\ iden' = incoming
  /\ pc' = "check"
  /\ UNCHANGED <<quitAfterSucc, network, cur, sendBuf, xls_termNum,
                 xls_vScrNum, results>>

(* A part of the body may have come: RecvN reads straight into sc_iden.    *)
BodyClosed ==
  /\ pc = "body"
  /\ incoming = "torn"
  /\ iden' \in {iden, "garbage"}
  /\ pc' = "ok"
  /\ UNCHANGED <<quitAfterSucc, network, cur, sendBuf, xls_termNum,
                 xls_vScrNum, results>>

(* OutOfDate reads svrTime, a u_int and the last field of sc_iden, as if   *)
(* it were a time_t: what the memory after it holds decides whether the    *)
(* year is before 2017, is not, or makes localtime() fail, whose NULL is   *)
(* then copied from.                                                       *)
OutOfDateOutcomes == {"yes", "no", "crash"}

CheckIdentify ==
  /\ pc = "check"
  /\ \/ /\ iden = "old"                      \* IsOldVersion
        /\ pc' = "gen"
        /\ UNCHANGED <<conn, toClient, held>>
     \/ /\ iden # "old"
        /\ \E outOfDate \in OutOfDateOutcomes :
             \/ /\ outOfDate = "crash"
                /\ pc' = "segv"
                /\ conn' = "none"
                /\ toClient' = <<>>
                /\ held' = held \cap {"CPU_RAM_FILE"}
             \/ /\ outOfDate # "crash"
                /\ pc' = IF outOfDate = "no" /\ iden = "genuine"  \* Identify
                           THEN "gen" ELSE "ok"
                /\ UNCHANGED <<conn, toClient, held>>
  /\ UNCHANGED <<quitAfterSucc, incoming, asked, answered, tally, session, row,
                 interval>>

-----------------------------------------------------------------------------
(* The Gen functions: the header each of them sets, and its number.        *)

Package(type, id, nums) == [type : {type}, ID : {id}, num : nums]

(* Mutated form; no specification uses it. *)
PackagesNoMinVer ==
  CASE cur.type = "ETHINFO" -> Package("ETHINFO", cur.ID, {0})
    [] cur.type \in SubTerm -> Package(cur.type, cur.ID, ScreenNums)
    [] cur.type = "TERMINFO" -> Package("TERMINFO", DEFAULT_ID, TermNums)
    [] OTHER -> Package(cur.type, DEFAULT_ID, {0})

Packages ==
  CASE cur.type = "IDENTIFY" /\ iden = "old" ->
         Package("MINVERREQ", DEFAULT_ID, {0})
    [] cur.type = "ETHINFO" -> Package("ETHINFO", cur.ID, {0})
    [] cur.type \in SubTerm -> Package(cur.type, cur.ID, ScreenNums)
    [] cur.type = "TERMINFO" -> Package("TERMINFO", DEFAULT_ID, TermNums)
    [] OTHER -> Package(cur.type, DEFAULT_ID, {0})

(* Mutated form; no specification uses it. *)
ScreensOverwritten(num) == num

(* xls_vScrNum adds up; xls_termNum, which GenTermInfo sets, does not.     *)
ScreensWith(num) == xls_vScrNum + num

(* A Gen function makes its package. GenIdentify leaves CPU_RAM.dat on the *)
(* way; the counts for ts_count.xls are taken now, before the package is   *)
(* sent.                                                                   *)
Generate ==
  /\ pc = "gen"
  /\ sendBuf' \in Packages
  /\ pc' = "send"
  /\ held' = IF sendBuf'.type = "IDENTIFY"
               THEN held \cup {"CPU_RAM_FILE"} ELSE held
  /\ xls_termNum' =
       IF cur.type = "TERMINFO" THEN sendBuf'.num ELSE xls_termNum
  /\ xls_vScrNum' =
       IF cur.type \in SubTerm THEN ScreensWith(sendBuf'.num) ELSE xls_vScrNum
  /\ UNCHANGED <<quitAfterSucc, network, cur, iden, row, interval>>

(* A Gen function fails: malloc() does, or one of the data files cannot be *)
(* opened (tempBuf is lost), is empty (fp is lost), or SendBufAlloc fails  *)
(* after it was read (both are lost).                                      *)
GenFail ==
  /\ pc = "gen"
  /\ \E lost \in IF cur.type \in {"CFGINFO", "PROCINFO", "USBFILEINFO"}
                   THEN SUBSET {"tempBuf", "fp"} ELSE {{}} :
       held' = held \cup lost
  /\ pc' = "error"
  /\ UNCHANGED <<quitAfterSucc, network, session, row, interval>>

-----------------------------------------------------------------------------
(* SendN *)

Recorded(a) ==
  CASE a.type = "TERMINFO" -> [tally EXCEPT !.termNum = a.num]
    [] a.type \in SubTerm  -> [tally EXCEPT !.vScrNum = @ + a.num]
    [] OTHER               -> tally

SendDelivered ==
  /\ pc = "send"
  /\ conn = "open"
  /\ answered' = Append(answered, sendBuf)
  /\ tally' = Recorded(sendBuf)
  /\ sendBuf' = NoPackage
  /\ pc' = "recv"
  /\ UNCHANGED <<quitAfterSucc, conn, toClient, incoming, asked, cur, iden,
                 xls_termNum, xls_vScrNum, results>>

(* The server has closed or reset: the kernel takes the package and nobody *)
(* gets it. A package sent after a close is answered with a reset, which   *)
(* may or may not be there at the next call.                               *)
SendLost ==
  /\ pc = "send"
  /\ \/ conn = "fin" /\ conn' \in {"fin", "broken"}
     \/ conn = "rst" /\ conn' = "rst"
  /\ sendBuf' = NoPackage
  /\ pc' = "recv"
  /\ UNCHANGED <<quitAfterSucc, toClient, incoming, asked, answered, tally, cur,
                 iden, xls_termNum, xls_vScrNum, results>>

(* The first write() after the reset has arrived fails with ECONNRESET.    *)
SendClosed ==
  /\ pc = "send"
  /\ conn = "rst"
  /\ sendBuf' = NoPackage
  /\ pc' = "ok"
  /\ UNCHANGED <<quitAfterSucc, network, cur, iden, xls_termNum, xls_vScrNum,
                 results>>

(* After a close and a reset write() raises SIGPIPE, which ts does not     *)
(* catch or ignore.                                                        *)
SendKilled ==
  /\ pc = "send"
  /\ conn = "broken"
  /\ pc' = "sigpipe"
  /\ conn' = "none"
  /\ toClient' = <<>>
  /\ held' = held \cap {"CPU_RAM_FILE"}
  /\ sendBuf' = NoPackage
  /\ UNCHANGED <<quitAfterSucc, incoming, asked, answered, tally, cur, iden,
                 xls_termNum, xls_vScrNum, row, interval>>

-----------------------------------------------------------------------------
(* The ends of ClientSimulate, and main() after them. *)

(* Mutated form; no specification uses it. *)
HeldAfterOkNoClose == held \ {"CPU_RAM_FILE"}

HeldAfterOk == held \ {"cSocket", "CPU_RAM_FILE"}

(* Label_OK: append the row, which may fail; remove CPU_RAM.dat; close.    *)
Finish ==
  /\ pc = "ok"
  /\ row' \in {NoRow, [termNum |-> xls_termNum, vScrNum |-> xls_vScrNum]}
  /\ held' = HeldAfterOk
  /\ conn' = "none"
  /\ toClient' = <<>>
  /\ interval' = IF iden = "garbage" THEN "garbage" ELSE "reTransTime"
  /\ pc' = IF quitAfterSucc THEN "exitOK" ELSE "sleep"
  /\ UNCHANGED <<quitAfterSucc, incoming, asked, answered, tally, session>>

(* Label_ERROR, and main() returning ERROR.                                *)
Abort ==
  /\ pc = "error"
  /\ held' = held \ {"cSocket"}
  /\ conn' = "none"
  /\ toClient' = <<>>
  /\ pc' = "exitERROR"
  /\ UNCHANGED <<quitAfterSucc, incoming, asked, answered, tally, session, row,
                 interval>>

(* sleep(flagOrTime) is over: the next call, with its own local variables. *)
WakeUp ==
  /\ pc = "sleep"
  /\ pc' = "socket"
  /\ cur' = NoHeader
  /\ iden' = "garbage"
  /\ sendBuf' = NoPackage
  /\ xls_termNum' = 0
  /\ xls_vScrNum' = 0
  /\ row' = NoRow
  /\ UNCHANGED <<quitAfterSucc, network, held, interval>>

(* What the child does on its own. connect() needs a server that listens,  *)
(* and SendDelivered one that reads: write() blocks while the buffers of   *)
(* an open connection are full (mSocket.c:70).                             *)
Running ==
  \/ SocketOk \/ SocketFail
  \/ RecvHeader \/ RecvClosed \/ RecvBody \/ BodyClosed \/ CheckIdentify
  \/ Generate \/ GenFail
  \/ SendLost \/ SendClosed \/ SendKilled
  \/ Finish \/ Abort \/ WakeUp

Dead == pc \in {"exitOK", "exitERROR", "sigpipe", "segv"}

Terminated == Dead /\ UNCHANGED vars

Next == Server \/ Connect \/ SendDelivered \/ Running \/ Terminated

Spec == Init /\ [][Next]_vars

(* The scheduler runs the child; nothing is said of the server.            *)
FairSpec == Spec /\ WF_vars(Running)

-----------------------------------------------------------------------------
(* Properties *)

(* The child keeps what Dialogue.tla promises to the server.               *)
D == INSTANCE Dialogue WITH up <- conn # "none"
ImplementsDialogue == D!Spec

(* The requests the client has taken but not disposed of yet: at most one. *)
InHand == IF pc \in {"body", "check", "gen", "send"} THEN 1 ELSE 0

(* While the connection is open no request is lost, skipped or answered    *)
(* twice: each one is answered, or in hand, or still on its way; a client  *)
(* that is about to give the session up has dropped the one in hand.       *)
EveryRequestAccounted ==
  /\ conn = "open" /\ pc \notin {"ok", "error"} =>
       Len(asked) = Len(answered) + InHand + Len(toClient)
  /\ conn # "none" => Len(asked) >= Len(answered) + InHand + Len(toClient)

(* The row in ts_count.xls (mClient.c:234-247) never tells fewer screens   *)
(* than the server was told of, although it is counted before the sends    *)
(* (mClient.c:199); and when the server got an answer to all its requests  *)
(* the row says exactly what it was told. Of a TERMINFO that is the total  *)
(* of its marks, which the client counts, too, and not its field termNum,  *)
(* which is drawn from the total on (mProtocol.c:656).                     *)
RowMatchesServer ==
  row # NoRow =>
    /\ row.vScrNum >= tally.vScrNum
    /\ Len(answered) = Len(asked) => row = tally

(* A child that goes on to its next session, or exits with success, has    *)
(* given everything back: the socket, the package, and tempBuf and fp,     *)
(* which three Gen functions lose on their error paths.                    *)
NothingHeld ==
  /\ pc \in {"sleep", "socket", "exitOK"} => held = {} /\ sendBuf = NoPackage
  /\ Dead => "cSocket" \notin held

(* If the server reads what it is sent, so that write() returns: a request *)
(* that has been sent is answered, or the session does not stay open. A    *)
(* server that keeps a session open and does not read blocks SendN         *)
(* (mSocket.c:69-74) for ever.                                             *)
EveryRequestSettled ==
  WF_vars(SendDelivered) =>
    \A n \in 1 .. MaxAsks :
      (conn = "open" /\ Len(asked) >= n)
        ~> (Len(answered) >= n \/ conn # "open")

(* If the server listens and ends every session at last, whether it reads  *)
(* in it or not: each session ends for the child too, whatever happens in  *)
(* it, and with quitAfterSucc set the child exits.                         *)
EverySessionEnds ==
  WF_vars(Connect) /\ WF_vars(ServerClose) =>
    /\ []<>(pc = "sleep" \/ Dead)
    /\ quitAfterSucc => <>Dead

(* mClient.c:251 and mMain.c:58: main() sleeps for sc_iden.reTransTime.    *)
SleepIsServerInterval == pc = "sleep" => interval = "reTransTime"
=============================================================================
