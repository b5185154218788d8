----------------------------- MODULE ClientProofs -----------------------------
(***************************************************************************)
(* What Client.tla promises holds for every set of message types, every    *)
(* range of numbers and sessions of any length. The argument: the requests *)
(* are answered, in hand, or in the queue, in this order and none missing  *)
(* while the connection is open; so the package in sendBuf always answers  *)
(* the oldest open request. A package that gets lost leaves a gap between  *)
(* the requests sent and the answers received that never closes, which is  *)
(* how the row of ts_count.xls can be compared with what the server got.   *)
(***************************************************************************)
EXTENDS Client, SequenceTheorems, TLAPS

InSession == pc \in {"recv", "body", "check", "gen", "send", "ok", "error"}

PhaseInv ==
  /\ conn # "none" <=> InSession
  /\ conn = "none" => toClient = <<>>
  /\ pc = "body" => incoming # "none"
  /\ pc \in {"body", "check"} => cur.type = "IDENTIFY"
  /\ pc \in {"gen", "send"} => cur.type \in Handled
  /\ pc # "send" => sendBuf = NoPackage
  /\ pc \in {"socket", "connect"} => xls_termNum = 0 /\ xls_vScrNum = 0
  /\ row # NoRow => pc \in {"sleep", "exitOK"}

HoldInv ==
  /\ pc \in {"socket", "sleep", "exitOK"} => held = {}
  /\ pc \notin {"error", "exitERROR"} => held \subseteq {"cSocket", "CPU_RAM_FILE"}
  /\ Dead => "cSocket" \notin held

(* The queue holds the requests behind the one in hand, in order.          *)
FifoInv ==
  conn = "open" /\ pc \notin {"ok", "error"} =>
    \A k \in 1 .. Len(toClient) : toClient[k] = asked[Len(answered) + InHand + k]

(* What the client knows of the request r that it has in hand.             *)
HandOK(r) ==
  /\ cur = [type |-> r.type, ID |-> r.ID]
  /\ pc = "body" => incoming = r.body
  /\ pc \in {"check", "gen", "send"} /\ r.type = "IDENTIFY" => iden = r.body
  /\ pc \in {"gen", "send"} => Answerable(r)
  /\ pc = "send" => sendBuf \in AnswersTo(r)

HandInv == conn = "open" /\ InHand = 1 => HandOK(asked[Len(answered) + 1])

Expected == IF pc = "send" THEN Recorded(sendBuf) ELSE tally

CountInv ==
  conn # "none" =>
    /\ xls_vScrNum >= tally.vScrNum
    /\ xls_vScrNum >= Expected.vScrNum
    /\ Len(asked) = Len(answered) + InHand + Len(toClient) =>
         xls_termNum = Expected.termNum /\ xls_vScrNum = Expected.vScrNum

IInv ==
  /\ TypeOK
  /\ PhaseInv
  /\ HoldInv
  /\ EveryRequestAccounted
  /\ FifoInv
  /\ HandInv
  /\ CountInv
  /\ RowMatchesServer

-----------------------------------------------------------------------------
(* The fields of a request, and that the fields make up the request.       *)
LEMMA RequestFields ==
  ASSUME NEW r \in Requests
  PROVE  /\ r = [type |-> r.type, ID |-> r.ID, body |-> r.body]
         /\ r.type \in Asks
         /\ r.ID \in Nat
         /\ r.body \in {"none", "old", "genuine", "forged"}
         /\ r.type = "IDENTIFY" <=> r.body # "none"
<1>1. PICK t \in Asks : r \in [type : {t}, ID : IDsOf(t), body : BodiesOf(t)]
  BY DEF Requests
<1>2. r = [type |-> r.type, ID |-> r.ID, body |-> r.body] /\ r.type = t
  BY <1>1
<1>3. IDsOf(t) \subseteq Nat
  BY ProtocolAssumption DEF IDsOf, DEFAULT_ID
<1>4. BodiesOf(t) \subseteq {"none", "old", "genuine", "forged"}
  BY DEF BodiesOf
<1>5. \A b \in BodiesOf(t) : t = "IDENTIFY" <=> b # "none"
  BY DEF BodiesOf
<1>6. r.ID \in IDsOf(t) /\ r.body \in BodiesOf(t)
  BY <1>1
<1> QED
  BY <1>1, <1>2, <1>3, <1>4, <1>5, <1>6

(* The same of a message, whose body may be torn.                          *)
LEMMA MessageFields ==
  ASSUME NEW m \in Messages
  PROVE  /\ m.type \in Asks
         /\ m.ID \in Nat
         /\ m.body \in {"none", "torn", "old", "genuine", "forged"}
         /\ m.type = "IDENTIFY" <=> m.body # "none"
         /\ Torn(m) \in Messages
<1>1. CASE m \in Requests
  BY <1>1, RequestFields DEF Messages
<1>2. ASSUME NEW r \in Requests, m = Torn(r)
      PROVE  /\ m.type \in Asks
             /\ m.ID \in Nat
             /\ m.body \in {"none", "torn", "old", "genuine", "forged"}
             /\ m.type = "IDENTIFY" <=> m.body # "none"
             /\ Torn(m) \in Messages
  <2>1. CASE r.type = "IDENTIFY"
    <3> DEFINE t == [type |-> r.type, ID |-> r.ID, body |-> "torn"]
    <3>1. m = t
      BY <1>2, <2>1, RequestFields DEF Torn
    <3>2. Torn(m) = m
      BY <2>1, <3>1 DEF Torn
    <3> QED
      BY <1>2, <2>1, <3>1, <3>2, RequestFields DEF Messages
  <2>2. CASE r.type # "IDENTIFY"
    BY <1>2, <2>2, RequestFields DEF Torn, Messages
  <2> QED
    BY <2>1, <2>2
<1> QED
  BY <1>1, <1>2 DEF Messages

(* The Gen functions make responses, and they record a number.             *)
LEMMA PackageType ==
  ASSUME cur \in [type : Asks \cup {"none"}, ID : Nat], cur.type \in Handled,
         NEW a \in Packages
  PROVE  /\ a \in Responses
         /\ a.type \in {"MINVERREQ", cur.type}
         /\ a.num \in Nat
         /\ a.type = "MINVERREQ" => cur.type = "IDENTIFY"
         /\ cur.type # "IDENTIFY" => a.type = cur.type
<1> DEFINE P(t, id, N) == [type : {t}, ID : {id}, num : N]
<1>1. ASSUME NEW t \in Handled \cup {"MINVERREQ"}, NEW id \in Nat,
             NEW N \in SUBSET Nat, a \in P(t, id, N)
      PROVE  a \in Responses /\ a.type = t /\ a.num \in Nat
  BY <1>1 DEF Responses
<1>2. "MINVERREQ" \notin Handled /\ DEFAULT_ID \in Nat /\ {0} \subseteq Nat
  BY DEF Handled, DEFAULT_ID
<1>3. CASE cur.type = "IDENTIFY" /\ iden = "old"
  <2>1. a \in P("MINVERREQ", DEFAULT_ID, {0})
    BY <1>3 DEF Packages, Package, SubTerm
  <2> QED
    BY <1>1, <1>2, <1>3, <2>1
<1>4. CASE ~(cur.type = "IDENTIFY" /\ iden = "old")
  <2>1. \E id \in Nat, N \in SUBSET Nat : a \in P(cur.type, id, N)
    <3>1. CASE cur.type = "ETHINFO"
      <4>1. a \in P(cur.type, cur.ID, {0})
        BY <1>4, <3>1 DEF Packages, Package, SubTerm
      <4> QED
        BY <1>2, <4>1
    <3>2. CASE cur.type \in SubTerm
      <4>1. a \in P(cur.type, cur.ID, ScreenNums)
        BY <1>4, <3>2 DEF Packages, Package, SubTerm
      <4> QED
        BY <4>1, ProtocolAssumption
    <3>3. CASE cur.type = "TERMINFO"
      <4>1. a \in P(cur.type, DEFAULT_ID, TermNums)
        BY <1>4, <3>3 DEF Packages, Package, SubTerm
      <4> QED
        BY <1>2, <4>1, ProtocolAssumption
    <3>4. CASE cur.type \notin {"ETHINFO", "TERMINFO"} \cup SubTerm
      <4>1. a \in P(cur.type, DEFAULT_ID, {0})
        BY <1>4, <3>4 DEF Packages, Package
      <4> QED
        BY <1>2, <4>1
    <3> QED
      BY <3>1, <3>2, <3>3, <3>4
  <2> QED
    BY <1>1, <1>2, <2>1
<1> QED
  BY <1>3, <1>4

(* The package made for a request fits the request.                        *)
LEMMA PackageFits ==
  ASSUME NEW r \in Requests, cur = [type |-> r.type, ID |-> r.ID],
         r.type = "IDENTIFY" => iden = r.body
  PROVE  Packages = AnswersTo(r)
<1> SUFFICES Packages = AnswersTo(r)
  OBVIOUS
<1>1. cur.type = r.type /\ cur.ID = r.ID
  OBVIOUS
<1>2. r.body = "old" => r.type = "IDENTIFY"
  BY RequestFields
<1>3. CASE r.type = "IDENTIFY"
  BY <1>1, <1>3 DEF Packages, Package, AnswersTo, SubTerm
<1>4. CASE r.type = "ETHINFO"
  BY <1>1, <1>2, <1>4 DEF Packages, Package, AnswersTo, SubTerm
<1>5. CASE r.type \in SubTerm
  BY <1>1, <1>2, <1>5 DEF Packages, Package, AnswersTo, SubTerm
<1>6. CASE r.type = "TERMINFO"
  BY <1>1, <1>2, <1>6 DEF Packages, Package, AnswersTo, SubTerm
<1>7. CASE r.type \notin {"IDENTIFY", "ETHINFO", "TERMINFO"} \cup SubTerm
  BY <1>1, <1>2, <1>7 DEF Packages, Package, AnswersTo
<1> QED
  BY <1>3, <1>4, <1>5, <1>6, <1>7

-----------------------------------------------------------------------------
(* Every request is a message, and a queue of messages stays one when its  *)
(* head is taken or a message is added to it.                              *)
LEMMA QueueFacts ==
  ASSUME NEW q \in Seq(Messages)
  PROVE  /\ Len(q) \in Nat
         /\ \A k \in 1 .. Len(q) : q[k] \in Messages
         /\ Requests \subseteq Messages
         /\ \A m \in Messages :
              /\ Append(q, m) \in Seq(Messages)
              /\ Len(Append(q, m)) = Len(q) + 1
              /\ Append(q, m)[Len(q) + 1] = m
              /\ \A k \in 1 .. Len(q) : Append(q, m)[k] = q[k]
         /\ q # <<>> =>
              /\ Len(q) > 0
              /\ q[1] \in Messages
              /\ Tail(q) \in Seq(Messages)
              /\ Len(Tail(q)) = Len(q) - 1
              /\ \A k \in 1 .. Len(q) - 1 : Tail(q)[k] = q[k + 1]
<1>1. Requests \subseteq Messages
  BY DEF Messages
<1>2. q # <<>> => Len(q) > 0
  BY EmptySeq
<1>3. q # <<>> => /\ Tail(q) \in Seq(Messages)
                  /\ Len(Tail(q)) = Len(q) - 1
                  /\ \A k \in 1 .. Len(q) - 1 : Tail(q)[k] = q[k + 1]
  BY HeadTailProperties
<1>4. Len(q) \in Nat /\ \A k \in 1 .. Len(q) : q[k] \in Messages
  BY LenProperties, ElementOfSeq
<1>5. q # <<>> => q[1] \in Messages
  BY <1>2, <1>4
<1>6. \A m \in Messages :
        /\ Append(q, m) \in Seq(Messages)
        /\ Len(Append(q, m)) = Len(q) + 1
        /\ Append(q, m)[Len(q) + 1] = m
        /\ \A k \in 1 .. Len(q) : Append(q, m)[k] = q[k]
  BY AppendProperties
<1> QED
  BY <1>1, <1>2, <1>3, <1>4, <1>5, <1>6

(* The initial states satisfy the inductive invariant.                     *)
LEMMA InitIInv == Init => IInv
<1> SUFFICES ASSUME Init PROVE IInv
  OBVIOUS
<1>1. toClient \in Seq(Messages) /\ asked \in Seq(Requests)
        /\ answered \in Seq(Responses)
  BY EmptySeq DEF Init
<1>2. tally \in Counts /\ cur \in [type : Asks \cup {"none"}, ID : Nat]
  BY DEF Init, Counts, NoHeader
<1>3. xls_termNum \in Nat /\ xls_vScrNum \in Nat
  BY DEF Init
<1>4. TypeOK
  BY <1>1, <1>2, <1>3 DEF Init, TypeOK
<1>5. PhaseInv /\ HoldInv
  BY DEF Init, PhaseInv, HoldInv, InSession, Dead
<1>6. EveryRequestAccounted /\ FifoInv /\ HandInv /\ CountInv /\ RowMatchesServer
  BY DEF Init, EveryRequestAccounted, FifoInv, HandInv, CountInv,
     RowMatchesServer
<1> QED
  BY <1>4, <1>5, <1>6 DEF IInv

-----------------------------------------------------------------------------
(* A request goes to the end of the queue.                                 *)
LEMMA ServerAskIInv ==
  ASSUME IInv, NEW r \in Requests, ServerAsk(r)
  PROVE  IInv'
<1> USE DEF IInv
<1>1. toClient \in Seq(Messages) /\ asked \in Seq(Requests)
        /\ answered \in Seq(Responses) /\ Len(answered) \in Nat
  BY LenProperties DEF TypeOK
<1>2. /\ toClient' \in Seq(Messages)
      /\ Len(toClient) \in Nat
      /\ Len(toClient') = Len(toClient) + 1
      /\ toClient'[Len(toClient) + 1] = r
      /\ \A k \in 1 .. Len(toClient) : toClient'[k] = toClient[k]
  BY <1>1, QueueFacts DEF ServerAsk
<1>3. /\ asked' \in Seq(Requests)
      /\ Len(asked) \in Nat
      /\ Len(asked') = Len(asked) + 1
      /\ asked'[Len(asked) + 1] = r
      /\ \A k \in 1 .. Len(asked) : asked'[k] = asked[k]
  BY <1>1, AppendProperties, LenProperties DEF ServerAsk
<1>4. /\ conn = "open"
      /\ UNCHANGED <<control, conn, incoming, answered, tally, session, results>>
  BY DEF ServerAsk
<1> USE <1>4 DEF control, session, results
<1>5. TypeOK'
  BY <1>2, <1>3 DEF TypeOK
<1>6. PhaseInv' /\ HoldInv'
  BY DEF PhaseInv, HoldInv, InSession, Dead
<1>7. InHand' = InHand /\ InHand \in Nat
  BY DEF InHand
<1>8. EveryRequestAccounted'
  <2>1. /\ Len(asked') = Len(asked) + 1
        /\ Len(toClient') = Len(toClient) + 1
        /\ Len(answered') = Len(answered)
        /\ pc' = pc /\ conn' = conn
    BY <1>2, <1>3
  <2>2. /\ Len(asked) \in Int /\ Len(answered) \in Int /\ Len(toClient) \in Int
        /\ InHand \in Int
    BY <1>1, <1>2, <1>3, <1>7
  <2> QED
    BY <1>7, <2>1, <2>2 DEF EveryRequestAccounted
<1>9. FifoInv'
  <2> SUFFICES ASSUME pc \notin {"ok", "error"}, NEW k \in 1 .. Len(toClient')
               PROVE  toClient'[k] = asked'[Len(answered) + InHand + k]
    BY <1>7 DEF FifoInv
  <2>1. Len(asked) = Len(answered) + InHand + Len(toClient)
    BY DEF EveryRequestAccounted
  <2>2. CASE k \in 1 .. Len(toClient)
    <3>1. toClient[k] = asked[Len(answered) + InHand + k]
      BY <2>2 DEF FifoInv
    <3>2. Len(answered) + InHand + k \in 1 .. Len(asked)
      BY <1>1, <1>2, <1>7, <2>1, <2>2
    <3> QED
      BY <1>2, <1>3, <2>2, <3>1, <3>2
  <2>3. CASE k = Len(toClient) + 1
    BY <1>1, <1>2, <1>3, <1>7, <2>1, <2>3
  <2> QED
    BY <1>2, <2>2, <2>3
<1>10. HandInv'
  <2>1. SUFFICES ASSUME InHand = 1 PROVE HandOK(asked[Len(answered) + 1])'
    BY <1>7 DEF HandInv
  <2>2. Len(answered) + 1 \in 1 .. Len(asked)
    BY <1>1, <1>2, <1>3, <2>1 DEF EveryRequestAccounted, InHand
  <2>3. HandOK(asked[Len(answered) + 1])
    BY <2>1 DEF HandInv
  <2>4. asked'[Len(answered) + 1] = asked[Len(answered) + 1]
    BY <1>3, <2>2
  <2> QED
    BY <2>3, <2>4 DEF HandOK
<1>11. CountInv' /\ RowMatchesServer'
  BY <1>1, <1>2, <1>3, <1>7
  DEF CountInv, RowMatchesServer, Expected, Recorded, PhaseInv, InSession
<1> QED
  BY <1>5, <1>6, <1>8, <1>9, <1>10, <1>11

(* The connection ends, whatever of the queue is cut off: only what is     *)
(* said about a connection that is not open remains to be shown.           *)
LEMMA ConnectionEnds ==
  ASSUME IInv, conn = "open", conn' \in {"fin", "rst"},
         toClient' \in Seq(Messages), asked' \in Seq(Requests),
         incoming' \in {"none", "torn", "old", "genuine", "forged"},
         pc = "body" => incoming' # "none",
         Len(asked') + Len(toClient) >= Len(asked) + Len(toClient'),
         UNCHANGED <<control, answered, tally, session, results>>
  PROVE  IInv'
<1> USE DEF IInv, control, session, results
<1>1. /\ Len(toClient) \in Int /\ Len(toClient') \in Int
      /\ Len(asked) \in Int /\ Len(asked') \in Int
      /\ Len(answered) \in Int /\ Len(answered') = Len(answered)
  BY LenProperties DEF TypeOK
<1>2. InHand' = InHand /\ InHand \in Int
  BY DEF InHand
<1>3. TypeOK'
  BY DEF TypeOK
<1>4. PhaseInv' /\ HoldInv'
  BY DEF PhaseInv, HoldInv, InSession, Dead
<1>5. /\ Len(asked) >= Len(answered) + InHand + Len(toClient)
      /\ Len(asked') >= Len(answered) + InHand + Len(toClient')
  BY <1>1, <1>2 DEF EveryRequestAccounted
<1>6. EveryRequestAccounted'
  BY <1>1, <1>2, <1>5 DEF EveryRequestAccounted
<1>7. FifoInv' /\ HandInv'
  BY DEF FifoInv, HandInv
<1>8. CountInv'
  <2>1. Expected' = Expected
    BY DEF Expected, Recorded
  <2>2. Len(asked') = Len(answered) + InHand + Len(toClient') =>
          Len(asked) = Len(answered) + InHand + Len(toClient)
    BY <1>1, <1>2, <1>5
  <2> QED
    BY <1>1, <1>2, <2>1, <2>2 DEF CountInv
<1>9. RowMatchesServer'
  BY DEF RowMatchesServer, PhaseInv, InSession
<1> QED
  BY <1>3, <1>4, <1>6, <1>7, <1>8, <1>9

(* The ways in which it ends.                                              *)
LEMMA ServerEndsIInv ==
  IInv /\ (ServerClose \/ (\E r \in Requests : ServerDie(r)) \/ ServerReset)
    => IInv'
<1> SUFFICES ASSUME IInv,
                    ServerClose \/ (\E r \in Requests : ServerDie(r))
                      \/ ServerReset
             PROVE  IInv'
  OBVIOUS
<1>1. toClient \in Seq(Messages) /\ asked \in Seq(Requests)
        /\ incoming \in {"none", "torn", "old", "genuine", "forged"}
        /\ (pc = "body" => incoming # "none")
  BY DEF IInv, TypeOK, PhaseInv
<1>2. Len(toClient) \in Nat /\ Len(asked) \in Nat
  BY <1>1, LenProperties
<1>3. CASE ServerClose
  BY <1>1, <1>2, <1>3, ConnectionEnds DEF ServerClose
<1>4. ASSUME NEW r \in Requests, ServerDie(r) PROVE IInv'
  <2>1. Torn(r) \in Messages
    BY QueueFacts, MessageFields, <1>1
  <2>2. toClient' \in Seq(Messages) /\ Len(toClient') = Len(toClient) + 1
    BY <1>1, <1>4, <2>1, AppendProperties DEF ServerDie
  <2>3. asked' \in Seq(Requests) /\ Len(asked') = Len(asked) + 1
    BY <1>1, <1>4, AppendProperties DEF ServerDie
  <2>4. Len(asked') + Len(toClient) >= Len(asked) + Len(toClient')
    BY <1>2, <2>2, <2>3
  <2>5. /\ conn = "open" /\ conn' = "fin" /\ incoming' = incoming
        /\ UNCHANGED <<control, answered, tally, session, results>>
    BY <1>4 DEF ServerDie
  <2> QED
    BY <1>1, <2>2, <2>3, <2>4, <2>5, ConnectionEnds
<1>5. CASE ServerReset
  <2>1. /\ conn = "open" /\ conn' = "rst"
        /\ asked' = asked
        /\ UNCHANGED <<control, answered, tally, session, results>>
    BY <1>5 DEF ServerReset
  <2>2. ASSUME NEW n \in 0 .. Len(toClient)
        PROVE  /\ SubSeq(toClient, 1, n) \in Seq(Messages)
               /\ Len(SubSeq(toClient, 1, n)) = n
    <3>1. \A k \in 1 .. n : toClient[k] \in Messages
      BY <1>1, <1>2, ElementOfSeq
    <3> QED
      BY <1>2, <3>1, SubSeqProperties
  <2>3. ASSUME NEW n \in 0 .. Len(toClient), n < Len(toClient),
               toClient' = Append(SubSeq(toClient, 1, n), Torn(toClient[n + 1]))
        PROVE  toClient' \in Seq(Messages) /\ Len(toClient') = n + 1
    <3>1. toClient[n + 1] \in Messages
      BY <1>1, <1>2, <2>3, ElementOfSeq
    <3> QED
      BY <2>2, <2>3, <3>1, MessageFields, AppendProperties
  <2>4. toClient' \in Seq(Messages) /\ Len(toClient') \in 0 .. Len(toClient)
    <3>1. CASE toClient' = <<>>
      BY <1>2, <3>1, EmptySeq
    <3>2. ASSUME NEW n \in 0 .. Len(toClient), toClient' = SubSeq(toClient, 1, n)
          PROVE  toClient' \in Seq(Messages) /\ Len(toClient') \in 0 .. Len(toClient)
      BY <2>2, <3>2
    <3>3. ASSUME NEW n \in 0 .. Len(toClient), n < Len(toClient),
                 toClient' = Append(SubSeq(toClient, 1, n), Torn(toClient[n + 1]))
          PROVE  toClient' \in Seq(Messages) /\ Len(toClient') \in 0 .. Len(toClient)
      BY <1>2, <2>3, <3>3
    <3> QED
      BY <1>5, <3>1, <3>2, <3>3 DEF ServerReset
  <2>5. /\ incoming' \in {"none", "torn", "old", "genuine", "forged"}
        /\ pc = "body" => incoming' # "none"
    BY <1>1, <1>5 DEF ServerReset
  <2>6. Len(asked') + Len(toClient) >= Len(asked) + Len(toClient')
    BY <1>2, <2>1, <2>4
  <2> QED
    BY <1>1, <2>1, <2>4, <2>5, <2>6, ConnectionEnds
<1> QED
  BY <1>3, <1>4, <1>5

-----------------------------------------------------------------------------
(* The lengths that the invariants compare are integers.                   *)
LEMMA Lengths ==
  ASSUME TypeOK
  PROVE  /\ Len(toClient) \in Nat
         /\ Len(asked) \in Nat
         /\ Len(answered) \in Nat
         /\ InHand \in {0, 1}
         /\ InHand \in Int
         /\ InHand = 1 <=> pc \in {"body", "check", "gen", "send"}
  BY LenProperties DEF TypeOK, InHand

(* While the client has no connection, only its own results can change.    *)
LEMMA OutsideIInv ==
  IInv /\ (SocketOk \/ SocketFail \/ Connect \/ WakeUp) => IInv'
<1> SUFFICES ASSUME IInv, SocketOk \/ SocketFail \/ Connect \/ WakeUp
             PROVE  IInv'
  OBVIOUS
<1> USE DEF IInv
<1>1. conn = "none" /\ toClient = <<>>
  BY DEF PhaseInv, InSession, SocketOk, SocketFail, Connect, WakeUp
<1>2. CASE SocketOk \/ SocketFail \/ WakeUp
  <2> USE <1>2 DEF SocketOk, SocketFail, WakeUp, network, session, results
  <2>1. TypeOK'
    <3>1. UNCHANGED <<conn, toClient, incoming, asked, answered, tally, quitAfterSucc>>
      OBVIOUS
    <3>2. cur' \in [type : Asks \cup {"none"}, ID : Nat]
      BY DEF TypeOK, NoHeader
    <3>3. xls_termNum' \in Nat /\ xls_vScrNum' \in Nat
      BY DEF TypeOK
    <3>4. /\ pc' \in {"connect", "exitERROR", "socket"}
          /\ iden' \in {iden, "garbage"} /\ sendBuf' \in {sendBuf, NoPackage}
          /\ row' \in {row, NoRow} /\ held' \in {held, held \cup {"cSocket"}}
          /\ interval' = interval
      OBVIOUS
    <3> QED
      BY <3>1, <3>2, <3>3, <3>4 DEF TypeOK
  <2>2. conn' = "none" /\ toClient' = <<>>
    BY <1>1
  <2>3. PhaseInv' /\ HoldInv'
    BY <1>1 DEF PhaseInv, HoldInv, InSession, Dead
  <2>4. EveryRequestAccounted' /\ FifoInv' /\ HandInv' /\ CountInv'
    BY <2>2 DEF EveryRequestAccounted, FifoInv, HandInv, CountInv
  <2>5. RowMatchesServer'
    BY DEF RowMatchesServer
  <2> QED
    BY <2>1, <2>3, <2>4, <2>5
<1>3. CASE Connect
  <2> USE <1>3 DEF Connect, session, results
  <2>1. /\ asked' \in Seq(Requests) /\ Len(asked') = 0
        /\ answered' \in Seq(Responses) /\ Len(answered') = 0
        /\ toClient' = <<>> /\ Len(toClient') = 0
    BY <1>1, EmptySeq
  <2>2. tally' = [termNum |-> 0, vScrNum |-> 0] /\ tally' \in Counts
    BY DEF Counts
  <2>3. TypeOK'
    BY <2>1, <2>2 DEF TypeOK
  <2>4. PhaseInv' /\ HoldInv'
    BY DEF PhaseInv, HoldInv, InSession, Dead
  <2>5. InHand' = 0
    BY DEF InHand
  <2>6. EveryRequestAccounted' /\ FifoInv' /\ HandInv'
    BY <2>1, <2>5 DEF EveryRequestAccounted, FifoInv, HandInv
  <2>7. CountInv' /\ RowMatchesServer'
    BY <2>2 DEF CountInv, Expected, PhaseInv, RowMatchesServer
  <2> QED
    BY <2>3, <2>4, <2>6, <2>7
<1> QED
  BY <1>2, <1>3

(* The client takes the oldest request of the queue in hand, or leaves the *)
(* session when it does not know its type.                                 *)
LEMMA RecvHeaderIInv == IInv /\ RecvHeader => IInv'
<1> SUFFICES ASSUME IInv, RecvHeader PROVE IInv'
  OBVIOUS
<1> USE DEF IInv
<1>1. toClient # <<>> /\ pc = "recv" /\ toClient' = Tail(toClient)
  BY DEF RecvHeader
<1>2. UNCHANGED <<quitAfterSucc, conn, asked, answered, tally, iden, sendBuf,
                  xls_termNum, xls_vScrNum, row, held, interval>>
  BY DEF RecvHeader, results
<1> DEFINE m == toClient[1]
<1>3. /\ m \in Messages
      /\ toClient' \in Seq(Messages)
      /\ Len(toClient') = Len(toClient) - 1
      /\ \A k \in 1 .. Len(toClient) - 1 : toClient'[k] = toClient[k + 1]
  BY <1>1, QueueFacts DEF TypeOK
<1>4. cur' = [type |-> m.type, ID |-> m.ID] /\ incoming' = m.body
  BY DEF RecvHeader
<1>5. /\ m.type \in Asks /\ m.ID \in Nat
      /\ m.body \in {"none", "torn", "old", "genuine", "forged"}
      /\ m.type = "IDENTIFY" <=> m.body # "none"
  BY <1>3, MessageFields
<1>6. /\ pc' \in {"body", "error", "gen"}
      /\ pc' = "body" <=> m.type = "IDENTIFY"
      /\ pc' = "gen" => m.type \in Handled
  <2>1. "IDENTIFY" \in Handled
    BY DEF Handled
  <2> QED
    BY <1>4, <2>1 DEF RecvHeader
<1>7. TypeOK'
  BY <1>2, <1>3, <1>4, <1>5, <1>6 DEF TypeOK
<1>8. PhaseInv' /\ HoldInv'
  BY <1>1, <1>2, <1>4, <1>5, <1>6 DEF PhaseInv, HoldInv, InSession, Dead
<1>9. /\ InHand = 0
      /\ pc' # "error" => InHand' = 1
      /\ pc' = "error" => InHand' = 0
  BY <1>1, <1>6 DEF InHand
<1>10. /\ Len(toClient) \in Nat /\ Len(asked) \in Nat /\ Len(answered) \in Nat
  BY Lengths
<1>11. EveryRequestAccounted'
  <2>1. CASE pc' = "error"
    BY <1>1, <1>2, <1>3, <1>9, <1>10, <2>1 DEF EveryRequestAccounted
  <2>2. CASE pc' # "error"
    BY <1>1, <1>2, <1>3, <1>9, <1>10, <2>2 DEF EveryRequestAccounted
  <2> QED
    BY <2>1, <2>2
<1>12. FifoInv'
  <2> SUFFICES ASSUME conn = "open", pc' # "error", NEW k \in 1 .. Len(toClient')
               PROVE  toClient'[k] = asked[Len(answered) + 1 + k]
    BY <1>2, <1>9 DEF FifoInv
  <2>1. k \in 1 .. Len(toClient) - 1 /\ k + 1 \in 1 .. Len(toClient)
    BY <1>3, <1>10
  <2>2. toClient[k + 1] = asked[Len(answered) + 0 + (k + 1)]
    BY <1>1, <1>9, <2>1 DEF FifoInv
  <2>3. Len(answered) + 0 + (k + 1) = Len(answered) + 1 + k
    BY <1>10, <2>1
  <2> QED
    BY <1>3, <2>1, <2>2, <2>3
<1>13. HandInv'
  <2> SUFFICES ASSUME conn = "open", pc' # "error"
               PROVE  HandOK(asked[Len(answered) + 1])'
    BY <1>2, <1>9 DEF HandInv
  <2>1. 1 \in 1 .. Len(toClient)
    BY <1>1, <1>10, QueueFacts DEF TypeOK
  <2>2. m = asked[Len(answered) + 0 + 1]
    BY <1>1, <1>9, <2>1 DEF FifoInv
  <2>3. m = asked[Len(answered) + 1]
    BY <1>10, <2>2
  <2>4. pc' = "gen" => Answerable(m)
    BY <1>5, <1>6 DEF Answerable
  <2> QED
    BY <1>2, <1>4, <1>6, <2>3, <2>4 DEF HandOK, Answerable
<1>14. CountInv' /\ RowMatchesServer'
  <2>1. Expected' = tally /\ Expected = tally
    BY <1>1, <1>2, <1>6 DEF Expected
  <2>2. conn # "none" /\ row = NoRow
    BY <1>1 DEF PhaseInv, InSession
  <2>3. Len(asked) = Len(answered) + InHand' + Len(toClient') =>
          Len(asked) = Len(answered) + InHand + Len(toClient)
    <3>1. Len(asked) >= Len(answered) + InHand + Len(toClient)
      BY <2>2 DEF EveryRequestAccounted
    <3>2. InHand' \in {0, 1}
      BY <1>9
    <3> QED
      BY <1>3, <1>9, <1>10, <3>1, <3>2
  <2> QED
    BY <1>2, <2>1, <2>2, <2>3 DEF CountInv, RowMatchesServer
<1> QED
  BY <1>7, <1>8, <1>11, <1>12, <1>13, <1>14

(* The requests that are not accounted for any more stay unaccounted for:  *)
(* what the client leaves undone, or does for nobody, keeps CountInv.      *)
LEMMA LossKeepsCounts ==
  ASSUME IInv, conn # "none", pc' # "send", InHand' = 0,
         \/ InHand = 1
         \/ pc = "recv" /\ pc' = "ok",
         conn' \notin {"none", "open"} \/ pc' \in {"ok", "error"},
         UNCHANGED <<toClient, asked, answered, tally, xls_termNum, xls_vScrNum>>
  PROVE  EveryRequestAccounted' /\ FifoInv' /\ HandInv' /\ CountInv'
<1> USE DEF IInv
<1>1. Len(asked) >= Len(answered) + InHand + Len(toClient)
  BY DEF EveryRequestAccounted
<1>2. Len(asked) \in Nat /\ Len(answered) \in Nat /\ Len(toClient) \in Nat
  BY Lengths
<1>3. EveryRequestAccounted'
  <2>1. InHand \in {0, 1}
    BY Lengths
  <2>2. Len(asked) >= Len(answered) + 0 + Len(toClient)
    BY <1>1, <1>2, <2>1
  <2>3. Len(asked)' >= Len(answered)' + InHand' + Len(toClient)'
    BY <2>2
  <2> QED
    BY <2>3 DEF EveryRequestAccounted
<1>4. FifoInv' /\ HandInv'
  BY DEF FifoInv, HandInv
<1>5. CountInv'
  <2>1. Expected' = tally
    BY DEF Expected
  <2>2. xls_vScrNum >= tally.vScrNum
    BY DEF CountInv
  <2>3. CASE InHand = 1
    BY <1>1, <1>2, <2>1, <2>2, <2>3 DEF CountInv
  <2>4. CASE InHand # 1
    <3>1. InHand = 0 /\ Expected = tally
      BY <2>4 DEF InHand, Expected
    <3> QED
      BY <2>1, <2>4, <3>1 DEF CountInv
  <2> QED
    BY <2>3, <2>4
<1> QED
  BY <1>3, <1>4, <1>5

(* The client reaches the end of the queue, or of a body that was cut off. *)
LEMMA ClosedIInv == IInv /\ (RecvClosed \/ BodyClosed) => IInv'
<1> SUFFICES ASSUME IInv, RecvClosed \/ BodyClosed PROVE IInv'
  OBVIOUS
<1> USE DEF IInv
<1>1. /\ pc \in {"recv", "body"} /\ pc' = "ok"
      /\ UNCHANGED <<quitAfterSucc, network, cur, sendBuf, xls_termNum,
                     xls_vScrNum, results>>
      /\ iden' \in {iden, "garbage"}
  BY DEF RecvClosed, BodyClosed, session
<1>2. UNCHANGED <<conn, toClient, incoming, asked, answered, tally, row, held,
                  interval>>
  BY <1>1 DEF network, results
<1>3. TypeOK'
  BY <1>1, <1>2 DEF TypeOK
<1>4. PhaseInv' /\ HoldInv'
  BY <1>1, <1>2 DEF PhaseInv, HoldInv, InSession, Dead
<1>5. conn # "none" /\ row = NoRow
  BY <1>1 DEF PhaseInv, InSession
<1>6. InHand' = 0 /\ (InHand = 1 \/ (pc = "recv" /\ pc' = "ok"))
  BY <1>1 DEF InHand
<1>7. EveryRequestAccounted' /\ FifoInv' /\ HandInv' /\ CountInv'
  BY <1>1, <1>2, <1>5, <1>6, LossKeepsCounts
<1>8. RowMatchesServer'
  BY <1>2, <1>5 DEF RowMatchesServer
<1> QED
  BY <1>3, <1>4, <1>7, <1>8

(* A Gen function fails, or a package gets lost on its way.                *)
LEMMA DroppedIInv == IInv /\ (GenFail \/ SendLost \/ SendClosed) => IInv'
<1> SUFFICES ASSUME IInv, GenFail \/ SendLost \/ SendClosed PROVE IInv'
  OBVIOUS
<1> USE DEF IInv
<1>1. UNCHANGED <<quitAfterSucc, toClient, incoming, asked, answered, tally,
                  cur, iden, xls_termNum, xls_vScrNum, row, interval>>
  BY DEF GenFail, SendLost, SendClosed, network, session, results
<1>2. \/ /\ pc = "gen" /\ pc' = "error" /\ conn' = conn /\ sendBuf' = sendBuf
         /\ held' \in {held, held \cup {"tempBuf"}, held \cup {"fp"},
                       held \cup {"tempBuf", "fp"}}
      \/ /\ pc = "send" /\ pc' = "recv" /\ conn' \in {"fin", "rst", "broken"}
         /\ sendBuf' = NoPackage /\ held' = held
      \/ /\ pc = "send" /\ pc' = "ok" /\ conn' = conn
         /\ sendBuf' = NoPackage /\ held' = held
  <2>1. CASE GenFail
    BY <2>1 DEF GenFail, network, session
  <2>2. CASE SendLost \/ SendClosed
    BY <2>2 DEF SendLost, SendClosed, network, results
  <2> QED
    BY <2>1, <2>2
<1>3. TypeOK'
  <2>1. conn' \in {"none", "open", "fin", "rst", "broken"}
    BY <1>2 DEF TypeOK
  <2>2. held' \subseteq {"cSocket", "tempBuf", "fp", "CPU_RAM_FILE"}
    BY <1>2 DEF TypeOK
  <2>3. pc' \in {"error", "recv", "ok"} /\ sendBuf' \in {sendBuf, NoPackage}
    BY <1>2
  <2> QED
    BY <1>1, <2>1, <2>2, <2>3 DEF TypeOK
<1>4. conn # "none" /\ row = NoRow
  BY <1>2 DEF PhaseInv, InSession
<1>5. PhaseInv' /\ HoldInv'
  BY <1>1, <1>2, <1>4 DEF PhaseInv, HoldInv, InSession, Dead
<1>6. InHand = 1 /\ InHand' = 0
  BY <1>2 DEF InHand
<1>7. EveryRequestAccounted' /\ FifoInv' /\ HandInv' /\ CountInv'
  BY <1>1, <1>2, <1>4, <1>6, LossKeepsCounts
<1>8. RowMatchesServer'
  BY <1>1, <1>4 DEF RowMatchesServer
<1> QED
  BY <1>3, <1>5, <1>7, <1>8

(* What a step that keeps the request in hand, and does not make its       *)
(* package, leaves true of the queue and of the counts.                    *)
LEMMA InHandKeeps ==
  ASSUME IInv, pc \in {"body", "check"}, pc' \in {"check", "gen"},
         UNCHANGED <<conn, toClient, asked, answered, tally, xls_termNum,
                     xls_vScrNum>>
  PROVE  EveryRequestAccounted' /\ FifoInv' /\ CountInv'
<1> USE DEF IInv
<1>1. InHand' = InHand
  BY DEF InHand
<1>2. pc \notin {"ok", "error"} /\ Expected' = Expected
  BY DEF Expected
<1>3. EveryRequestAccounted'
  BY <1>1, <1>2 DEF EveryRequestAccounted
<1>4. FifoInv'
  BY <1>1, <1>2 DEF FifoInv
<1>5. CountInv'
  BY <1>1, <1>2 DEF CountInv
<1> QED
  BY <1>3, <1>4, <1>5

(* The client reads the body of the IDENTIFY it has in hand.               *)
LEMMA RecvBodyIInv == IInv /\ RecvBody => IInv'
<1> SUFFICES ASSUME IInv, RecvBody PROVE IInv'
  OBVIOUS
<1> USE DEF IInv
<1>1. /\ pc = "body" /\ pc' = "check" /\ incoming # "torn" /\ iden' = incoming
      /\ UNCHANGED <<quitAfterSucc, conn, toClient, incoming, asked, answered,
                     tally, cur, sendBuf, xls_termNum, xls_vScrNum, row, held,
                     interval>>
  BY DEF RecvBody, network, results
<1>2. iden' \in {"old", "genuine", "forged"}
  BY <1>1 DEF TypeOK, PhaseInv
<1>3. TypeOK'
  BY <1>1, <1>2 DEF TypeOK
<1>4. PhaseInv' /\ HoldInv'
  BY <1>1 DEF PhaseInv, HoldInv, InSession, Dead
<1>5. EveryRequestAccounted' /\ FifoInv' /\ CountInv'
  BY <1>1, InHandKeeps
<1>6. HandInv'
  <2>1. SUFFICES ASSUME conn = "open" PROVE HandOK(asked[Len(answered) + 1])'
    BY <1>1 DEF HandInv
  <2>2. HandOK(asked[Len(answered) + 1])
    BY <1>1, <2>1 DEF HandInv, InHand
  <2> QED
    BY <1>1, <2>2 DEF HandOK
<1>7. RowMatchesServer'
  BY <1>1 DEF RowMatchesServer, PhaseInv
<1> QED
  BY <1>3, <1>4, <1>5, <1>6, <1>7

(* What ends the process takes the connection with it.                     *)
LEMMA ProcessDies ==
  ASSUME IInv, InSession, pc' \in {"exitERROR", "sigpipe", "segv"},
         conn' = "none", toClient' = <<>>,
         \/ pc' = "exitERROR" /\ held' = held \ {"cSocket"}
         \/ held' = held \cap {"CPU_RAM_FILE"},
         sendBuf' = NoPackage,
         UNCHANGED <<quitAfterSucc, incoming, asked, answered, tally, cur, iden,
                     xls_termNum, xls_vScrNum, row, interval>>
  PROVE  IInv'
<1> USE DEF IInv
<1>1. toClient' \in Seq(Messages)
  BY EmptySeq
<1>2. held' \subseteq held /\ "cSocket" \notin held'
        /\ (pc' # "exitERROR" => held' \subseteq {"CPU_RAM_FILE"})
  OBVIOUS
<1>3. TypeOK'
  BY <1>1, <1>2 DEF TypeOK
<1>4. row = NoRow
  BY DEF PhaseInv, InSession
<1>5. PhaseInv'
  BY <1>4 DEF PhaseInv, InSession
<1>6. HoldInv'
  BY <1>2 DEF HoldInv, Dead
<1>7. EveryRequestAccounted' /\ FifoInv' /\ HandInv' /\ CountInv'
  BY DEF EveryRequestAccounted, FifoInv, HandInv, CountInv
<1>8. RowMatchesServer'
  BY <1>4 DEF RowMatchesServer
<1> QED
  BY <1>3, <1>5, <1>6, <1>7, <1>8

(* IsOldVersion, OutOfDate and Identify let a request pass to GenIdentify  *)
(* only when it must be answered.                                          *)
LEMMA CheckIdentifyIInv == IInv /\ CheckIdentify => IInv'
<1> SUFFICES ASSUME IInv, CheckIdentify PROVE IInv'
  OBVIOUS
<1> USE DEF IInv
<1>1. /\ pc = "check"
      /\ UNCHANGED <<quitAfterSucc, incoming, asked, answered, tally, cur, iden,
                     sendBuf, xls_termNum, xls_vScrNum, row, interval>>
  BY DEF CheckIdentify, session
<1>2. /\ cur.type = "IDENTIFY" /\ sendBuf = NoPackage /\ row = NoRow
      /\ conn # "none" /\ InSession
  BY <1>1 DEF PhaseInv, InSession
<1>3. \/ pc' = "gen" /\ iden \in {"old", "genuine"}
           /\ UNCHANGED <<conn, toClient, held>>
      \/ pc' = "ok" /\ UNCHANGED <<conn, toClient, held>>
      \/ pc' = "segv" /\ conn' = "none" /\ toClient' = <<>>
           /\ held' = held \cap {"CPU_RAM_FILE"}
  BY DEF CheckIdentify
<1>4. CASE pc' = "segv"
  BY <1>1, <1>2, <1>3, <1>4, ProcessDies
<1>5. CASE pc' = "ok"
  <2>1. TypeOK'
    <3>1. UNCHANGED <<conn, toClient, held>>
      BY <1>3, <1>5
    <3>2. TypeOK
      OBVIOUS
    <3> QED
      BY ONLY <1>1, <1>5, <3>1, <3>2 DEF TypeOK
  <2>2. PhaseInv' /\ HoldInv'
    BY <1>1, <1>2, <1>3, <1>5 DEF PhaseInv, HoldInv, InSession, Dead
  <2>3. InHand = 1 /\ InHand' = 0
    BY <1>1, <1>5 DEF InHand
  <2>4. EveryRequestAccounted' /\ FifoInv' /\ HandInv' /\ CountInv'
    BY <1>1, <1>2, <1>3, <1>5, <2>3, LossKeepsCounts
  <2> QED
    BY <1>1, <1>2, <2>1, <2>2, <2>4 DEF RowMatchesServer
<1>6. CASE pc' = "gen"
  <2>1. TypeOK'
    <3>1. UNCHANGED <<conn, toClient, held>>
      BY <1>3, <1>6
    <3>2. TypeOK
      OBVIOUS
    <3> QED
      BY ONLY <1>1, <1>6, <3>1, <3>2 DEF TypeOK
  <2>2. "IDENTIFY" \in Handled
    BY DEF Handled
  <2>3. PhaseInv' /\ HoldInv'
    BY <1>1, <1>2, <1>3, <1>6, <2>2 DEF PhaseInv, HoldInv, InSession, Dead
  <2>4. EveryRequestAccounted' /\ FifoInv' /\ CountInv'
    BY <1>1, <1>3, <1>6, InHandKeeps
  <2>5. HandInv'
    <3>1. SUFFICES ASSUME conn = "open" PROVE HandOK(asked[Len(answered) + 1])'
      BY <1>3, <1>6 DEF HandInv
    <3>2. HandOK(asked[Len(answered) + 1])
      BY <1>1, <3>1 DEF HandInv, InHand
    <3> DEFINE r == asked[Len(answered) + 1]
    <3>3. r.type = "IDENTIFY" /\ iden = r.body
      BY <1>1, <1>2, <3>2 DEF HandOK
    <3>4. Answerable(r)
      BY <1>3, <1>6, <2>2, <3>3 DEF Answerable
    <3> QED
      BY <1>1, <1>6, <3>2, <3>4 DEF HandOK, Answerable
  <2> QED
    BY <1>1, <1>2, <2>1, <2>3, <2>4, <2>5 DEF RowMatchesServer
<1> QED
  BY <1>3, <1>4, <1>5, <1>6

(* While the connection is open, the request in hand is one the server     *)
(* sent.                                                                   *)
LEMMA InHandAsked ==
  ASSUME IInv, conn = "open", InHand = 1
  PROVE  /\ Len(answered) + 1 \in 1 .. Len(asked)
         /\ Len(answered) < Len(asked)
         /\ asked[Len(answered) + 1] \in Requests
<1>1. pc \notin {"ok", "error"}
  BY DEF InHand
<1>2. Len(asked) = Len(answered) + InHand + Len(toClient)
  BY <1>1 DEF IInv, EveryRequestAccounted
<1>3. Len(asked) \in Nat /\ Len(answered) \in Nat /\ Len(toClient) \in Nat
  BY Lengths DEF IInv
<1>4. Len(answered) + 1 \in 1 .. Len(asked) /\ Len(answered) < Len(asked)
  BY <1>2, <1>3
<1> QED
  BY <1>4, ElementOfSeq DEF IInv, TypeOK

(* The package that is made answers the request in hand, and its number is *)
(* in the client's counts before the server hears of it.                   *)
LEMMA GenerateIInv == IInv /\ Generate => IInv'
<1> SUFFICES ASSUME IInv, Generate PROVE IInv'
  OBVIOUS
<1> USE DEF IInv
<1>1. /\ pc = "gen" /\ pc' = "send" /\ sendBuf' \in Packages
      /\ held' \in {held, held \cup {"CPU_RAM_FILE"}}
      /\ UNCHANGED <<quitAfterSucc, conn, toClient, incoming, asked, answered,
                     tally, cur, iden, row, interval>>
  BY DEF Generate, network
<1>2. /\ cur.type \in Handled /\ sendBuf = NoPackage /\ row = NoRow
      /\ conn # "none"
  BY <1>1 DEF PhaseInv, InSession
<1>3. /\ sendBuf' \in Responses
      /\ sendBuf'.type \in {"MINVERREQ", cur.type}
      /\ sendBuf'.num \in Nat
      /\ sendBuf'.type = "MINVERREQ" => cur.type = "IDENTIFY"
      /\ cur.type # "IDENTIFY" => sendBuf'.type = cur.type
  BY <1>1, <1>2, PackageType DEF TypeOK
<1>4. /\ cur.type = "TERMINFO" <=> sendBuf'.type = "TERMINFO"
      /\ cur.type \in SubTerm <=> sendBuf'.type \in SubTerm
      /\ ~(cur.type = "TERMINFO" /\ cur.type \in SubTerm)
  BY <1>3 DEF SubTerm
<1>5. /\ xls_termNum' =
           IF sendBuf'.type = "TERMINFO" THEN sendBuf'.num ELSE xls_termNum
      /\ xls_vScrNum' = IF sendBuf'.type \in SubTerm
                          THEN xls_vScrNum + sendBuf'.num ELSE xls_vScrNum
  BY <1>4 DEF Generate, ScreensWith
<1>6. xls_termNum \in Nat /\ xls_vScrNum \in Nat /\ tally \in Counts
  BY DEF TypeOK
<1>7. xls_termNum' \in Nat /\ xls_vScrNum' \in Nat
  BY <1>3, <1>5, <1>6
<1>8. TypeOK'
  <2>1. held' \subseteq {"cSocket", "tempBuf", "fp", "CPU_RAM_FILE"}
    BY <1>1 DEF TypeOK
  <2> QED
    BY <1>1, <1>3, <1>7, <2>1 DEF TypeOK
<1>9. PhaseInv' /\ HoldInv'
  BY <1>1, <1>2 DEF PhaseInv, HoldInv, InSession, Dead
<1>10. InHand = 1 /\ InHand' = 1
  BY <1>1 DEF InHand
<1>11. EveryRequestAccounted' /\ FifoInv'
  BY <1>1, <1>10 DEF EveryRequestAccounted, FifoInv
<1>12. HandInv'
  <2>1. SUFFICES ASSUME conn = "open" PROVE HandOK(asked[Len(answered) + 1])'
    BY <1>1 DEF HandInv
  <2> DEFINE r == asked[Len(answered) + 1]
  <2>2. HandOK(r)
    BY <1>10, <2>1 DEF HandInv
  <2>3. r \in Requests
    BY <1>10, <2>1, InHandAsked
  <2>4. sendBuf' \in AnswersTo(r)
    BY <1>1, <2>2, <2>3, PackageFits DEF HandOK
  <2> QED
    BY <1>1, <2>2, <2>4 DEF HandOK, Answerable, AnswersTo
<1>13. CountInv'
  <2>1. Expected = tally
    BY <1>1 DEF Expected
  <2>2. Expected' = CASE sendBuf'.type = "TERMINFO" ->
                           [tally EXCEPT !.termNum = sendBuf'.num]
                      [] sendBuf'.type \in SubTerm ->
                           [tally EXCEPT !.vScrNum = @ + sendBuf'.num]
                      [] OTHER -> tally
    BY <1>1 DEF Expected, Recorded
  <2>3. /\ xls_vScrNum >= tally.vScrNum
        /\ Len(asked) = Len(answered) + InHand + Len(toClient) =>
             xls_termNum = tally.termNum /\ xls_vScrNum = tally.vScrNum
    BY <1>2, <2>1 DEF CountInv
  <2>4. tally.vScrNum \in Nat /\ tally.termNum \in Nat
    BY <1>6 DEF Counts
  <2>5. /\ xls_vScrNum' >= tally.vScrNum
        /\ xls_vScrNum' >= Expected'.vScrNum
        /\ xls_termNum = tally.termNum => xls_termNum' = Expected'.termNum
        /\ xls_vScrNum = tally.vScrNum => xls_vScrNum' = Expected'.vScrNum
    <3>1. CASE sendBuf'.type = "TERMINFO"
      <4>1. Expected' = [tally EXCEPT !.termNum = sendBuf'.num]
        BY <2>2, <3>1 DEF SubTerm
      <4>2. Expected'.termNum = sendBuf'.num /\ Expected'.vScrNum = tally.vScrNum
        BY <1>6, <4>1 DEF Counts
      <4> QED
        BY <1>3, <1>4, <1>5, <2>3, <3>1, <4>2
    <3>2. CASE sendBuf'.type \in SubTerm
      <4>1. Expected' = [tally EXCEPT !.vScrNum = @ + sendBuf'.num]
        BY <2>2, <3>2 DEF SubTerm
      <4>2. /\ Expected'.vScrNum = tally.vScrNum + sendBuf'.num
            /\ Expected'.termNum = tally.termNum
        BY <1>6, <4>1 DEF Counts
      <4>3. sendBuf'.type # "TERMINFO"
        BY <3>2 DEF SubTerm
      <4> QED
        BY <1>3, <1>5, <1>6, <2>3, <2>4, <3>2, <4>2, <4>3
    <3>3. CASE sendBuf'.type \notin {"TERMINFO"} \cup SubTerm
      <4>1. Expected' = tally
        BY <2>2, <3>3
      <4> QED
        BY <1>5, <2>3, <3>3, <4>1
    <3> QED
      BY <3>1, <3>2, <3>3
  <2> QED
    BY <1>1, <1>10, <2>3, <2>5 DEF CountInv
<1>14. RowMatchesServer'
  BY <1>1, <1>2 DEF RowMatchesServer
<1> QED
  BY <1>8, <1>9, <1>11, <1>12, <1>13, <1>14

(* The server gets the package, and its tally what the client had counted. *)
LEMMA SendDeliveredIInv == IInv /\ SendDelivered => IInv'
<1> SUFFICES ASSUME IInv, SendDelivered PROVE IInv'
  OBVIOUS
<1> USE DEF IInv
<1>1. /\ pc = "send" /\ pc' = "recv" /\ conn = "open" /\ conn' = "open"
      /\ answered' = Append(answered, sendBuf) /\ sendBuf' = NoPackage
      /\ UNCHANGED <<quitAfterSucc, toClient, incoming, asked, cur, iden,
                     xls_termNum, xls_vScrNum, row, held, interval>>
  BY DEF SendDelivered, results
<1>2. InHand = 1 /\ InHand' = 0
  BY <1>1 DEF InHand
<1> DEFINE r == asked[Len(answered) + 1]
<1>3. r \in Requests /\ HandOK(r)
  BY <1>1, <1>2, InHandAsked DEF HandInv
<1>4. sendBuf \in Responses /\ sendBuf.num \in Nat
  <2>1. "none" \notin Handled \cup {"MINVERREQ"}
    BY DEF Handled
  <2>2. r.type \in Handled /\ sendBuf \in AnswersTo(r)
    BY <1>1, <1>3 DEF HandOK, Answerable
  <2>3. sendBuf.type \in {"MINVERREQ", r.type}
    BY <2>2 DEF AnswersTo
  <2>4. sendBuf # NoPackage
    BY <2>1, <2>2, <2>3 DEF NoPackage
  <2>5. sendBuf \in Responses
    BY <2>4 DEF TypeOK
  <2> QED
    BY <2>5 DEF Responses
<1>5. /\ answered' \in Seq(Responses)
      /\ Len(answered') = Len(answered) + 1
  BY <1>1, <1>4, AppendProperties DEF TypeOK
<1>6. tally' = Expected /\ tally' \in Counts
  <2>1. tally' = Expected
    BY <1>1 DEF SendDelivered, Expected
  <2>2. tally \in Counts
    BY DEF TypeOK
  <2>3. [tally EXCEPT !.termNum = sendBuf.num] \in Counts
    BY <1>4, <2>2 DEF Counts
  <2>4. tally.vScrNum + sendBuf.num \in Nat
    BY <1>4, <2>2 DEF Counts
  <2>5. [tally EXCEPT !.vScrNum = @ + sendBuf.num] \in Counts
    BY <2>2, <2>4 DEF Counts
  <2>6. CASE sendBuf.type = "TERMINFO"
    BY <1>1, <2>1, <2>3, <2>6 DEF Expected, Recorded, SubTerm
  <2>7. CASE sendBuf.type \in SubTerm
    BY <1>1, <2>1, <2>5, <2>7 DEF Expected, Recorded, SubTerm
  <2>8. CASE sendBuf.type \notin {"TERMINFO"} \cup SubTerm
    BY <1>1, <2>1, <2>2, <2>8 DEF Expected, Recorded
  <2> QED
    BY <2>1, <2>6, <2>7, <2>8
<1>7. TypeOK'
  BY <1>1, <1>5, <1>6 DEF TypeOK
<1>8. PhaseInv' /\ HoldInv'
  BY <1>1 DEF PhaseInv, HoldInv, InSession, Dead
<1>9. Len(asked) \in Nat /\ Len(answered) \in Nat /\ Len(toClient) \in Nat
  BY Lengths
<1>10. Len(asked) = Len(answered) + 1 + Len(toClient)
  BY <1>1, <1>2 DEF EveryRequestAccounted
<1>11. EveryRequestAccounted'
  BY <1>1, <1>2, <1>5, <1>9, <1>10 DEF EveryRequestAccounted
<1>12. FifoInv'
  <2> SUFFICES ASSUME NEW k \in 1 .. Len(toClient)
               PROVE  toClient[k] = asked[Len(answered') + 0 + k]
    BY <1>1, <1>2 DEF FifoInv
  <2>1. toClient[k] = asked[Len(answered) + 1 + k]
    BY <1>1, <1>2 DEF FifoInv
  <2>2. Len(answered') + 0 + k = Len(answered) + 1 + k
    BY <1>5, <1>9
  <2> QED
    BY <2>1, <2>2
<1>13. HandInv'
  BY <1>2 DEF HandInv
<1>14. CountInv'
  <2>1. Expected' = tally'
    BY <1>1 DEF Expected
  <2>2. /\ xls_termNum = Expected.termNum /\ xls_vScrNum = Expected.vScrNum
        /\ xls_vScrNum >= Expected.vScrNum
    BY <1>1, <1>2, <1>10 DEF CountInv
  <2> QED
    BY <1>1, <1>6, <2>1, <2>2 DEF CountInv
<1>15. RowMatchesServer'
  BY <1>1 DEF RowMatchesServer, PhaseInv
<1> QED
  BY <1>7, <1>8, <1>11, <1>12, <1>13, <1>14, <1>15

(* SIGPIPE in a send, and the error exit.                                  *)
LEMMA DiesIInv == IInv /\ (SendKilled \/ Abort) => IInv'
<1> SUFFICES ASSUME IInv, SendKilled \/ Abort PROVE IInv'
  OBVIOUS
<1>1. CASE SendKilled
  <2>1. InSession
    BY <1>1 DEF SendKilled, InSession
  <2> QED
    BY <1>1, <2>1, ProcessDies DEF SendKilled
<1>2. CASE Abort
  <2>1. InSession /\ sendBuf' = NoPackage
    BY <1>2 DEF Abort, InSession, session, IInv, PhaseInv
  <2> QED
    BY <1>2, <2>1, ProcessDies DEF Abort, session
<1> QED
  BY <1>1, <1>2

(* The row is what the server was told of, if the server was told all.     *)
LEMMA FinishIInv == IInv /\ Finish => IInv'
<1> SUFFICES ASSUME IInv, Finish PROVE IInv'
  OBVIOUS
<1> USE DEF IInv
<1> DEFINE told == [termNum |-> xls_termNum, vScrNum |-> xls_vScrNum]
<1>1. /\ pc = "ok" /\ pc' \in {"exitOK", "sleep"} /\ conn' = "none"
      /\ toClient' = <<>> /\ held' = held \ {"cSocket", "CPU_RAM_FILE"}
      /\ row' \in {NoRow, told} /\ interval' \in {"garbage", "reTransTime"}
      /\ UNCHANGED <<quitAfterSucc, incoming, asked, answered, tally, cur, iden,
                     sendBuf, xls_termNum, xls_vScrNum>>
  BY DEF Finish, session, HeldAfterOk
<1>2. /\ conn # "none" /\ held' = {} /\ sendBuf = NoPackage
  BY <1>1 DEF PhaseInv, InSession, HoldInv
<1>3. told \in Counts /\ tally \in Counts /\ <<>> \in Seq(Messages)
  BY EmptySeq DEF TypeOK, Counts
<1>4. TypeOK'
  BY <1>1, <1>2, <1>3 DEF TypeOK
<1>5. PhaseInv' /\ HoldInv'
  BY <1>1, <1>2 DEF PhaseInv, HoldInv, InSession, Dead
<1>6. EveryRequestAccounted' /\ FifoInv' /\ HandInv' /\ CountInv'
  BY <1>1 DEF EveryRequestAccounted, FifoInv, HandInv, CountInv
<1>7. RowMatchesServer'
  <2>1. Expected = tally /\ InHand = 0
    BY <1>1 DEF Expected, InHand
  <2>2. xls_vScrNum >= tally.vScrNum
    BY <1>2 DEF CountInv
  <2>3. Len(asked) >= Len(answered) + 0 + Len(toClient)
    BY <1>2, <2>1 DEF EveryRequestAccounted
  <2>4. Len(asked) \in Nat /\ Len(answered) \in Nat /\ Len(toClient) \in Nat
    BY Lengths
  <2>5. Len(answered) = Len(asked) =>
          Len(asked) = Len(answered) + 0 + Len(toClient)
    BY <2>3, <2>4
  <2>6. Len(answered) = Len(asked) =>
          xls_termNum = tally.termNum /\ xls_vScrNum = tally.vScrNum
    BY <1>2, <2>1, <2>5 DEF CountInv
  <2>7. Len(answered) = Len(asked) => told = tally
    BY <1>3, <2>6 DEF Counts
  <2>8. told.vScrNum = xls_vScrNum
    OBVIOUS
  <2> QED
    BY <1>1, <2>2, <2>7, <2>8 DEF RowMatchesServer
<1> QED
  BY <1>4, <1>5, <1>6, <1>7

(* Every step preserves the inductive invariant.                           *)
LEMMA NextIInv == IInv /\ [Next]_vars => IInv'
<1> SUFFICES ASSUME IInv, [Next]_vars PROVE IInv'
  OBVIOUS
<1>1. CASE Server
  BY <1>1, ServerAskIInv, ServerEndsIInv DEF Server
<1>2. CASE Connect
  BY <1>2, OutsideIInv
<1>3. CASE SendDelivered \/ Running
  BY <1>3, OutsideIInv, RecvHeaderIInv, ClosedIInv, RecvBodyIInv,
     CheckIdentifyIInv, GenerateIInv, DroppedIInv, SendDeliveredIInv, DiesIInv,
     FinishIInv
  DEF Running
<1>4. CASE UNCHANGED vars
  <2> USE <1>4 DEF vars, control, network, session, results
  <2>1. TypeOK' /\ PhaseInv' /\ HoldInv'
    BY DEF IInv, TypeOK, PhaseInv, HoldInv, InSession, Dead
  <2>2. EveryRequestAccounted' /\ FifoInv'
    BY DEF IInv, EveryRequestAccounted, FifoInv, InHand
  <2>3. HandInv' /\ CountInv' /\ RowMatchesServer'
    BY DEF IInv, HandInv, HandOK, InHand, CountInv, Expected, Recorded,
       RowMatchesServer
  <2> QED
    BY <2>1, <2>2, <2>3 DEF IInv
<1> QED
  BY <1>1, <1>2, <1>3, <1>4 DEF Next, Terminated

(* The inductive invariant of a simulated terminal.                        *)
THEOREM ClientIInv == Spec => []IInv
BY InitIInv, NextIInv, PTL DEF Spec

-----------------------------------------------------------------------------
(* Type correctness of the terminal and of its connection.                 *)
THEOREM ClientTypeOK == Spec => []TypeOK
<1>1. IInv => TypeOK
  BY DEF IInv
<1> QED
  BY <1>1, ClientIInv, PTL

(* While the connection is open no request is lost, skipped or answered    *)
(* twice (mClient.c:36-230), however many are sent ahead.                  *)
THEOREM ClientEveryRequestAccounted == Spec => []EveryRequestAccounted
<1>1. IInv => EveryRequestAccounted
  BY DEF IInv
<1> QED
  BY <1>1, ClientIInv, PTL

(* The row appended to ts_count.xls (mClient.c:234-247) does not tell      *)
(* fewer screens than the server was told of, and exactly the server's     *)
(* numbers when every request was answered.                                *)
THEOREM ClientRowMatchesServer == Spec => []RowMatchesServer
<1>1. IInv => RowMatchesServer
  BY DEF IInv
<1> QED
  BY <1>1, ClientIInv, PTL

(* A child that goes on, or exits with success, holds nothing that it      *)
(* should have given back (mClient.c:232-255).                             *)
THEOREM ClientNothingHeld == Spec => []NothingHeld
<1>1. IInv => NothingHeld
  BY DEF IInv, PhaseInv, HoldInv, NothingHeld
<1> QED
  BY <1>1, ClientIInv, PTL

-----------------------------------------------------------------------------
(* The client and the dialogue speak of the same messages.                 *)
LEMMA SameMessages ==
  /\ Requests = D!Requests
  /\ \A r \in Requests : /\ Answerable(r) <=> D!Answerable(r)
                         /\ AnswersTo(r) = D!AnswersTo(r)
<1>1. Requests = D!Requests
  BY DEF Requests, D!Requests, IDsOf, D!IDsOf, BodiesOf, D!BodiesOf, SubTerm,
     D!SubTerm, DEFAULT_ID, D!DEFAULT_ID
<1>2. \A r \in Requests : Answerable(r) <=> D!Answerable(r)
  BY DEF Answerable, D!Answerable, Handled, D!Handled
<1>3. \A r \in Requests : AnswersTo(r) = D!AnswersTo(r)
  BY DEF AnswersTo, D!AnswersTo, SubTerm, D!SubTerm, DEFAULT_ID, D!DEFAULT_ID
<1> QED
  BY <1>1, <1>2, <1>3

(* The steps of the client are steps of the dialogue, or change nothing    *)
(* that the server could see.                                              *)
LEMMA StepIsDialogue ==
  ASSUME IInv, [Next]_vars
  PROVE  D!Next \/ UNCHANGED D!vars
<1> USE DEF D!vars, IInv
<1>1. ASSUME conn' # "none" <=> conn # "none", asked' = asked,
             answered' = answered
      PROVE  UNCHANGED D!vars
  BY <1>1
<1>2. ASSUME conn # "none", conn' = "none", asked' = asked,
             answered' = answered
      PROVE  D!Next
  BY <1>2 DEF D!Next, D!HangUp
<1>3. ASSUME NEW r \in Requests, ServerAsk(r) \/ ServerDie(r)
      PROVE  D!Next
  <2>1. /\ conn = "open" /\ conn' \in {"open", "fin"}
        /\ asked' = Append(asked, r) /\ answered' = answered
    BY <1>3 DEF ServerAsk, ServerDie
  <2> QED
    BY <2>1, SameMessages DEF D!Next, D!Ask
<1>4. CASE ServerClose \/ ServerReset
  <2>1. /\ conn = "open" /\ conn' \in {"fin", "rst"}
        /\ asked' = asked /\ answered' = answered
    BY <1>4 DEF ServerClose, ServerReset
  <2> QED
    BY <1>1, <2>1
<1>5. CASE Connect
  <2>1. conn = "none" /\ conn' = "open" /\ asked' = <<>> /\ answered' = <<>>
    BY <1>5 DEF Connect, PhaseInv, InSession
  <2> QED
    BY <2>1 DEF D!Next, D!Open
<1>6. CASE \/ SocketOk \/ SocketFail \/ RecvHeader \/ RecvClosed \/ RecvBody
           \/ BodyClosed \/ Generate \/ GenFail \/ SendClosed \/ WakeUp
  <2>1. UNCHANGED <<conn, asked, answered>>
    BY <1>6 DEF SocketOk, SocketFail, RecvHeader, RecvClosed, RecvBody,
       BodyClosed, Generate, GenFail, SendClosed, WakeUp, network
  <2> QED
    BY <1>1, <2>1
<1>7. CASE CheckIdentify
  <2>1. /\ conn # "none" /\ conn' \in {conn, "none"}
        /\ asked' = asked /\ answered' = answered
    BY <1>7 DEF CheckIdentify, PhaseInv, InSession
  <2> QED
    BY <1>1, <1>2, <2>1
<1>8. CASE SendLost
  <2>1. conn # "none" /\ conn' # "none" /\ asked' = asked /\ answered' = answered
    BY <1>8 DEF SendLost
  <2> QED
    BY <1>1, <2>1
<1>9. CASE SendKilled \/ Finish \/ Abort
  <2>1. conn # "none" /\ conn' = "none" /\ asked' = asked /\ answered' = answered
    BY <1>9 DEF SendKilled, Finish, Abort, PhaseInv, InSession
  <2> QED
    BY <1>2, <2>1
<1>10. CASE SendDelivered
  <2>1. /\ conn = "open" /\ conn' = "open" /\ pc = "send"
        /\ asked' = asked /\ answered' = Append(answered, sendBuf)
    BY <1>10 DEF SendDelivered
  <2>2. InHand = 1
    BY <2>1 DEF InHand
  <2> DEFINE r == asked[Len(answered) + 1]
  <2>3. Len(answered) < Len(asked) /\ HandOK(r)
    BY <2>1, <2>2, InHandAsked DEF HandInv
  <2>4. Answerable(r) /\ sendBuf \in AnswersTo(r)
    BY <2>1, <2>3 DEF HandOK
  <2>5. D!Answerable(r) /\ sendBuf \in D!AnswersTo(r)
    BY <2>1, <2>2, <2>4, InHandAsked, SameMessages
  <2>6. D!Answer
    BY <2>1, <2>3, <2>5 DEF D!Answer
  <2> QED
    BY <2>6 DEF D!Next
<1>11. CASE UNCHANGED vars
  BY <1>1, <1>11 DEF vars, network
<1> QED
  BY <1>3, <1>4, <1>5, <1>6, <1>7, <1>8, <1>9, <1>10, <1>11
  DEF Next, Server, Running, Terminated

(* Whatever the server and the network do, a terminal keeps the dialogue:  *)
(* its answers come in the order of the requests, each one fits, and       *)
(* nothing is answered that must not be.                                   *)
THEOREM ClientImplementsDialogue == Spec => ImplementsDialogue
<1>1. Init => D!Init
  BY DEF Init, D!Init
<1>2. IInv /\ [Next]_vars => [D!Next]_(D!vars)
  BY StepIsDialogue
<1> QED
  BY <1>1, <1>2, ClientIInv, PTL DEF Spec, ImplementsDialogue, D!Spec
=============================================================================
