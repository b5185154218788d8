------------------------------- MODULE Stream -------------------------------
(***************************************************************************)
(* One session of ClientSimulate at the level of bytes: RecvN and SendN    *)
(* loop over read() and write(), which may take any part of what is asked  *)
(* of them, while the server sends ahead, answers arrive, and the          *)
(* connection is cut at any byte. A byte is its message and its place in   *)
(* it; what the fields of a header say is known once its bytes are there.  *)
(***************************************************************************)
EXTENDS Naturals, Sequences, FiniteSets

CONSTANTS
  HEADER_LEN,   \* 8
  IDEN_LEN,     \* sizeof(struct SC_Identify), 52
  Swapped,      \* its bytes that IdenN2H converts
  AnswerLens,   \* the lengths of the packages of the Gen functions
  MaxMsgs       \* bound: the requests of the session

ASSUME StreamAssumption ==
  /\ HEADER_LEN \in Nat \ {0}
  /\ IDEN_LEN \in Nat
  /\ Swapped \subseteq 1 .. IDEN_LEN
  /\ AnswerLens \subseteq Nat \ {0}
  /\ MaxMsgs \in Nat

VARIABLES
  pc,         \* where the client is in its loop
  open,       \* the server has not ended the connection
  sent,       \* history: the requests of the server
  pipe,       \* the bytes on their way to the client
  have,       \* haveRecvd of RecvN, haveSend of SendN
  headerBuf,
  cur,        \* recvHeader
  iden,       \* sc_iden
  host,       \* its bytes that are in host order
  received,   \* history: the requests the client has read to their end
  packages,   \* history: sendBuf.len of each package
  back        \* the bytes the server has got from the client

server == <<open, sent>>
client == <<headerBuf, cur, iden, host, received>>
answers == <<packages, back>>
vars == <<pc, server, pipe, have, client, answers>>

(* Requests carry no data (struct SC_Request), but for an IDENTIFY, whose  *)
(* data may be shorter than the struct it is read into.                    *)
Requests ==
  [iden : {TRUE}, dataLen : 0 .. IDEN_LEN] \cup [iden : {FALSE}, dataLen : {0}]

Byte(m, k) == [msg |-> m, pos |-> k]
Bytes == [msg : Nat, pos : Nat]
NoByte == Byte(0, 0)

TypeOK ==
  /\ pc \in {"header", "body", "gen", "send", "end"}
  /\ open \in BOOLEAN
  /\ sent \in Seq(Requests)
  /\ pipe \in Seq(Bytes)
  /\ have \in Nat
  /\ headerBuf \in [1 .. HEADER_LEN -> Bytes]
  /\ cur \in Requests
  /\ iden \in [1 .. IDEN_LEN -> Bytes]
  /\ host \subseteq Swapped
  /\ received \in Seq(Requests)
  /\ packages \in Seq(AnswerLens)
  /\ back \in Seq(Bytes)

Init ==
  /\ pc = "header"
  /\ open = TRUE
  /\ sent = <<>>
  /\ pipe = <<>>
  /\ have = 0
  /\ headerBuf = [k \in 1 .. HEADER_LEN |-> NoByte]
  /\ cur = [iden |-> FALSE, dataLen |-> 0]
  /\ iden = [k \in 1 .. IDEN_LEN |-> NoByte]
  /\ host = {}
  /\ received = <<>>
  /\ packages = <<>>
  /\ back = <<>>

-----------------------------------------------------------------------------
(* The server. *)

SizeOf(r) == HEADER_LEN + r.dataLen

ServerSend(r) ==
  /\ open
  /\ Len(sent) < MaxMsgs
  /\ sent' = Append(sent, r)
  /\ pipe' = pipe \o [k \in 1 .. SizeOf(r) |-> Byte(Len(sent) + 1, k)]
  /\ UNCHANGED <<pc, open, have, client, answers>>

(* A close leaves what was sent; a reset, or the death of the server in    *)
(* the middle of a message, cuts it off at any byte.                       *)
ServerEnd ==
  /\ open
  /\ open' = FALSE
  /\ \E n \in 0 .. Len(pipe) : pipe' = SubSeq(pipe, 1, n)
  /\ UNCHANGED <<pc, sent, have, client, answers>>

-----------------------------------------------------------------------------
(* RecvN *)

(* Mutated form; no specification uses it: the loop goes on at num bytes.  *)
WantedOneMore == IF pc = "header" THEN HEADER_LEN + 1 ELSE cur.dataLen + 1

(* The num of the call the client is in. *)
Wanted == IF pc = "header" THEN HEADER_LEN ELSE cur.dataLen

(* Mutated form; no specification uses it: read() into buf, not buf +      *)
(* haveRecvd.                                                              *)
StoredAtStart(array, n) ==
  [k \in DOMAIN array |-> IF k \in 1 .. n THEN pipe[k] ELSE array[k]]

(* One read() puts n bytes at haveRecvd. *)
Stored(array, n) ==
  [k \in DOMAIN array |->
     IF k \in have + 1 .. have + n THEN pipe[k - have] ELSE array[k]]

Read(n) ==
  /\ n \in 1 .. Len(pipe)
  /\ have + n <= Wanted
  /\ pipe' = SubSeq(pipe, n + 1, Len(pipe))
  /\ have' = have + n
  /\ UNCHANGED <<pc, server, cur, received, answers>>

ReadHeader ==
  /\ pc = "header"
  /\ \E n \in 1 .. HEADER_LEN : Read(n) /\ headerBuf' = Stored(headerBuf, n)
  /\ UNCHANGED <<iden, host>>

(* RecvN reads straight into sc_iden, in network order.                    *)
ReadBody ==
  /\ pc = "body"
  /\ \E n \in 1 .. IDEN_LEN :
       /\ Read(n)
       /\ iden' = Stored(iden, n)
       /\ host' = host \ (have + 1 .. have + n)
  /\ UNCHANGED headerBuf

(* read() returns 0 or an error: SERVER_CLOSED, whatever was read so far.  *)
ReadClosed ==
  /\ pc \in {"header", "body"}
  /\ have < Wanted
  /\ pipe = <<>>
  /\ ~open
  /\ pc' = "end"
  /\ UNCHANGED <<server, pipe, have, client, answers>>

-----------------------------------------------------------------------------
(* ClientSimulate *)

(* What the fields of headerBuf say: those of a request when the bytes are *)
(* the header of it, and anything when they are not.                       *)
Decoded ==
  LET whole == {m \in DOMAIN sent :
                  \A k \in 1 .. HEADER_LEN : headerBuf[k] = Byte(m, k)}
  IN  IF whole = {} THEN Requests ELSE {sent[m] : m \in whole}

HeaderRead ==
  /\ pc = "header"
  /\ have = Wanted
  /\ cur' \in Decoded
  /\ have' = 0
  /\ IF cur'.iden
       THEN pc' = "body" /\ UNCHANGED received
       ELSE pc' = "gen" /\ received' = Append(received, cur')
  /\ UNCHANGED <<server, pipe, headerBuf, iden, host, answers>>

(* IdenN2H: the fields change their order, whatever it was. *)
Converted(places) == Swapped \ places

(* Mutated form; no specification uses it: RecvN returns on a read() that  *)
(* got less than num.                                                      *)
BodyReadShort ==
  /\ pc = "body"
  /\ have > 0 \/ cur.dataLen = 0
  /\ received' = Append(received, cur)
  /\ host' = Converted(host)
  /\ have' = 0
  /\ pc' = "gen"
  /\ UNCHANGED <<server, pipe, headerBuf, cur, iden, answers>>

BodyRead ==
  /\ pc = "body"
  /\ have = Wanted
  /\ received' = Append(received, cur)
  /\ host' = Converted(host)
  /\ have' = 0
  /\ pc' = "gen"
  /\ UNCHANGED <<server, pipe, headerBuf, cur, iden, answers>>

(* A Gen function makes a package. *)
Generate ==
  /\ pc = "gen"
  /\ \E n \in AnswerLens : packages' = Append(packages, n)
  /\ pc' = "send"
  /\ UNCHANGED <<server, pipe, have, client, back>>

(* The request is refused, or no package can be made: the session ends,    *)
(* and close() throws away what the client has not read.                   *)
GiveUp ==
  /\ pc = "gen"
  /\ pc' = "end"
  /\ UNCHANGED <<server, pipe, have, client, answers>>

-----------------------------------------------------------------------------
(* SendN *)

sendLen == packages[Len(packages)]

(* Mutated form; no specification uses it: write() from buf, not buf +     *)
(* haveSend.                                                               *)
WrittenFromStart(n) == [k \in 1 .. n |-> Byte(Len(packages), k)]

(* The n bytes from haveSend on.                                           *)
Written(n) == [k \in 1 .. n |-> Byte(Len(packages), have + k)]

Write ==
  /\ pc = "send"
  /\ \E n \in 1 .. sendLen - have :
       /\ have' = have + n
       /\ back' = IF open THEN back \o Written(n) ELSE back
  /\ UNCHANGED <<pc, server, pipe, client, packages>>

(* write() fails once the client's kernel knows of the end: SendN returns  *)
(* SERVER_CLOSED, or SIGPIPE ends the process (Client!SendKilled).         *)
WriteClosed ==
  /\ pc = "send"
  /\ have < sendLen
  /\ ~open
  /\ pc' = "end"
  /\ UNCHANGED <<server, pipe, have, client, answers>>

SendDone ==
  /\ pc = "send"
  /\ have = sendLen
  /\ have' = 0
  /\ pc' = "header"
  /\ UNCHANGED <<server, pipe, client, answers>>

-----------------------------------------------------------------------------
Client ==
  \/ ReadHeader \/ HeaderRead \/ ReadBody \/ BodyRead \/ ReadClosed
  \/ Generate \/ GiveUp
  \/ Write \/ WriteClosed \/ SendDone

Terminated == pc = "end" /\ UNCHANGED vars

Next ==
  \/ \E r \in Requests : ServerSend(r)
  \/ ServerEnd \/ Client \/ Terminated

Spec == Init /\ [][Next]_vars

(* The scheduler runs the client; a connection that is up delivers.        *)
FairSpec == Spec /\ WF_vars(Client)

-----------------------------------------------------------------------------
(* Properties *)

(* However read() cuts the stream (mSocket.c:45-57), the client parses the *)
(* requests of the server, whole, in order, none twice: what Client.tla    *)
(* takes for one step per message.                                         *)
Ch == INSTANCE Channel WITH up <- open
ImplementsChannel == Ch!Spec

(* However write() cuts the packages (mSocket.c:65-77), the server gets    *)
(* their bytes in order without a gap, and has every package to its end    *)
(* when the client goes back to read.                                      *)
After(b) ==
  IF b.msg > 0 /\ b.pos < packages[b.msg] THEN Byte(b.msg, b.pos + 1)
                                          ELSE Byte(b.msg + 1, 1)

PackagesWhole ==
  /\ \A j \in DOMAIN back :
       back[j] = After(IF j = 1 THEN NoByte ELSE back[j - 1])
  /\ open /\ pc \in {"header", "body", "gen"} =>
       IF packages = <<>> THEN back = <<>>
         ELSE back # <<>> /\ back[Len(back)] = Byte(Len(packages), sendLen)

(* After a body was read (mClient.c:53-59) each byte of sc_iden is that of *)
(* the latest IDENTIFY long enough to have it - of this one, only if it is *)
(* as long as the struct - and it is in host order only if an odd number   *)
(* of IDENTIFYs was converted since: IdenN2H turns stale fields back.      *)
Bodies == {n \in DOMAIN received : received[n].iden}

Latest(k) ==
  LET withByte == {n \in Bodies : received[n].dataLen >= k}
  IN  IF withByte = {} THEN iden[k] = NoByte
      ELSE \E m \in withByte :
             /\ \A n \in withByte : n <= m
             /\ iden[k] = Byte(m, HEADER_LEN + k)
             /\ k \in Swapped =>
                  (k \in host <=> Cardinality({n \in Bodies : n >= m}) % 2 = 1)

IdenIsLatest ==
  pc \in {"header", "gen", "send"} => \A k \in 1 .. IDEN_LEN : Latest(k)

(* Under FairSpec: a request sent on a connection that stays up reaches    *)
(* the client, or the client has ended the session.                        *)
EverythingArrives ==
  \A n \in 1 .. MaxMsgs :
    Len(sent) >= n ~> (Len(received) >= n \/ ~open \/ pc = "end")
=============================================================================
