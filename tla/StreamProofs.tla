----------------------------- MODULE StreamProofs -----------------------------
(***************************************************************************)
(* RecvN makes a channel of whole messages out of the bytes of a           *)
(* connection, for messages of any number and length and a read() of any   *)
(* part of them; and SendN brings over whole packages.                     *)
(***************************************************************************)
EXTENDS Stream, SequenceTheorems, FiniteSetTheorems, TLAPS

LEMMA RequestFacts ==
  ASSUME NEW r \in Requests
  PROVE  /\ r.iden \in BOOLEAN
         /\ r.dataLen \in 0 .. IDEN_LEN
         /\ SizeOf(r) \in Nat
         /\ SizeOf(r) >= HEADER_LEN
         /\ ~r.iden => r.dataLen = 0
<1>1. \/ r.iden = TRUE /\ r.dataLen \in 0 .. IDEN_LEN
      \/ r.iden = FALSE /\ r.dataLen = 0
  BY DEF Requests
<1>2. r.iden \in BOOLEAN /\ (~r.iden => r.dataLen = 0)
  BY <1>1, Zenon
<1>3. r.dataLen \in 0 .. IDEN_LEN
  BY <1>1, StreamAssumption
<1> QED  BY <1>2, <1>3, StreamAssumption DEF SizeOf

(* ConcatProperties, the two parts one by one. *)
LEMMA ConcatParts ==
  ASSUME NEW S, NEW s \in Seq(S), NEW t \in Seq(S)
  PROVE  /\ s \o t \in Seq(S)
         /\ Len(s \o t) = Len(s) + Len(t)
         /\ \A j \in 1 .. Len(s) : (s \o t)[j] = s[j]
         /\ \A j \in 1 .. Len(t) : (s \o t)[Len(s) + j] = t[j]
<1>1. Len(s) \in Nat /\ Len(t) \in Nat
  OBVIOUS
<1>2. \A j \in 1 .. Len(s) + Len(t) :
        (s \o t)[j] = IF j <= Len(s) THEN s[j] ELSE t[j - Len(s)]
  BY ConcatProperties
<1>3. \A j \in 1 .. Len(s) : (s \o t)[j] = s[j]
  BY <1>1, <1>2
<1>4. ASSUME NEW j \in 1 .. Len(t)  PROVE (s \o t)[Len(s) + j] = t[j]
  <2>1. Len(s) + j \in 1 .. Len(s) + Len(t) /\ ~(Len(s) + j <= Len(s))
    BY <1>1
  <2>2. (Len(s) + j) - Len(s) = j
    BY <1>1
  <2> QED  BY <1>2, <2>1, <2>2
<1> QED  BY <1>3, <1>4, ConcatProperties

-----------------------------------------------------------------------------
LEMMA TypeInit == Init => TypeOK
BY StreamAssumption
DEF Init, TypeOK, Requests, Byte, Bytes, NoByte

(* What a read() of n bytes leaves. *)
LEMMA StoredType ==
  ASSUME TypeOK, NEW L \in Nat, NEW array \in [1 .. L -> Bytes],
         NEW n \in 1 .. Len(pipe)
  PROVE  Stored(array, n) \in [1 .. L -> Bytes]
<1>1. \A k \in have + 1 .. have + n : k \in Nat => pipe[k - have] \in Bytes
  BY DEF TypeOK
<1> QED  BY <1>1 DEF Stored

LEMMA PipeRest ==
  ASSUME TypeOK, NEW n \in 1 .. Len(pipe)
  PROVE  /\ SubSeq(pipe, n + 1, Len(pipe)) \in Seq(Bytes)
         /\ Len(SubSeq(pipe, n + 1, Len(pipe))) = Len(pipe) - n
         /\ \A j \in 1 .. Len(pipe) - n :
              SubSeq(pipe, n + 1, Len(pipe))[j] = pipe[n + j]
<1>1. pipe \in Seq(Bytes) /\ Len(pipe) \in Nat
  BY DEF TypeOK
<1>2. CASE n = Len(pipe)
  BY <1>1, <1>2
<1>3. CASE n < Len(pipe)
  BY <1>1, <1>3, SubSeqProperties
<1> QED  BY <1>1, <1>2, <1>3

LEMMA PipeCut ==
  ASSUME TypeOK, NEW n \in 0 .. Len(pipe)
  PROVE  /\ SubSeq(pipe, 1, n) \in Seq(Bytes)
         /\ Len(SubSeq(pipe, 1, n)) = n
         /\ \A j \in 1 .. n : SubSeq(pipe, 1, n)[j] = pipe[j]
<1>1. pipe \in Seq(Bytes) /\ Len(pipe) \in Nat
  BY DEF TypeOK
<1> QED  BY <1>1, SubSeqProperties

LEMMA PipeMore ==
  ASSUME TypeOK, NEW m \in Nat, NEW size \in Nat
  PROVE  LET more == pipe \o [k \in 1 .. size |-> Byte(m, k)]
         IN  /\ more \in Seq(Bytes)
             /\ Len(more) = Len(pipe) + size
             /\ \A j \in 1 .. Len(pipe) : more[j] = pipe[j]
             /\ \A j \in 1 .. size : more[Len(pipe) + j] = Byte(m, j)
<1> DEFINE new == [k \in 1 .. size |-> Byte(m, k)]
<1>1. pipe \in Seq(Bytes) /\ new \in Seq(Bytes) /\ Len(new) = size
  BY DEF TypeOK, Byte, Bytes
<1>2. \A j \in 1 .. size : new[j] = Byte(m, j)
  OBVIOUS
<1> HIDE DEF new
<1>3. /\ pipe \o new \in Seq(Bytes)
      /\ Len(pipe \o new) = Len(pipe) + Len(new)
      /\ \A j \in 1 .. Len(pipe) : (pipe \o new)[j] = pipe[j]
      /\ \A j \in 1 .. Len(new) : (pipe \o new)[Len(pipe) + j] = new[j]
  <2>1. pipe \o new \in Seq(Bytes)
    BY <1>1, ConcatParts
  <2>2. Len(pipe \o new) = Len(pipe) + Len(new)
    BY <1>1, ConcatParts
  <2>3. \A j \in 1 .. Len(pipe) : (pipe \o new)[j] = pipe[j]
    BY <1>1, ConcatParts
  <2>4. \A j \in 1 .. Len(new) : (pipe \o new)[Len(pipe) + j] = new[j]
    BY <1>1, ConcatParts
  <2> QED  BY <2>1, <2>2, <2>3, <2>4
<1>4. /\ Len(pipe \o new) = Len(pipe) + size
      /\ \A j \in 1 .. size : (pipe \o new)[Len(pipe) + j] = Byte(m, j)
  BY <1>1, <1>2, <1>3
<1> QED  BY <1>3, <1>4 DEF new

LEMMA TypeNext == TypeOK /\ [Next]_vars => TypeOK'
<1> SUFFICES ASSUME TypeOK, [Next]_vars  PROVE TypeOK'
  OBVIOUS
<1> USE DEF server, client, answers
<1>1. ASSUME NEW r \in Requests, ServerSend(r)  PROVE TypeOK'
  <2>1. /\ Len(sent) + 1 \in Nat
        /\ SizeOf(r) \in Nat
    BY <1>1, RequestFacts DEF TypeOK
  <2>2. pipe' \in Seq(Bytes)
    BY <1>1, <2>1, PipeMore DEF ServerSend
  <2> QED  BY <1>1, <2>2 DEF ServerSend, TypeOK
<1>2. CASE ServerEnd
  <2>1. pipe' \in Seq(Bytes)
    BY <1>2, PipeCut DEF ServerEnd
  <2> QED  BY <1>2, <2>1 DEF ServerEnd, TypeOK
<1>3. ASSUME NEW n \in Nat, Read(n)
      PROVE  /\ n \in 1 .. Len(pipe)
             /\ pipe' \in Seq(Bytes)
             /\ have' \in Nat
             /\ UNCHANGED <<pc, open, sent, cur, received, packages, back>>
  BY <1>3, PipeRest DEF Read, TypeOK
<1>4. CASE ReadHeader
  <2>1. PICK n \in 1 .. HEADER_LEN : Read(n) /\ headerBuf' = Stored(headerBuf, n)
    BY <1>4 DEF ReadHeader
  <2> n \in Nat
    BY StreamAssumption
  <2>2. headerBuf' \in [1 .. HEADER_LEN -> Bytes]
    BY <1>3, <2>1, StoredType, StreamAssumption DEF TypeOK
  <2> QED  BY <1>3, <1>4, <2>1, <2>2 DEF ReadHeader, TypeOK
<1>5. CASE ReadBody
  <2>1. PICK n \in 1 .. IDEN_LEN :
          Read(n) /\ iden' = Stored(iden, n) /\ host' = host \ (have + 1 .. have + n)
    BY <1>5 DEF ReadBody
  <2> n \in Nat
    BY StreamAssumption
  <2>2. iden' \in [1 .. IDEN_LEN -> Bytes] /\ host' \subseteq Swapped
    BY <1>3, <2>1, StoredType, StreamAssumption DEF TypeOK
  <2> QED  BY <1>3, <1>5, <2>1, <2>2 DEF ReadBody, TypeOK
<1>6. CASE HeaderRead
  <2>1. Decoded \subseteq Requests
    BY DEF Decoded, TypeOK
  <2>2. cur' \in Requests
    BY <1>6, <2>1 DEF HeaderRead
  <2>3. received' = received \/ received' = Append(received, cur')
    BY <1>6 DEF HeaderRead
  <2>4. received \in Seq(Requests)
    BY DEF TypeOK
  <2>5. received' \in Seq(Requests)
    BY <2>2, <2>3, <2>4, AppendProperties
  <2> QED  BY <1>6, <2>2, <2>5 DEF HeaderRead, TypeOK
<1>7. CASE BodyRead
  <2>1. received' \in Seq(Requests)
    BY <1>7, AppendProperties DEF BodyRead, TypeOK
  <2> QED  BY <1>7, <2>1 DEF BodyRead, Converted, TypeOK
<1>8. CASE Generate
  <2>1. packages' \in Seq(AnswerLens)
    BY <1>8, AppendProperties DEF Generate, TypeOK
  <2> QED  BY <1>8, <2>1 DEF Generate, TypeOK
<1>9. CASE Write
  <2>1. PICK n \in 1 .. sendLen - have :
          /\ have' = have + n
          /\ back' = IF open THEN back \o Written(n) ELSE back
    BY <1>9 DEF Write
  <2>2. Written(n) \in Seq(Bytes) /\ n \in Nat
    <3>1. n \in Nat /\ have \in Nat /\ Len(packages) \in Nat
      BY DEF TypeOK
    <3> QED  BY <3>1 DEF Written, Byte, Bytes
  <2>3. back' \in Seq(Bytes)
    BY <2>1, <2>2, ConcatParts DEF TypeOK
  <2> QED  BY <1>9, <2>1, <2>2, <2>3 DEF Write, TypeOK
<1>10. CASE ReadClosed \/ GiveUp \/ WriteClosed \/ SendDone
  BY <1>10 DEF ReadClosed, GiveUp, WriteClosed, SendDone, TypeOK
<1>11. CASE UNCHANGED vars
  BY <1>11 DEF vars, TypeOK
<1> QED
  BY <1>1, <1>2, <1>4, <1>5, <1>6, <1>7, <1>8, <1>9, <1>10, <1>11
  DEF Next, Client, Terminated

THEOREM StreamTypeOK == Spec => []TypeOK
BY TypeInit, TypeNext, PTL DEF Spec

-----------------------------------------------------------------------------
(* The stream. A byte is followed by the next one of its message, or by    *)
(* the first one of the next message. What the client has got last stands  *)
(* before the first byte of the pipe.                                      *)
SizeIn(requests, m) == IF m = 0 THEN 0 ELSE SizeOf(requests[m])

Size(m) == SizeIn(sent, m)

Consumed ==
  IF pc = "body" THEN Byte(Len(received) + 1, HEADER_LEN + have)
  ELSE IF pc = "header" /\ have > 0 THEN Byte(Len(received) + 1, have)
  ELSE Byte(Len(received), Size(Len(received)))

At(j) == IF j = 0 THEN Consumed ELSE pipe[j]

(* The second conjunct says it for any distance: without induction over    *)
(* the pipe a read() of many bytes needs it so.                            *)
InOrder ==
  /\ \A j \in 0 .. Len(pipe) :
       At(j).msg \in 0 .. Len(sent) /\ At(j).pos \in 0 .. Size(At(j).msg)
  /\ \A j, k \in 0 .. Len(pipe) :
       j <= k /\ At(j).pos + (k - j) <= Size(At(j).msg) =>
         At(k) = Byte(At(j).msg, At(j).pos + (k - j))
  /\ \A j \in 0 .. Len(pipe) - 1 :
       At(j).pos = Size(At(j).msg) => At(j + 1) = Byte(At(j).msg + 1, 1)
  /\ open => At(Len(pipe)) = Byte(Len(sent), Size(Len(sent)))

Prefix ==
  /\ Len(received) <= Len(sent)
  /\ \A n \in 1 .. Len(received) : received[n] = sent[n]

(* What RecvN has got so far of the message it is at. *)
Partial ==
  /\ pc = "header" =>
       /\ have <= HEADER_LEN
       /\ \A k \in 1 .. have : headerBuf[k] = Byte(Len(received) + 1, k)
  /\ pc = "body" =>
       /\ Len(received) < Len(sent)
       /\ cur = sent[Len(received) + 1]
       /\ cur.iden
       /\ have <= cur.dataLen
  /\ pc = "gen" => have = 0

RecvInv == Prefix /\ (pc # "end" => InOrder /\ Partial)

LEMMA SizeFacts ==
  ASSUME TypeOK, NEW m \in 0 .. Len(sent)
  PROVE  /\ Size(m) \in Nat
         /\ m > 0 => Size(m) = HEADER_LEN + sent[m].dataLen /\ Size(m) >= HEADER_LEN
<1>1. CASE m = 0
  BY <1>1 DEF Size, SizeIn
<1>2. CASE m > 0
  <2>1. sent[m] \in Requests
    BY <1>2 DEF TypeOK
  <2> QED  BY <1>2, <2>1, RequestFacts DEF Size, SizeIn, SizeOf
<1> QED  BY <1>1, <1>2

LEMMA Onwards ==
  ASSUME InOrder, NEW m, NEW p, NEW j \in 0 .. Len(pipe), NEW k \in 0 .. Len(pipe),
         At(j) = Byte(m, p), j <= k, p + (k - j) <= Size(m)
  PROVE  At(k) = Byte(m, p + (k - j))
<1>1. At(j).msg = m /\ At(j).pos = p
  BY DEF Byte
<1>2. j <= k /\ At(j).pos + (k - j) <= Size(At(j).msg) =>
        At(k) = Byte(At(j).msg, At(j).pos + (k - j))
  BY DEF InOrder
<1> QED  BY <1>1, <1>2

(* The bytes RecvN waits for are the next ones of its message.             *)
LEMMA Ahead ==
  ASSUME TypeOK, RecvInv, pc \in {"header", "body"},
         NEW k \in 1 .. Len(pipe), have + k <= Wanted
  PROVE  /\ pipe[k] = Byte(Len(received) + 1,
                           (IF pc = "body" THEN HEADER_LEN ELSE 0) + have + k)
         /\ Len(received) < Len(sent)
<1> DEFINE next == Len(received) + 1
<1>1. /\ InOrder /\ Partial /\ Len(received) <= Len(sent)
      /\ have \in Nat /\ HEADER_LEN \in Nat \ {0}
      /\ Len(received) \in Nat /\ Len(sent) \in Nat /\ Len(pipe) \in Nat
      /\ k \in Nat
  BY StreamAssumption DEF RecvInv, Prefix, TypeOK
<1>2. /\ Byte(1, 2).msg = 1
      /\ \A m, p : Byte(m, p).msg = m /\ Byte(m, p).pos = p
  BY DEF Byte
<1>3. CASE pc = "header" /\ have = 0
  <2>1. At(0) = Byte(Len(received), Size(Len(received)))
    BY <1>3 DEF At, Consumed
  <2>2. At(1) = Byte(next, 1)
    BY <1>1, <1>2, <2>1 DEF InOrder
  <2>3. next \in 0 .. Len(sent)
    BY <1>1, <1>2, <2>2 DEF InOrder
  <2>4. k <= Size(next)
    BY <1>1, <1>3, <2>3, SizeFacts DEF Wanted
  <2>5. At(k) = Byte(next, 1 + (k - 1))
    BY <1>1, <2>2, <2>4, Onwards
  <2>6. At(k) = pipe[k] /\ 1 + (k - 1) = 0 + have + k /\ Len(received) < Len(sent)
    BY <1>1, <1>3, <2>3 DEF At
  <2> QED  BY <1>3, <2>5, <2>6
<1>4. CASE pc = "header" /\ have > 0
  <2>1. At(0) = Byte(next, have)
    BY <1>4 DEF At, Consumed
  <2>2. next \in 0 .. Len(sent)
    BY <1>1, <1>2, <2>1 DEF InOrder
  <2>3. have + k <= Size(next)
    BY <1>1, <1>4, <2>2, SizeFacts DEF Wanted
  <2>4. At(k) = Byte(next, have + (k - 0))
    <3>1. 0 \in 0 .. Len(pipe) /\ k \in 0 .. Len(pipe) /\ 0 <= k /\ k - 0 = k
      BY <1>1
    <3>2. InOrder
      BY <1>1
    <3> HIDE DEF next
    <3> QED  BY <2>1, <2>3, <3>1, <3>2, Onwards
  <2>5. /\ At(k) = pipe[k] /\ have + (k - 0) = 0 + have + k
        /\ Len(received) < Len(sent)
    BY <1>1, <2>2 DEF At
  <2> QED  BY <1>4, <2>4, <2>5
<1>5. CASE pc = "body"
  <2>1. At(0) = Byte(next, HEADER_LEN + have)
    BY <1>5 DEF At, Consumed
  <2>2. next \in 1 .. Len(sent) /\ cur = sent[next]
    BY <1>1, <1>5 DEF Partial
  <2>3. cur.dataLen \in Nat
    BY StreamAssumption, RequestFacts DEF TypeOK
  <2>4. HEADER_LEN + have + k <= Size(next)
    BY <1>1, <1>5, <2>2, <2>3, SizeFacts DEF Wanted
  <2>5. At(k) = Byte(next, HEADER_LEN + have + (k - 0))
    BY <1>1, <2>1, <2>4, Onwards
  <2>6. /\ At(k) = pipe[k] /\ HEADER_LEN + have + (k - 0) = HEADER_LEN + have + k
        /\ Len(received) < Len(sent)
    BY <1>1, <2>2 DEF At
  <2> QED  BY <1>5, <2>5, <2>6
<1> QED  BY <1>1, <1>3, <1>4, <1>5

(* Reading moves the front of the pipe; nothing else of the stream.        *)
LEMMA Shifted ==
  ASSUME TypeOK, InOrder, NEW n \in 0 .. Len(pipe), UNCHANGED <<sent, open>>,
         Len(pipe') = Len(pipe) - n,
         \A j \in 1 .. Len(pipe') : pipe'[j] = pipe[j + n],
         Consumed' = At(n)
  PROVE  InOrder'
<1>1. /\ Len(pipe) \in Nat /\ n \in Nat /\ Len(pipe') \in Nat
      /\ Len(pipe') + n = Len(pipe)
  BY DEF TypeOK
<1>2. \A j \in 0 .. Len(pipe') : At(j)' = At(j + n) /\ j + n \in 0 .. Len(pipe)
  BY <1>1 DEF At
<1>3. \A m : Size(m) = SizeIn(sent, m)
  BY DEF Size
<1>4. \A j \in 0 .. Len(pipe') :
        At(j)'.msg \in 0 .. Len(sent)' /\ At(j)'.pos \in 0 .. SizeIn(sent, At(j)'.msg)
  BY <1>2, <1>3 DEF InOrder
<1>5. ASSUME NEW j \in 0 .. Len(pipe'), NEW k \in 0 .. Len(pipe'),
             j <= k, At(j)'.pos + (k - j) <= SizeIn(sent, At(j)'.msg)
      PROVE  At(k)' = Byte(At(j)'.msg, At(j)'.pos + (k - j))
  <2>1. /\ j + n \in 0 .. Len(pipe) /\ k + n \in 0 .. Len(pipe)
        /\ j + n <= k + n /\ (k + n) - (j + n) = k - j
    BY <1>1, <1>5
  <2>2. At(j + n).pos + ((k + n) - (j + n)) <= Size(At(j + n).msg)
    BY <1>2, <1>3, <1>5, <2>1
  <2>3. At(k + n) = Byte(At(j + n).msg, At(j + n).pos + ((k + n) - (j + n)))
    BY <2>1, <2>2 DEF InOrder
  <2> QED  BY <1>2, <2>1, <2>3
<1>6. ASSUME NEW j \in 0 .. Len(pipe') - 1, At(j)'.pos = SizeIn(sent, At(j)'.msg)
      PROVE  At(j + 1)' = Byte(At(j)'.msg + 1, 1)
  <2>1. /\ j + n \in 0 .. Len(pipe) - 1 /\ (j + 1) + n = (j + n) + 1
        /\ j \in 0 .. Len(pipe') /\ j + 1 \in 0 .. Len(pipe')
    BY <1>1
  <2>2. At((j + n) + 1) = Byte(At(j + n).msg + 1, 1)
    BY <1>2, <1>3, <1>6, <2>1 DEF InOrder
  <2> QED  BY <1>2, <2>1, <2>2
<1>7. open' => At(Len(pipe))' = Byte(Len(sent), Size(Len(sent)))'
  <2>1. At(Len(pipe))' = At(Len(pipe))
    BY <1>1, <1>2
  <2>2. open' => At(Len(pipe)) = Byte(Len(sent), Size(Len(sent)))
    BY DEF InOrder
  <2>3. Byte(Len(sent), Size(Len(sent)))' = Byte(Len(sent), Size(Len(sent)))
    BY DEF Byte, Size
  <2> QED  BY <2>1, <2>2, <2>3
<1> QED  BY <1>4, <1>5, <1>6, <1>7 DEF InOrder, Size

LEMMA ReadInOrder ==
  ASSUME TypeOK, RecvInv, pc \in {"header", "body"}, NEW n \in Nat, Read(n)
  PROVE  InOrder'
<1>1. /\ n \in 1 .. Len(pipe) /\ have + n <= Wanted
      /\ pipe' = SubSeq(pipe, n + 1, Len(pipe))
      /\ have' = have + n
      /\ UNCHANGED <<pc, open, sent, cur, received>>
  BY DEF Read, server
<1>2. have \in Nat /\ HEADER_LEN \in Nat /\ Len(pipe) \in Nat
  BY StreamAssumption DEF TypeOK
<1>3. pipe[n] = Byte(Len(received) + 1,
                     (IF pc = "body" THEN HEADER_LEN ELSE 0) + have + n)
  BY <1>1, Ahead
<1>4. Consumed' = At(n)
  <2>1. At(n) = pipe[n]
    BY <1>1 DEF At
  <2>2. CASE pc = "header"
    <3>1. Consumed' = Byte(Len(received) + 1, have + n)
      BY <1>1, <1>2, <2>2 DEF Consumed, Byte
    <3>2. 0 + have + n = have + n
      BY <1>1, <1>2
    <3> QED  BY <1>3, <2>1, <2>2, <3>1, <3>2
  <2>3. CASE pc = "body"
    <3>1. Consumed' = Byte(Len(received) + 1, HEADER_LEN + (have + n))
      BY <1>1, <2>3 DEF Consumed, Byte
    <3>2. HEADER_LEN + have + n = HEADER_LEN + (have + n)
      BY <1>1, <1>2
    <3> QED  BY <1>3, <2>1, <2>3, <3>1, <3>2
  <2> QED  BY <2>2, <2>3
<1>5. InOrder
  BY DEF RecvInv
<1>6. /\ Len(pipe') = Len(pipe) - n
      /\ \A j \in 1 .. Len(pipe') : pipe'[j] = pipe[j + n]
  <2>1. /\ Len(pipe') = Len(pipe) - n
        /\ \A j \in 1 .. Len(pipe) - n : pipe'[j] = pipe[n + j]
    BY <1>1, PipeRest
  <2> QED  BY <1>1, <1>2, <2>1
<1>7. n \in 0 .. Len(pipe)
  BY <1>1, <1>2
<1> QED  BY <1>1, <1>4, <1>5, <1>6, <1>7, Shifted

(* A step of the client that reads nothing. *)
LEMMA StillInOrder ==
  ASSUME TypeOK, InOrder, UNCHANGED <<sent, open, pipe>>, Consumed' = Consumed
  PROVE  InOrder'
<1>1. Len(pipe) \in Nat /\ 0 \in 0 .. Len(pipe) /\ Len(pipe') = Len(pipe) - 0
  BY DEF TypeOK
<1>2. \A j \in 1 .. Len(pipe') : pipe'[j] = pipe[j + 0]
  BY <1>1
<1>3. Consumed' = At(0)
  BY DEF At
<1> QED  BY <1>1, <1>2, <1>3, Shifted

(* The pipe of a connection that was ended is a beginning of what it was.  *)
LEMMA CutInOrder ==
  ASSUME TypeOK, InOrder, ServerEnd
  PROVE  InOrder'
<1>1. PICK n \in 0 .. Len(pipe) : pipe' = SubSeq(pipe, 1, n)
  BY DEF ServerEnd
<1>2. /\ Len(pipe') = n /\ n \in Nat /\ Len(pipe) \in Nat /\ n <= Len(pipe)
      /\ \A j \in 1 .. n : pipe'[j] = pipe[j]
  BY <1>1, PipeCut DEF TypeOK
<1>3. ~open' /\ UNCHANGED <<pc, sent, have, received>>
  BY DEF ServerEnd, client
<1>4. Consumed' = Consumed
  BY <1>3 DEF Consumed, Byte, Size
<1>5. \A j \in 0 .. n : At(j)' = At(j) /\ j \in 0 .. Len(pipe)
  BY <1>2, <1>4 DEF At
<1>6. \A j \in 0 .. n - 1 : j \in 0 .. Len(pipe) - 1 /\ j \in 0 .. n /\ j + 1 \in 0 .. n
  BY <1>2
<1>7. \A j \in 0 .. Len(pipe') :
        At(j)'.msg \in 0 .. Len(sent)' /\ At(j)'.pos \in 0 .. SizeIn(sent, At(j)'.msg)
  BY <1>2, <1>3, <1>5 DEF InOrder, Size
<1>8. ASSUME NEW j \in 0 .. Len(pipe'), NEW k \in 0 .. Len(pipe'),
             j <= k, At(j)'.pos + (k - j) <= SizeIn(sent, At(j)'.msg)
      PROVE  At(k)' = Byte(At(j)'.msg, At(j)'.pos + (k - j))
  <2>1. At(j)' = At(j) /\ At(k)' = At(k) /\ j \in 0 .. Len(pipe) /\ k \in 0 .. Len(pipe)
    BY <1>2, <1>5
  <2>2. At(j).pos + (k - j) <= Size(At(j).msg)
    BY <1>8, <2>1 DEF Size
  <2>3. At(k) = Byte(At(j).msg, At(j).pos + (k - j))
    BY <1>8, <2>1, <2>2 DEF InOrder
  <2> QED  BY <2>1, <2>3
<1>9. ASSUME NEW j \in 0 .. Len(pipe') - 1, At(j)'.pos = SizeIn(sent, At(j)'.msg)
      PROVE  At(j + 1)' = Byte(At(j)'.msg + 1, 1)
  <2>1. /\ At(j)' = At(j) /\ At(j + 1)' = At(j + 1) /\ j \in 0 .. Len(pipe) - 1
        /\ Size(At(j).msg) = At(j).pos
    BY <1>2, <1>5, <1>6, <1>9 DEF Size
  <2> QED  BY <2>1 DEF InOrder
<1> QED  BY <1>3, <1>7, <1>8, <1>9 DEF InOrder, Size

(* The bytes of a new message follow the last ones of the one before.      *)
LEMMA SendInOrder ==
  ASSUME TypeOK, InOrder, Prefix, NEW r \in Requests, ServerSend(r)
  PROVE  InOrder'
<1> DEFINE L == Len(pipe)
           m == Len(sent) + 1
           size == SizeOf(r)
           B(j) == IF j = 0 THEN Consumed' ELSE pipe'[j]
<1>1. /\ L \in Nat /\ m \in Nat \ {0} /\ size \in Nat \ {0} /\ Len(sent) \in Nat
      /\ Len(received) \in Nat
  BY RequestFacts, StreamAssumption DEF TypeOK
<1>2. /\ open /\ open' = open
      /\ sent' = Append(sent, r)
      /\ pipe' = pipe \o [k \in 1 .. size |-> Byte(m, k)]
      /\ UNCHANGED <<pc, have, received>>
  BY DEF ServerSend, client
<1>3. /\ Len(pipe') = L + size
      /\ \A j \in 1 .. L : pipe'[j] = pipe[j]
      /\ \A j \in 1 .. size : pipe'[L + j] = Byte(m, j)
  BY <1>1, <1>2, PipeMore
<1>4. /\ Len(sent') = m /\ SizeIn(sent', m) = size
      /\ \A n \in 0 .. Len(sent) : SizeIn(sent', n) = SizeIn(sent, n)
  <2>1. /\ Len(sent') = m /\ sent'[m] = r
        /\ \A n \in 1 .. Len(sent) : sent'[n] = sent[n]
    BY <1>1, <1>2, AppendProperties DEF TypeOK
  <2> QED  BY <1>1, <2>1 DEF SizeIn
<1>5. Consumed' = Consumed
  <2>1. Len(received) \in 0 .. Len(sent)
    BY <1>1 DEF Prefix
  <2>2. SizeIn(sent', Len(received)) = SizeIn(sent, Len(received))
    BY <1>4, <2>1
  <2> QED  BY <1>2, <2>2 DEF Consumed, Byte, Size
<1>6. \A j \in 0 .. L : B(j) = At(j)
  BY <1>1, <1>3, <1>5 DEF At
<1>7. \A j \in 1 .. size : B(L + j) = Byte(m, j)
  BY <1>1, <1>3
<1>8. At(L) = Byte(Len(sent), Size(Len(sent)))
  BY <1>2 DEF InOrder
<1>9. \A j \in 0 .. Len(pipe') : j \in 0 .. L \/ \E d \in 1 .. size : j = L + d
  <2>1. \A j \in 0 .. L + size : j > L => j - L \in 1 .. size /\ j = L + (j - L)
    BY <1>1
  <2> QED  BY <1>1, <1>3, <2>1
<1>10. \A j \in 0 .. L : /\ At(j).msg \in 0 .. Len(sent)
                         /\ At(j).pos \in 0 .. SizeIn(sent, At(j).msg)
                         /\ SizeIn(sent', At(j).msg) = SizeIn(sent, At(j).msg)
                         /\ SizeIn(sent, At(j).msg) \in Nat
  BY <1>4, SizeFacts DEF InOrder, Size
<1>11. \A d \in 1 .. size : Byte(m, d).msg = m /\ Byte(m, d).pos = d
  BY DEF Byte
<1> HIDE DEF L, m, size, B
<1>12. \A j \in 0 .. Len(pipe') :
         B(j).msg \in 0 .. Len(sent') /\ B(j).pos \in 0 .. SizeIn(sent', B(j).msg)
  <2> SUFFICES ASSUME NEW j \in 0 .. Len(pipe')
               PROVE  /\ B(j).msg \in 0 .. Len(sent')
                      /\ B(j).pos \in 0 .. SizeIn(sent', B(j).msg)
    OBVIOUS
  <2>1. CASE j \in 0 .. L
    <3>1. Len(sent) <= Len(sent')
      BY <1>1, <1>4 DEF m
    <3> QED  BY <1>1, <1>4, <1>6, <1>10, <2>1, <3>1
  <2>2. ASSUME NEW d \in 1 .. size, j = L + d
        PROVE  /\ B(j).msg \in 0 .. Len(sent')
               /\ B(j).pos \in 0 .. SizeIn(sent', B(j).msg)
    <3>1. B(j).msg = m /\ B(j).pos = d
      BY <1>7, <1>11, <2>2
    <3> QED  BY <1>1, <1>4, <2>2, <3>1
  <2> QED  BY <1>9, <2>1, <2>2
<1>13. ASSUME NEW j \in 0 .. Len(pipe'), NEW k \in 0 .. Len(pipe'),
              j <= k, B(j).pos + (k - j) <= SizeIn(sent', B(j).msg)
       PROVE  B(k) = Byte(B(j).msg, B(j).pos + (k - j))
  <2>1. CASE j \in 0 .. L /\ k \in 0 .. L
    <3>1. At(j).pos + (k - j) <= Size(At(j).msg)
      BY <1>6, <1>10, <1>13, <2>1 DEF Size
    <3>2. At(k) = Byte(At(j).msg, At(j).pos + (k - j))
      BY <1>13, <2>1, <3>1 DEF InOrder, L
    <3> QED  BY <1>6, <2>1, <3>2
  <2>2. ASSUME j \in 0 .. L, NEW d \in 1 .. size, k = L + d  PROVE FALSE
    <3>1. /\ At(j).pos \in Nat /\ Size(At(j).msg) \in Nat
          /\ At(j).pos + (k - j) <= Size(At(j).msg)
      BY <1>6, <1>10, <1>13, <2>2 DEF Size
    <3>2. /\ j \in Nat /\ k \in Nat /\ j <= L /\ L < k
          /\ At(j).pos + (L - j) <= Size(At(j).msg)
      BY <1>1, <2>2, <3>1
    <3>3. At(L) = Byte(At(j).msg, At(j).pos + (L - j))
      <4>1. L \in 0 .. L /\ j \in 0 .. L /\ j <= L
        BY <1>1, <2>2, <3>2
      <4> QED  BY <3>2, <4>1 DEF InOrder, L
    <3>4. At(j).pos + (L - j) = Size(At(j).msg)
      BY <1>8, <3>3 DEF Byte
    <3> QED  BY <1>1, <3>1, <3>2, <3>4
  <2>3. ASSUME NEW d \in 1 .. size, j = L + d  
        PROVE  B(k) = Byte(B(j).msg, B(j).pos + (k - j))
    <3>1. B(j) = Byte(m, d) /\ B(j).msg = m /\ B(j).pos = d
      BY <1>7, <1>11, <2>3
    <3>2. k - L \in 1 .. size /\ k = L + (k - L) /\ k - L = d + (k - j)
      BY <1>1, <1>3, <1>4, <1>13, <2>3, <3>1
    <3>3. B(L + (k - L)) = Byte(m, k - L)
      BY <1>7, <3>2
    <3>4. B(k) = Byte(m, k - L)
      BY <1>3, <1>1, <3>2, <3>3
    <3> QED  BY <3>1, <3>2, <3>4
  <2> QED  BY <1>9, <2>1, <2>2, <2>3
<1>14. ASSUME NEW j \in 0 .. Len(pipe') - 1, B(j).pos = SizeIn(sent', B(j).msg)
       PROVE  B(j + 1) = Byte(B(j).msg + 1, 1)
  <2>1. CASE j \in 0 .. L - 1
    <3>1. At(j).pos = Size(At(j).msg) /\ j \in 0 .. L /\ j + 1 \in 0 .. L
      BY <1>1, <1>6, <1>10, <1>14, <2>1 DEF Size
    <3>2. At(j + 1) = Byte(At(j).msg + 1, 1)
      BY <2>1, <3>1 DEF InOrder, L
    <3> QED  BY <1>6, <3>1, <3>2
  <2>2. CASE j = L
    <3>1. B(L + 1) = Byte(m, 1) /\ B(L) = At(L) /\ At(L).msg = Len(sent)
      BY <1>1, <1>6, <1>7, <1>8 DEF Byte
    <3> QED  BY <2>2, <3>1 DEF m
  <2>3. ASSUME NEW d \in 1 .. size, j = L + d  PROVE FALSE
    <3>1. B(j).msg = m /\ B(j).pos = d /\ d < size
      BY <1>1, <1>3, <1>7, <1>11, <2>3
    <3> QED  BY <1>1, <1>4, <1>14, <3>1
  <2>4. j \in 0 .. L - 1 \/ j = L \/ \E d \in 1 .. size : j = L + d
    <3>1. j \in 0 .. Len(pipe')
      BY <1>1, <1>3
    <3> QED  BY <1>1, <1>9, <3>1
  <2> QED  BY <2>1, <2>2, <2>3, <2>4
<1>15. B(Len(pipe')) = Byte(Len(sent'), SizeIn(sent', Len(sent')))
  <2>1. B(L + size) = Byte(m, size)
    BY <1>1, <1>7
  <2> QED  BY <1>1, <1>3, <1>4, <2>1
<1>16. (\A j : At(j)' = B(j)) /\ At(Len(pipe))' = B(Len(pipe'))
  BY DEF At, B
<1> QED  BY <1>12, <1>13, <1>14, <1>15, <1>16 DEF InOrder, Size

-----------------------------------------------------------------------------
LEMMA RecvInit == Init => RecvInv
<1> SUFFICES ASSUME Init  PROVE RecvInv
  OBVIOUS
<1>1. /\ pc = "header" /\ sent = <<>> /\ pipe = <<>> /\ have = 0 /\ received = <<>>
      /\ Len(sent) = 0 /\ Len(pipe) = 0 /\ Len(received) = 0
  BY DEF Init
<1>2. At(0) = Byte(0, 0) /\ Size(0) = 0
  BY <1>1 DEF At, Consumed, Size, SizeIn
<1>3. InOrder
  BY <1>1, <1>2 DEF InOrder, Byte
<1> QED  BY <1>1, <1>3, StreamAssumption DEF RecvInv, Prefix, Partial

LEMMA SamePrefix ==
  ASSUME TypeOK, Prefix, UNCHANGED <<sent, received>>
  PROVE  Prefix'
BY DEF Prefix

(* The client takes the message it has read for the next one.              *)
LEMMA NextReceived ==
  ASSUME TypeOK, Prefix, Len(received) < Len(sent), UNCHANGED sent,
         received' = Append(received, sent[Len(received) + 1])
  PROVE  Prefix' /\ Len(received') = Len(received) + 1
<1>1. /\ Len(received) \in Nat /\ Len(sent) \in Nat
      /\ sent[Len(received) + 1] \in Requests
  BY DEF TypeOK
<1>2. /\ Len(received') = Len(received) + 1
      /\ \A n \in 1 .. Len(received) : received'[n] = received[n]
      /\ received'[Len(received) + 1] = sent[Len(received) + 1]
  BY <1>1, AppendProperties DEF TypeOK
<1> QED  BY <1>1, <1>2 DEF Prefix

(* Headers are decoded once all their bytes are there.                     *)
LEMMA HeaderDecoded ==
  ASSUME TypeOK, RecvInv, pc = "header", have = HEADER_LEN
  PROVE  Len(received) < Len(sent) /\ Decoded = {sent[Len(received) + 1]}
<1> DEFINE next == Len(received) + 1
<1>1. /\ HEADER_LEN \in Nat \ {0} /\ Len(received) \in Nat /\ Len(sent) \in Nat
      /\ InOrder /\ Partial
  BY StreamAssumption DEF RecvInv, TypeOK
<1>2. At(0).msg = next
  BY <1>1 DEF At, Consumed, Byte
<1>3. next \in 1 .. Len(sent)
  <2>1. 0 \in 0 .. Len(pipe)
    BY DEF TypeOK
  <2>2. next \in 0 .. Len(sent)
    BY <1>1, <1>2, <2>1 DEF InOrder
  <2> QED  BY <1>1, <2>2
<1>4. \A k \in 1 .. HEADER_LEN : headerBuf[k] = Byte(next, k)
  BY <1>1 DEF Partial
<1>5. ASSUME NEW m \in DOMAIN sent, headerBuf[1] = Byte(m, 1)  PROVE m = next
  <2>1. headerBuf[1] = Byte(next, 1)
    BY <1>1, <1>4
  <2> QED  BY <1>5, <2>1 DEF Byte
<1>6. {m \in DOMAIN sent : \A k \in 1 .. HEADER_LEN : headerBuf[k] = Byte(m, k)}
        = {next}
  <2>1. DOMAIN sent = 1 .. Len(sent) /\ 1 \in 1 .. HEADER_LEN
    BY <1>1 DEF TypeOK
  <2> QED  BY <1>3, <1>4, <1>5, <2>1
<1> QED  BY <1>1, <1>3, <1>6 DEF Decoded

LEMMA RecvNext == TypeOK /\ RecvInv /\ [Next]_vars => RecvInv'
<1> SUFFICES ASSUME TypeOK, RecvInv, [Next]_vars  PROVE RecvInv'
  OBVIOUS
<1> USE DEF server, client, answers
<1>1. /\ Prefix /\ (pc # "end" => InOrder /\ Partial)
      /\ Len(received) \in Nat /\ Len(sent) \in Nat /\ have \in Nat
      /\ HEADER_LEN \in Nat \ {0}
      /\ cur \in Requests
  BY StreamAssumption DEF RecvInv, TypeOK
<1>2. ASSUME NEW r \in Requests, ServerSend(r)  PROVE RecvInv'
  <2>1. /\ Len(sent') = Len(sent) + 1
        /\ \A n \in 1 .. Len(sent) : sent'[n] = sent[n]
        /\ UNCHANGED <<pc, have, headerBuf, cur, received>>
    BY <1>2, AppendProperties DEF ServerSend, TypeOK
  <2>2. Prefix'
    BY <1>1, <2>1 DEF Prefix
  <2>3. Partial \/ pc = "end"
    BY <1>1
  <2>4. Partial' \/ pc = "end"
    BY <1>1, <2>1, <2>3 DEF Partial
  <2> QED  BY <1>1, <1>2, <2>1, <2>2, <2>4, SendInOrder DEF RecvInv
<1>3. CASE ServerEnd
  <2>1. Prefix' /\ pc' = pc /\ (Partial => Partial')
    BY <1>1, <1>3 DEF ServerEnd, Prefix, Partial
  <2> QED  BY <1>1, <1>3, <2>1, CutInOrder DEF RecvInv
<1>4. CASE ReadHeader
  <2>1. PICK n \in 1 .. HEADER_LEN : Read(n) /\ headerBuf' = Stored(headerBuf, n)
    BY <1>4 DEF ReadHeader
  <2>2. /\ n \in 1 .. Len(pipe) /\ n \in Nat /\ have + n <= HEADER_LEN
        /\ have' = have + n
        /\ UNCHANGED <<pc, open, sent, cur, received>>
        /\ pc = "header"
    BY <1>1, <1>4, <2>1 DEF Read, ReadHeader, Wanted
  <2>3. InOrder' /\ Prefix'
    BY <1>1, <2>1, <2>2, ReadInOrder, SamePrefix
  <2>4. ASSUME NEW k \in 1 .. have + n
        PROVE  headerBuf'[k] = Byte(Len(received) + 1, k)
    <3>1. headerBuf'[k] = IF k \in have + 1 .. have + n THEN pipe[k - have]
                                                       ELSE headerBuf[k]
      BY <1>1, <2>1, <2>2 DEF Stored, TypeOK
    <3>2. CASE k \in have + 1 .. have + n
      <4>1. k - have \in 1 .. Len(pipe) /\ have + (k - have) <= Wanted
        BY <1>1, <2>2, <3>2 DEF Wanted, TypeOK
      <4>2. pipe[k - have] = Byte(Len(received) + 1, 0 + have + (k - have))
        BY <2>2, <4>1, Ahead
      <4>3. 0 + have + (k - have) = k
        BY <1>1, <2>2
      <4> QED  BY <3>1, <3>2, <4>2, <4>3
    <3>3. CASE k \notin have + 1 .. have + n
      <4>1. k \in 1 .. have
        BY <1>1, <2>2, <3>3
      <4> QED  BY <1>1, <2>2, <3>1, <3>3, <4>1 DEF Partial
    <3> QED  BY <3>2, <3>3
  <2>5. Partial'
    BY <2>2, <2>4 DEF Partial
  <2> QED  BY <2>3, <2>5 DEF RecvInv
<1>5. CASE ReadBody
  <2>1. PICK n \in 1 .. IDEN_LEN : Read(n)
    BY <1>5 DEF ReadBody
  <2>2. /\ n \in Nat /\ have + n <= cur.dataLen
        /\ have' = have + n
        /\ UNCHANGED <<pc, open, sent, cur, received>>
        /\ pc = "body"
    BY <1>1, <1>5, <2>1, StreamAssumption DEF Read, ReadBody, Wanted
  <2>3. InOrder' /\ Prefix'
    BY <1>1, <2>1, <2>2, ReadInOrder, SamePrefix
  <2>4. Partial'
    BY <1>1, <2>2 DEF Partial
  <2> QED  BY <2>3, <2>4 DEF RecvInv
<1>6. CASE HeaderRead
  <2>1. /\ Len(received) < Len(sent) /\ cur' = sent[Len(received) + 1]
        /\ have' = 0 /\ have = HEADER_LEN /\ pc = "header"
        /\ UNCHANGED <<sent, open, pipe>>
    BY <1>6, HeaderDecoded DEF HeaderRead, Wanted
  <2>2. At(0) = Byte(Len(received) + 1, HEADER_LEN) /\ Consumed = At(0)
    BY <1>1, <2>1 DEF At, Consumed
  <2>3. cur' \in Requests /\ HEADER_LEN + 0 = HEADER_LEN
    BY <1>1, <2>1 DEF TypeOK
  <2>4. CASE cur'.iden
    <3>1. pc' = "body" /\ received' = received
      BY <1>6, <2>4 DEF HeaderRead
    <3>2. Consumed' = Consumed
      BY <2>1, <2>2, <2>3, <3>1 DEF Consumed, Byte
    <3>3. InOrder' /\ Prefix'
      BY <1>1, <2>1, <3>1, <3>2, StillInOrder, SamePrefix
    <3>4. cur'.dataLen \in Nat
      BY <2>3, RequestFacts, StreamAssumption
    <3> QED  BY <2>1, <2>4, <3>1, <3>3, <3>4 DEF RecvInv, Partial
  <2>5. CASE ~cur'.iden
    <3>1. pc' = "gen" /\ received' = Append(received, sent[Len(received) + 1])
      BY <1>6, <2>1, <2>5 DEF HeaderRead
    <3>2. Prefix' /\ Len(received') = Len(received) + 1
      BY <1>1, <2>1, <3>1, NextReceived
    <3>3. SizeIn(sent', Len(received')) = HEADER_LEN
      <4>1. sent[Len(received) + 1].dataLen = 0
        BY <2>1, <2>3, <2>5, RequestFacts
      <4> QED  BY <1>1, <2>1, <3>2, <4>1 DEF SizeIn, SizeOf
    <3>4. Consumed' = Consumed
      BY <2>2, <3>1, <3>2, <3>3 DEF Consumed, Byte, Size
    <3>5. InOrder'
      BY <1>1, <2>1, <3>4, StillInOrder
    <3> QED  BY <2>1, <3>1, <3>2, <3>5 DEF RecvInv, Partial
  <2> QED  BY <2>4, <2>5
<1>7. CASE BodyRead
  <2>1. /\ pc = "body" /\ pc' = "gen" /\ have' = 0 /\ have = cur.dataLen
        /\ received' = Append(received, cur)
        /\ UNCHANGED <<sent, open, pipe>>
    BY <1>7 DEF BodyRead, Wanted
  <2>2. Len(received) < Len(sent) /\ cur = sent[Len(received) + 1]
    BY <1>1, <2>1 DEF Partial
  <2>3. Prefix' /\ Len(received') = Len(received) + 1
    BY <1>1, <2>1, <2>2, NextReceived
  <2>4. SizeIn(sent', Len(received')) = HEADER_LEN + have
    BY <1>1, <2>1, <2>2, <2>3 DEF SizeIn, SizeOf
  <2>5. Consumed' = Consumed
    BY <2>1, <2>3, <2>4 DEF Consumed, Byte, Size
  <2>6. InOrder'
    BY <1>1, <2>1, <2>5, StillInOrder
  <2> QED  BY <2>1, <2>3, <2>6 DEF RecvInv, Partial
<1>8. CASE Generate \/ SendDone
  <2>1. /\ pc' \in {"send", "header"} /\ pc \in {"gen", "send"}
        /\ pc' = "header" => have' = 0
        /\ UNCHANGED <<sent, open, pipe, received>>
    BY <1>8 DEF Generate, SendDone
  <2>2. Consumed' = Consumed
    BY <2>1 DEF Consumed, Byte, Size
  <2>3. InOrder' /\ Prefix'
    BY <1>1, <2>1, <2>2, StillInOrder, SamePrefix
  <2>4. Partial'
    BY <1>1, <2>1 DEF Partial
  <2> QED  BY <2>3, <2>4 DEF RecvInv
<1>9. CASE Write
  <2>1. pc = "send" /\ UNCHANGED <<pc, sent, open, pipe, received>>
    BY <1>9 DEF Write
  <2>2. Consumed' = Consumed
    BY <2>1 DEF Consumed, Byte, Size
  <2>3. InOrder' /\ Prefix'
    BY <1>1, <2>1, <2>2, StillInOrder, SamePrefix
  <2> QED  BY <2>1, <2>3 DEF RecvInv, Partial
<1>10. CASE ReadClosed \/ GiveUp \/ WriteClosed
  <2>1. pc' = "end" /\ UNCHANGED <<sent, received>>
    BY <1>10 DEF ReadClosed, GiveUp, WriteClosed
  <2> QED  BY <1>1, <2>1, SamePrefix DEF RecvInv
<1>11. CASE UNCHANGED vars
  <2>1. UNCHANGED <<pc, sent, open, pipe, received, have, headerBuf, cur>>
    BY <1>11 DEF vars
  <2>2. Consumed' = Consumed
    BY <2>1 DEF Consumed, Byte, Size
  <2>3. (InOrder => InOrder') /\ Prefix'
    BY <1>1, <2>1, <2>2, StillInOrder, SamePrefix
  <2>4. Partial => Partial'
    BY <2>1 DEF Partial
  <2> QED  BY <1>1, <2>1, <2>3, <2>4 DEF RecvInv
<1> QED
  BY <1>2, <1>3, <1>4, <1>5, <1>6, <1>7, <1>8, <1>9, <1>10, <1>11
  DEF Next, Client, Terminated

THEOREM RecvInvAlways == Spec => []RecvInv
BY StreamTypeOK, RecvInit, RecvNext, PTL DEF Spec

(* The bytes of the connection, cut as read() likes, make the channel of   *)
(* whole messages that ClientSimulate relies on (RecvN).                   *)
THEOREM StreamImplementsChannel == Spec => ImplementsChannel
<1>1. Init => Ch!Init
  BY DEF Init, Ch!Init
<1>2. TypeOK /\ RecvInv /\ [Next]_vars => [Ch!Next]_(Ch!vars)
  <2> SUFFICES ASSUME TypeOK, RecvInv, [Next]_vars  PROVE [Ch!Next]_(Ch!vars)
    OBVIOUS
  <2> USE DEF server, client, answers
  <2>1. CASE UNCHANGED <<open, sent, received>>
    BY <2>1 DEF Ch!vars
  <2>2. ASSUME NEW r \in Requests, ServerSend(r)  PROVE Ch!Send
    BY <2>2 DEF ServerSend, Ch!Send
  <2>3. CASE ServerEnd
    BY <2>3 DEF ServerEnd, Ch!Next, Ch!HangUp
  <2>4. CASE HeaderRead
    <3>1. Len(received) < Len(sent) /\ cur' = sent[Len(received) + 1]
      BY <2>4, HeaderDecoded DEF HeaderRead, Wanted
    <3>2. UNCHANGED <<open, sent>> /\
          (received' = received \/ received' = Append(received, cur'))
      BY <2>4 DEF HeaderRead
    <3> QED  BY <3>1, <3>2 DEF Ch!Next, Ch!Receive, Ch!vars
  <2>5. CASE BodyRead
    <3>1. pc = "body" /\ UNCHANGED <<open, sent>> /\ received' = Append(received, cur)
      BY <2>5 DEF BodyRead
    <3>2. Len(received) < Len(sent) /\ cur = sent[Len(received) + 1]
      BY <3>1 DEF RecvInv, Partial
    <3> QED  BY <3>1, <3>2 DEF Ch!Next, Ch!Receive
  <2>6. CASE ReadHeader \/ ReadBody
    BY <2>1, <2>6 DEF ReadHeader, ReadBody, Read
  <2>7. CASE \/ ReadClosed \/ Generate \/ GiveUp \/ Write \/ WriteClosed
             \/ SendDone \/ UNCHANGED vars
    BY <2>1, <2>7 DEF ReadClosed, Generate, GiveUp, Write, WriteClosed, SendDone, vars
  <2> QED
    BY <2>2, <2>3, <2>4, <2>5, <2>6, <2>7 DEF Next, Client, Terminated, Ch!Next
<1> QED
  BY <1>1, <1>2, StreamTypeOK, RecvInvAlways, PTL DEF Spec, ImplementsChannel, Ch!Spec

-----------------------------------------------------------------------------
(* SendN: what the server has got last, and what it gets next.             *)
Last == IF back = <<>> THEN NoByte ELSE back[Len(back)]

SendInv ==
  /\ \A j \in DOMAIN back : back[j].msg \in 1 .. Len(packages)
  /\ \A j \in DOMAIN back :
       back[j] = After(IF j = 1 THEN NoByte ELSE back[j - 1])
  /\ pc = "send" => packages # <<>> /\ have <= sendLen
  /\ open /\ pc \in {"header", "body", "gen"} =>
       IF packages = <<>> THEN back = <<>>
       ELSE back # <<>> /\ Last = Byte(Len(packages), sendLen)
  /\ open /\ pc = "send" =>
       IF have > 0 THEN back # <<>> /\ Last = Byte(Len(packages), have)
       ELSE IF Len(packages) = 1 THEN back = <<>>
       ELSE back # <<>> /\ Last = Byte(Len(packages) - 1, packages[Len(packages) - 1])

LEMMA PackageFacts ==
  ASSUME TypeOK
  PROVE  /\ Len(packages) \in Nat /\ Len(back) \in Nat /\ have \in Nat
         /\ DOMAIN packages = 1 .. Len(packages) /\ DOMAIN back = 1 .. Len(back)
         /\ \A m \in 1 .. Len(packages) : packages[m] \in Nat \ {0}
         /\ packages # <<>> => Len(packages) > 0 /\ sendLen \in Nat
<1>1. /\ Len(packages) \in Nat /\ Len(back) \in Nat /\ have \in Nat
      /\ DOMAIN packages = 1 .. Len(packages) /\ DOMAIN back = 1 .. Len(back)
      /\ packages # <<>> => Len(packages) > 0
  BY DEF TypeOK
<1>2. ASSUME NEW m \in 1 .. Len(packages)  PROVE packages[m] \in Nat \ {0}
  <2>1. packages[m] \in AnswerLens
    BY DEF TypeOK
  <2> QED  BY <2>1, StreamAssumption
<1> QED  BY <1>1, <1>2 DEF sendLen

LEMMA SendInit == Init => SendInv
BY DEF Init, SendInv

(* A write() of n bytes goes on where the last one ended.                  *)
LEMMA WriteGoesOn ==
  ASSUME TypeOK, SendInv, pc = "send", open, NEW n \in 1 .. sendLen - have,
         back' = back \o Written(n), have' = have + n, UNCHANGED <<pc, packages, open>>
  PROVE  SendInv'
<1> DEFINE L == Len(back)
           P == Len(packages)
           new == Written(n)
<1>1. /\ L \in Nat /\ P \in Nat \ {0} /\ have \in Nat /\ n \in Nat \ {0}
      /\ sendLen \in Nat /\ have + n <= sendLen
      /\ back \in Seq(Bytes)
      /\ \A m \in 1 .. P : packages[m] \in Nat \ {0}
  <2>1. packages # <<>> /\ back \in Seq(Bytes)
    BY DEF TypeOK, SendInv
  <2> QED  BY <2>1, PackageFacts
<1>2. new \in Seq(Bytes) /\ Len(new) = n /\ \A k \in 1 .. n : new[k] = Byte(P, have + k)
  BY <1>1 DEF Written, Byte, Bytes
<1> L = Len(back) /\ P = Len(packages) /\ sendLen = packages[P]
  BY DEF sendLen
<1> HIDE DEF new, L, P
<1>3. /\ back' \in Seq(Bytes)
      /\ Len(back') = L + n
      /\ \A j \in 1 .. L : back'[j] = back[j]
      /\ \A k \in 1 .. n : back'[L + k] = Byte(P, have + k)
  <2>1. back' = back \o new
    BY DEF new
  <2>2. back \in Seq(Bytes) /\ new \in Seq(Bytes)
    BY <1>1, <1>2
  <2>3. /\ back' \in Seq(Bytes)
        /\ Len(back') = Len(back) + Len(new)
        /\ \A j \in 1 .. Len(back) : back'[j] = back[j]
        /\ \A k \in 1 .. Len(new) : back'[Len(back) + k] = new[k]
    BY ONLY <2>1, <2>2, ConcatParts
  <2>4. L = Len(back) /\ n = Len(new)
    BY <1>2
  <2> QED  BY <1>2, <2>3, <2>4
<1>4. DOMAIN back = 1 .. L /\ DOMAIN back' = 1 .. L + n
  BY <1>1, <1>3
<1>5. \A b : After(b)' = After(b)
  BY DEF After
<1>6. After(Last) = Byte(P, have + 1)
  <2>1. CASE have > 0
    BY <1>1, <2>1 DEF SendInv, After, Byte, sendLen
  <2>2. CASE have = 0 /\ P = 1
    BY <1>1, <2>2 DEF SendInv, After, Byte, NoByte, Last
  <2>3. CASE have = 0 /\ P # 1
    <3>1. Last = Byte(P - 1, packages[P - 1])
      BY <1>1, <2>3 DEF SendInv
    <3>2. P - 1 \in 1 .. P
      BY <1>1, <2>3
    <3>3. After(Last) = Byte((P - 1) + 1, 1)
      BY <1>1, <3>1, <3>2 DEF After, Byte
    <3>4. (P - 1) + 1 = P /\ have + 1 = 1
      BY <1>1, <2>3
    <3> QED  BY <3>3, <3>4
  <2> QED  BY <1>1, <2>1, <2>2, <2>3
<1>7. \A k \in 2 .. n : After(Byte(P, have + (k - 1))) = Byte(P, have + k)
  <2> SUFFICES ASSUME NEW k \in 2 .. n
               PROVE  After(Byte(P, have + (k - 1))) = Byte(P, have + k)
    OBVIOUS
  <2>1. /\ have + (k - 1) < packages[P] /\ P > 0
        /\ have + (k - 1) + 1 = have + k
    BY <1>1 DEF sendLen
  <2> QED  BY <2>1 DEF After, Byte
<1> DEFINE Prev(j) == IF j = 1 THEN NoByte ELSE back'[j - 1]
<1>8. ASSUME NEW j \in 1 .. L
      PROVE  back'[j].msg \in 1 .. P /\ back'[j] = After(Prev(j))
  <2>1. j # 1 => j - 1 \in 1 .. L
    BY <1>1
  <2> QED  BY <1>3, <1>4, <1>8, <2>1 DEF SendInv
<1>9. ASSUME NEW k \in 1 .. n
      PROVE  back'[L + k].msg \in 1 .. P /\ back'[L + k] = After(Prev(L + k))
  <2>1. back'[L + k] = Byte(P, have + k) /\ back'[L + k].msg \in 1 .. P
    <3>1. P \in 1 .. P
      BY <1>1
    <3> QED  BY <1>3, <1>9, <3>1 DEF Byte
  <2>2. k \in Nat /\ k >= 1 /\ k <= n
    BY <1>1
  <2>3. CASE k = 1
    <3>1. Prev(L + k) = Last
      <4>1. CASE L = 0
        <5>1. back = <<>>
          BY <1>1, <4>1, EmptySeq DEF L
        <5>2. L + k = 1
          BY <2>3, <4>1
        <5> QED  BY <5>1, <5>2 DEF Last
      <4>2. CASE L # 0
        <5>1. L \in 1 .. L /\ (L + k) - 1 = L /\ L + k # 1 /\ back # <<>>
          BY <1>1, <2>3, <4>2
        <5> QED  BY <1>3, <5>1 DEF Last
      <4> QED  BY <4>1, <4>2
    <3> HIDE DEF Prev
    <3>2. back'[L + k] = After(Prev(L + k))
      BY <1>6, <2>1, <2>3, <3>1
    <3> QED  BY <2>1, <3>2
  <2>4. CASE k # 1
    <3>1. /\ k - 1 \in 1 .. n /\ (L + k) - 1 = L + (k - 1) /\ L + k # 1
          /\ k \in 2 .. n
      BY <1>1, <2>2, <2>4
    <3>2. back'[L + (k - 1)] = Byte(P, have + (k - 1))
      BY <1>3, <3>1
    <3>3. Prev(L + k) = Byte(P, have + (k - 1))
      BY <3>1, <3>2
    <3> HIDE DEF Prev
    <3>4. back'[L + k] = After(Prev(L + k))
      BY <1>7, <2>1, <3>1, <3>3
    <3> QED  BY <2>1, <3>4
  <2> QED  BY <2>3, <2>4
<1> HIDE DEF Prev
<1>10. ASSUME NEW j \in DOMAIN back'
       PROVE  back'[j].msg \in 1 .. P /\ back'[j] = After(Prev(j))
  <2>1. j \in 1 .. L + n
    BY <1>4
  <2>2. CASE j \in 1 .. L
    BY <1>8, <2>2
  <2>3. CASE j \notin 1 .. L
    <3>1. j - L \in 1 .. n /\ L + (j - L) = j
      BY <1>1, <2>1, <2>3
    <3>2. back'[L + (j - L)].msg \in 1 .. P /\ back'[L + (j - L)] = After(Prev(L + (j - L)))
      BY <1>9, <3>1
    <3> QED  BY <3>1, <3>2
  <2> QED  BY <2>2, <2>3
<1>11. have' > 0 /\ have' <= sendLen /\ back' # <<>> /\ Last' = Byte(P, have')
  <2>1. n \in 1 .. n /\ L + n > 0
    BY <1>1
  <2> QED  BY <1>1, <1>3, <2>1 DEF Last
<1> QED  BY <1>5, <1>10, <1>11 DEF SendInv, After, sendLen, Prev

LEMMA SendNext == TypeOK /\ RecvInv /\ SendInv /\ [Next]_vars => SendInv'
<1> SUFFICES ASSUME TypeOK, RecvInv, SendInv, [Next]_vars  PROVE SendInv'
  OBVIOUS
<1> USE DEF server, client, answers
<1>1. CASE Write
  <2>1. PICK n \in 1 .. sendLen - have :
          /\ have' = have + n
          /\ back' = IF open THEN back \o Written(n) ELSE back
    BY <1>1 DEF Write
  <2>2. pc = "send" /\ UNCHANGED <<pc, packages, open>>
    BY <1>1 DEF Write
  <2>3. CASE open
    BY <2>1, <2>2, <2>3, WriteGoesOn
  <2>4. CASE ~open
    <3>1. have + n <= sendLen
      <4>1. packages # <<>>
        BY <2>2 DEF SendInv
      <4> QED  BY <4>1, PackageFacts
    <3> QED  BY <2>1, <2>2, <2>4, <3>1 DEF SendInv, After, sendLen
  <2> QED  BY <2>3, <2>4
<1>2. CASE Generate
  <2>1. PICK n \in AnswerLens : packages' = Append(packages, n)
    BY <1>2 DEF Generate
  <2>2. /\ Len(packages) \in Nat /\ Len(packages') = Len(packages) + 1
        /\ \A m \in 1 .. Len(packages) : packages'[m] = packages[m]
        /\ packages'[Len(packages) + 1] = n /\ n \in Nat
    BY <2>1, AppendProperties, StreamAssumption DEF TypeOK
  <2>3. pc = "gen" /\ pc' = "send" /\ UNCHANGED <<back, open, have>>
    BY <1>2 DEF Generate
  <2>4. \A j \in DOMAIN back : back[j].msg \in 1 .. Len(packages)
    BY DEF SendInv
  <2>5. \A j \in DOMAIN back : back'[j].msg \in 1 .. Len(packages')
    BY <2>2, <2>3, <2>4
  <2>6. ASSUME NEW b, b = NoByte \/ b.msg \in 1 .. Len(packages)
        PROVE  After(b)' = After(b)
    BY <2>2, <2>6 DEF After, NoByte, Byte
  <2>7. ASSUME NEW j \in DOMAIN back
        PROVE  back'[j] = After(IF j = 1 THEN NoByte ELSE back[j - 1])'
    <3>1. j # 1 => j - 1 \in DOMAIN back
      BY DEF TypeOK
    <3> QED  BY <2>3, <2>4, <2>6, <3>1 DEF SendInv
  <2>8. have = 0
    BY <2>3 DEF RecvInv, Partial
  <2> QED  BY <2>2, <2>3, <2>5, <2>7, <2>8 DEF SendInv, sendLen, Last
<1>3. CASE SendDone
  <2>1. /\ pc = "send" /\ pc' = "header" /\ have = sendLen /\ have' = 0
        /\ UNCHANGED <<open, packages, back>>
    BY <1>3 DEF SendDone
  <2>2. packages # <<>> /\ sendLen > 0
    <3>1. packages # <<>>
      BY <2>1 DEF SendInv
    <3> QED  BY <3>1, PackageFacts DEF sendLen
  <2> QED  BY <2>1, <2>2 DEF SendInv, After, sendLen, Last
<1>4. ASSUME UNCHANGED <<packages, back>>, open' => open,
             pc' # "send" \/ (pc = "send" /\ have' = have),
             pc \in {"header", "body"} \/ pc' \in {"send", "end"} \/ pc' = pc
      PROVE  SendInv'
  <2>1. \A b : After(b)' = After(b)
    BY <1>4 DEF After
  <2> QED  BY <1>4, <2>1 DEF SendInv, sendLen, Last
<1>5. ASSUME NEW r \in Requests, ServerSend(r)  PROVE SendInv'
  BY <1>4, <1>5 DEF ServerSend
<1>6. CASE ServerEnd
  BY <1>4, <1>6 DEF ServerEnd
<1>7. CASE ReadHeader \/ ReadBody
  BY <1>4, <1>7 DEF ReadHeader, ReadBody, Read
<1>8. CASE HeaderRead \/ BodyRead
  BY <1>4, <1>8 DEF HeaderRead, BodyRead
<1>9. CASE ReadClosed \/ GiveUp \/ WriteClosed
  BY <1>4, <1>9 DEF ReadClosed, GiveUp, WriteClosed
<1>10. CASE UNCHANGED vars
  BY <1>4, <1>10 DEF vars
<1> QED
  BY <1>1, <1>2, <1>3, <1>5, <1>6, <1>7, <1>8, <1>9, <1>10
  DEF Next, Client, Terminated

(* However write() cuts them, the packages arrive in order and without a   *)
(* gap, each to its end before the client reads again (SendN).             *)
THEOREM StreamPackagesWhole == Spec => []PackagesWhole
<1>1. TypeOK /\ SendInv => PackagesWhole
  BY DEF SendInv, PackagesWhole, Last
<1>2. Spec => []SendInv
  BY StreamTypeOK, RecvInvAlways, SendInit, SendNext, PTL DEF Spec
<1> QED  BY <1>1, <1>2, StreamTypeOK, PTL

-----------------------------------------------------------------------------
(* sc_iden: while a body is read, its first have bytes are those of the    *)
(* body, in network order; the others are as IdenIsLatest says.            *)
IdenInv ==
  pc # "end" =>
    \A k \in 1 .. IDEN_LEN :
      IF pc = "body" /\ k <= have
        THEN iden[k] = Byte(Len(received) + 1, HEADER_LEN + k) /\ k \notin host
        ELSE Latest(k)

(* The IDENTIFYs from the m-th message on. *)
Since(m) == {n \in Bodies : n >= m}

LEMMA SinceFinite ==
  ASSUME TypeOK, NEW m
  PROVE  /\ IsFiniteSet(Since(m)) /\ Cardinality(Since(m)) \in Nat
         /\ Bodies \subseteq 1 .. Len(received)
<1>1. Since(m) \subseteq Bodies /\ Bodies \subseteq 1 .. Len(received)
  BY DEF Since, Bodies, TypeOK
<1>2. IsFiniteSet(1 .. Len(received))
  <2>1. 1 \in Int /\ Len(received) \in Int
    BY DEF TypeOK
  <2> QED  BY <2>1, FS_Interval
<1> QED  BY <1>1, <1>2, FS_Subset, FS_CardinalityType

(* Messages other than IDENTIFYs change nothing. *)
LEMMA LatestKept ==
  ASSUME TypeOK, NEW k \in 1 .. IDEN_LEN, Latest(k),
         iden'[k] = iden[k], k \in host' <=> k \in host,
         Bodies' = Bodies, \A n \in Bodies : received'[n] = received[n]
  PROVE  Latest(k)'
<1>1. {n \in Bodies : received[n].dataLen >= k}'
        = {n \in Bodies : received[n].dataLen >= k}
  OBVIOUS
<1>2. \A m : {n \in Bodies : n >= m}' = {n \in Bodies : n >= m}
  OBVIOUS
<1> QED  BY <1>1, <1>2 DEF Latest

(* The history with one more IDENTIFY. *)
LEMMA OneMore ==
  ASSUME TypeOK, cur \in Requests, cur.iden, received' = Append(received, cur)
  PROVE  LET next == Len(received) + 1
         IN  /\ Bodies' = Bodies \cup {next}
             /\ next \notin Bodies /\ next \in Nat
             /\ \A n \in Bodies : received'[n] = received[n] /\ n < next /\ n \in Nat
             /\ received'[next] = cur
<1> DEFINE next == Len(received) + 1
<1>1. Len(received) \in Nat /\ DOMAIN received = 1 .. Len(received)
  BY DEF TypeOK
<1>2. /\ received' \in Seq(Requests) /\ Len(received') = next
      /\ \A n \in 1 .. Len(received) : received'[n] = received[n]
      /\ received'[next] = cur
  BY AppendProperties DEF TypeOK
<1>3. DOMAIN received' = 1 .. next
  BY <1>2
<1>4. \A n \in 1 .. next : n \in 1 .. Len(received) \/ n = next
  BY <1>1
<1>5. \A n \in 1 .. Len(received) : n \in 1 .. next /\ n < next /\ n \in Nat
  BY <1>1
<1>6. next \in 1 .. next /\ next \notin 1 .. Len(received) /\ next \in Nat
  BY <1>1
<1> HIDE DEF next
<1>7. Bodies' = Bodies \cup {next}
  BY <1>1, <1>2, <1>3, <1>4, <1>5, <1>6 DEF Bodies
<1>8. \A n \in Bodies : n \in 1 .. Len(received)
  BY <1>1 DEF Bodies
<1> QED  BY <1>1, <1>2, <1>5, <1>6, <1>7, <1>8 DEF next

(* A byte of the IDENTIFY just read, converted for the first time.         *)
LEMMA LatestNew ==
  ASSUME TypeOK, cur \in Requests, cur.iden, received' = Append(received, cur),
         NEW k \in 1 .. IDEN_LEN, k <= cur.dataLen,
         iden'[k] = Byte(Len(received) + 1, HEADER_LEN + k),
         k \in Swapped => k \in host'
  PROVE  Latest(k)'
<1> DEFINE next == Len(received) + 1
<1>1. /\ Bodies' = Bodies \cup {next} /\ next \notin Bodies /\ next \in Nat
      /\ \A n \in Bodies : received'[n] = received[n] /\ n < next /\ n \in Nat
      /\ received'[next] = cur
  BY OneMore
<1> DEFINE withByte == {n \in Bodies' : received'[n].dataLen >= k}
<1>2. cur.dataLen \in Nat /\ k \in Nat
  BY RequestFacts, StreamAssumption
<1>3. next \in withByte /\ \A n \in withByte : n <= next
  BY <1>1, <1>2
<1>4. Cardinality({n \in Bodies' : n >= next}) = 1
  <2>1. {n \in Bodies' : n >= next} = {next}
    BY <1>1
  <2> QED  BY <2>1, FS_Singleton
<1>5. iden'[k] = Byte(next, HEADER_LEN + k)
  OBVIOUS
<1>6. k \in Swapped => (k \in host' <=> Cardinality({n \in Bodies' : n >= next}) % 2 = 1)
  BY <1>4
<1>7. \E m \in withByte :
        /\ \A n \in withByte : n <= m
        /\ iden'[k] = Byte(m, HEADER_LEN + k)
        /\ k \in Swapped => (k \in host' <=> Cardinality({n \in Bodies' : n >= m}) % 2 = 1)
  <2> HIDE DEF next, withByte
  <2> QED  BY <1>3, <1>5, <1>6
<1>8. withByte # {}
  BY <1>3
<1> QED  BY <1>7, <1>8 DEF Latest, Byte

(* A byte that a shorter IDENTIFY leaves as it is: IdenN2H turns it over.  *)
LEMMA LatestTurned ==
  ASSUME TypeOK, cur \in Requests, cur.iden, received' = Append(received, cur),
         NEW k \in 1 .. IDEN_LEN, ~(k <= cur.dataLen), Latest(k),
         iden'[k] = iden[k], k \in Swapped => (k \in host' <=> k \notin host)
  PROVE  Latest(k)'
<1> DEFINE next == Len(received) + 1
           withByte == {n \in Bodies : received[n].dataLen >= k}
<1>1. /\ Bodies' = Bodies \cup {next} /\ next \notin Bodies /\ next \in Nat
      /\ \A n \in Bodies : received'[n] = received[n] /\ n < next /\ n \in Nat
      /\ received'[next] = cur
  BY OneMore
<1>2. withByte' = withByte
  BY <1>1, RequestFacts, StreamAssumption
<1> HIDE DEF next
<1>3. CASE withByte = {}
  BY <1>2, <1>3 DEF Latest
<1>4. ASSUME NEW m \in withByte,
             \A n \in withByte : n <= m,
             iden[k] = Byte(m, HEADER_LEN + k),
             k \in Swapped =>
               (k \in host <=> Cardinality({n \in Bodies : n >= m}) % 2 = 1)
      PROVE  Latest(k)'
  <2>1. Since(m)' = Since(m) \cup {next} /\ next \notin Since(m)
    BY <1>1 DEF Since
  <2>2. Cardinality(Since(m)') = Cardinality(Since(m)) + 1
    BY <2>1, SinceFinite, FS_AddElement
  <2>3. Cardinality(Since(m)) \in Nat
    BY SinceFinite
  <2>4. (Cardinality(Since(m)) + 1) % 2 = 1 <=> ~(Cardinality(Since(m)) % 2 = 1)
    BY <2>3
  <2>5. k \in Swapped => (k \in host' <=> Cardinality(Since(m)') % 2 = 1)
    BY <1>4, <2>2, <2>4 DEF Since
  <2>6. m \in withByte' /\ \A n \in withByte' : n <= m
    BY <1>2, <1>4
  <2> QED  BY <1>4, <2>5, <2>6 DEF Latest, Since, Byte
<1> QED  BY <1>3, <1>4 DEF Latest

LEMMA IdenInit == Init => IdenInv
<1> SUFFICES ASSUME Init, NEW k \in 1 .. IDEN_LEN  PROVE Latest(k)
  BY DEF Init, IdenInv
<1>1. Bodies = {} /\ iden[k] = NoByte
  BY DEF Init, Bodies
<1> QED  BY <1>1 DEF Latest

LEMMA IdenNext == TypeOK /\ RecvInv /\ IdenInv /\ [Next]_vars => IdenInv'
<1> SUFFICES ASSUME TypeOK, RecvInv, IdenInv, [Next]_vars,
                    pc' # "end", NEW k \in 1 .. IDEN_LEN
             PROVE  IF pc' = "body" /\ k <= have'
                      THEN /\ iden'[k] = Byte(Len(received') + 1, HEADER_LEN + k)
                           /\ k \notin host'
                      ELSE Latest(k)'
  BY DEF IdenInv, Byte
<1> USE DEF server, client, answers
<1>1. /\ have \in Nat /\ k \in Nat /\ cur \in Requests /\ cur.dataLen \in Nat
      /\ Partial \/ pc = "end"
  BY StreamAssumption, RequestFacts DEF TypeOK, RecvInv
<1>2. ASSUME UNCHANGED <<received, iden, host>>, pc # "end",
             \/ UNCHANGED <<pc, have>>
             \/ pc # "body" /\ pc' # "body"
             \/ pc # "body" /\ have' = 0
      PROVE  IF pc' = "body" /\ k <= have'
               THEN /\ iden'[k] = Byte(Len(received') + 1, HEADER_LEN + k)
                    /\ k \notin host'
               ELSE Latest(k)'
  <2>1. Latest(k) => Latest(k)'
    BY <1>2, LatestKept DEF Bodies
  <2> QED  BY <1>1, <1>2, <2>1 DEF IdenInv
<1>3. ASSUME NEW r \in Requests, ServerSend(r)
      PROVE  UNCHANGED <<received, iden, host, pc, have>>
  BY <1>3 DEF ServerSend
<1>4. CASE ServerEnd \/ UNCHANGED vars
  BY <1>2, <1>4 DEF ServerEnd, vars
<1>5. CASE ReadHeader
  BY <1>2, <1>5 DEF ReadHeader, Read
<1>6. CASE Generate \/ Write \/ SendDone
  BY <1>2, <1>6 DEF Generate, Write, SendDone
<1>7. CASE ReadBody
  <2>1. PICK n \in 1 .. IDEN_LEN :
          Read(n) /\ iden' = Stored(iden, n) /\ host' = host \ (have + 1 .. have + n)
    BY <1>7 DEF ReadBody
  <2>2. /\ pc = "body" /\ n \in Nat /\ n \in 1 .. Len(pipe) /\ have + n <= cur.dataLen
        /\ have' = have + n /\ UNCHANGED <<pc, cur, received>>
    BY <1>7, <2>1, StreamAssumption DEF ReadBody, Read, Wanted
  <2>3. iden'[k] = IF k \in have + 1 .. have + n THEN pipe[k - have] ELSE iden[k]
    BY <2>1 DEF Stored, TypeOK
  <2>4. CASE k <= have
    <3>1. k \notin have + 1 .. have + n
      BY <1>1, <2>2, <2>4
    <3>2. iden[k] = Byte(Len(received) + 1, HEADER_LEN + k) /\ k \notin host
      BY <2>2, <2>4 DEF IdenInv
    <3> QED  BY <1>1, <2>1, <2>2, <2>3, <2>4, <3>1, <3>2
  <2>5. CASE k \in have + 1 .. have + n
    <3>1. /\ k - have \in 1 .. Len(pipe) /\ have + (k - have) <= Wanted
          /\ HEADER_LEN + have + (k - have) = HEADER_LEN + k
      BY <1>1, <2>2, <2>5, StreamAssumption DEF Wanted, TypeOK
    <3>2. pipe[k - have] = Byte(Len(received) + 1, HEADER_LEN + have + (k - have))
      BY <2>2, <3>1, Ahead
    <3> QED  BY <1>1, <2>1, <2>2, <2>3, <2>5, <3>1, <3>2
  <2>6. CASE ~(k <= have + n)
    <3>1. k \notin have + 1 .. have + n /\ ~(k <= have)
      BY <1>1, <2>2, <2>6
    <3>2. Latest(k)
      BY <2>2, <3>1 DEF IdenInv
    <3>3. Latest(k)'
      BY <2>1, <2>2, <2>3, <3>1, <3>2, LatestKept DEF Bodies
    <3> QED  BY <2>2, <2>6, <3>3
  <2>7. k <= have \/ k \in have + 1 .. have + n \/ ~(k <= have + n)
    BY <1>1, <2>2
  <2> QED  BY <2>4, <2>5, <2>6, <2>7
<1>8. CASE HeaderRead
  <2>1. pc = "header" /\ have' = 0 /\ UNCHANGED <<iden, host>> /\ Latest(k)
    BY <1>8 DEF HeaderRead, IdenInv
  <2>2. CASE cur'.iden
    BY <1>2, <1>8, <2>1, <2>2 DEF HeaderRead
  <2>3. CASE ~cur'.iden
    <3>1. pc' = "gen" /\ received' = Append(received, cur') /\ cur' \in Requests
      <4>1. Decoded \subseteq Requests
        BY DEF Decoded, TypeOK
      <4> QED  BY <1>8, <2>3, <4>1 DEF HeaderRead
    <3>2. Bodies' = Bodies /\ \A n \in Bodies : received'[n] = received[n]
      <4>1. /\ received' \in Seq(Requests) /\ Len(received') = Len(received) + 1
            /\ \A n \in 1 .. Len(received) : received'[n] = received[n]
            /\ received'[Len(received) + 1] = cur'
            /\ Len(received) \in Nat /\ DOMAIN received = 1 .. Len(received)
        BY <3>1, AppendProperties DEF TypeOK
      <4>2. DOMAIN received' = 1 .. Len(received) + 1
        BY <4>1
      <4>3. \A n \in 1 .. Len(received) + 1 :
              n \in 1 .. Len(received) \/ n = Len(received) + 1
        BY <4>1
      <4>4. 1 .. Len(received) \subseteq 1 .. Len(received) + 1
        BY <4>1
      <4> QED  BY <2>3, <4>1, <4>2, <4>3, <4>4 DEF Bodies
    <3>3. Latest(k)'
      BY <2>1, <3>2, LatestKept
    <3> QED  BY <3>1, <3>3
  <2> QED  BY <2>2, <2>3
<1>9. CASE BodyRead
  <2>1. /\ pc = "body" /\ pc' = "gen" /\ have = cur.dataLen /\ cur.iden
        /\ received' = Append(received, cur)
        /\ host' = Swapped \ host /\ iden' = iden
    BY <1>1, <1>9 DEF BodyRead, Converted, Wanted, Partial
  <2>2. CASE k <= cur.dataLen
    <3>1. iden'[k] = Byte(Len(received) + 1, HEADER_LEN + k)
          /\ (k \in Swapped => k \in host')
      BY <2>1, <2>2 DEF IdenInv
    <3> QED  BY <1>1, <2>1, <2>2, <3>1, LatestNew
  <2>3. CASE ~(k <= cur.dataLen)
    <3>1. Latest(k) /\ iden'[k] = iden[k] /\ (k \in Swapped => (k \in host' <=> k \notin host))
      BY <2>1, <2>3 DEF IdenInv
    <3> QED  BY <1>1, <2>1, <2>3, <3>1, LatestTurned
  <2> QED  BY <2>2, <2>3
<1>10. ~(ReadClosed \/ GiveUp \/ WriteClosed)
  BY DEF ReadClosed, GiveUp, WriteClosed
<1> QED
  BY <1>2, <1>3, <1>4, <1>5, <1>6, <1>7, <1>8, <1>9, <1>10
  DEF Next, Client, Terminated

(* Between requests sc_iden is the latest IDENTIFY as far as that reached, *)
(* and behind it what earlier ones left, turned over by every IdenN2H      *)
(* since (RecvN into sc_iden, IdenN2H).                                    *)
THEOREM StreamIdenIsLatest == Spec => []IdenIsLatest
<1>1. IdenInv => IdenIsLatest
  BY DEF IdenInv, IdenIsLatest
<1>2. Spec => []IdenInv
  BY StreamTypeOK, RecvInvAlways, IdenInit, IdenNext, PTL DEF Spec
<1> QED  BY <1>1, <1>2, PTL
=============================================================================
