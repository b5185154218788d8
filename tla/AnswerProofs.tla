----------------------------- MODULE AnswerProofs -----------------------------
(***************************************************************************)
(* The verdicts on an IDENTIFY and the cover of its answer, for every      *)
(* table, plain text, version and random number; the numbers of ETHINFO    *)
(* and SYSINFO, for every number and width of the numbers of /proc.        *)
(***************************************************************************)
EXTENDS Answer, FiniteSetTheorems, SequenceTheorems, WellFoundedInduction, TLAPS

(* What the prover needs to know of sc_iden: it is the request in the      *)
(* order of the host.                                                      *)
Converted ==
  /\ request \in Requests
  /\ AsksIdentify /\ outcome.kind # "received" => iden = IdenN2H(request)

(* XOR with the same entry of the table twice gives the byte back.         *)
LEMMA ByteTwice ==
  ASSUME NEW a \in Byte, NEW pos \in Nat, NEW k \in Nat
  PROVE  /\ Key(pos, k) \in Byte
         /\ ServerKey(pos, k) = Key(pos, k)
         /\ ByteXor(a, Key(pos, k)) \in Byte
         /\ ByteXor(ByteXor(a, Key(pos, k)), Key(pos, k)) = a
<1> DEFINE at == ((pos % POS_MOD) + k) % TABLE_LEN
<1>1. at \in 0 .. TABLE_LEN - 1
  <2>1. (pos % POS_MOD) + k \in Nat
    BY CipherAssumption
  <2> QED  BY <2>1, CipherAssumption
<1>2. secret[at] \in Byte
  BY <1>1, CipherAssumption DEF Array
<1> QED  BY <1>2, XorAssumption DEF Key, ServerKey

(* Encrypted undoes Covered (GenIdentify), for a text of any length.       *)
LEMMA RoundTrip ==
  ASSUME NEW len \in Nat, NEW text \in Array(len), NEW pos \in Nat
  PROVE  Encrypted(Covered(text, pos), pos) = text
<1>1. DOMAIN text = 0 .. len - 1 /\ text = [k \in 0 .. len - 1 |-> text[k]]
  BY DEF Array
<1>2. \A k \in 0 .. len - 1 : k \in Nat /\ text[k] \in Byte
  BY DEF Array
<1>3. \A k \in 0 .. len - 1 :
        ByteXor(ByteXor(text[k], Key(pos, k)), ServerKey(pos, k)) = text[k]
  BY <1>2, ByteTwice
<1>4. Covered(text, pos) = [k \in 0 .. len - 1 |-> ByteXor(text[k], Key(pos, k))]
  BY <1>1 DEF Covered
<1>5. Encrypted(Covered(text, pos), pos)
        = [k \in 0 .. len - 1 |->
             ByteXor(ByteXor(text[k], Key(pos, k)), ServerKey(pos, k))]
  BY <1>4 DEF Encrypted
<1> QED  BY <1>1, <1>3, <1>5

(* Identify accepts the tokens the server makes of the plain text, and no  *)
(* other one.                                                              *)
LEMMA IdentifyExact ==
  ASSUME NEW token \in Array(TOKEN_LEN), NEW pos \in Nat
  PROVE  Identify(token, pos) <=> token = Encrypted(plainText, pos)
<1> DEFINE P == 0 .. TOKEN_LEN - 1
<1>1. /\ \A k \in P : k \in Nat /\ token[k] \in Byte /\ plainText[k] \in Byte
      /\ token = [k \in P |-> token[k]]
      /\ plainText = [k \in P |-> plainText[k]]
      /\ DOMAIN plainText = P
  BY CipherAssumption DEF Array
<1>2. \A k \in P :
        /\ ServerKey(pos, k) = Key(pos, k)
        /\ ByteXor(ByteXor(token[k], Key(pos, k)), Key(pos, k)) = token[k]
        /\ ByteXor(ByteXor(plainText[k], Key(pos, k)), Key(pos, k)) = plainText[k]
  BY <1>1, ByteTwice
<1>3. Encrypted(plainText, pos)
        = [k \in P |-> ByteXor(plainText[k], Key(pos, k))]
  BY <1>1, <1>2 DEF Encrypted
<1>4. ASSUME Identify(token, pos)  PROVE  token = Encrypted(plainText, pos)
  <2>1. \A k \in P : plainText[k] = ByteXor(token[k], Key(pos, k))
    BY <1>4 DEF Identify
  <2>2. \A k \in P : ByteXor(plainText[k], Key(pos, k)) = token[k]
    BY <1>2, <2>1
  <2> QED  BY <1>1, <1>3, <2>2
<1>5. ASSUME token = Encrypted(plainText, pos)  PROVE  Identify(token, pos)
  <2>1. \A k \in P : token[k] = ByteXor(plainText[k], Key(pos, k))
    BY <1>3, <1>5
  <2>2. \A k \in P : ByteXor(token[k], Key(pos, k)) = plainText[k]
    BY <1>2, <2>1
  <2> QED  BY <1>1, <2>2 DEF Identify
<1> QED  BY <1>4, <1>5

(* What IdenN2H leaves in sc_iden.                                         *)
LEMMA HostOrder ==
  ASSUME Converted, AsksIdentify, outcome.kind # "received"
  PROVE  /\ HostValue(iden.mainVersion) = NetValue(request.mainVersion)
         /\ iden.subVersion1 = request.subVersion1
         /\ iden.subVersion2 = request.subVersion2
         /\ iden.token = request.token
         /\ HostValue(iden.randomNum) = NetValue(request.randomNum)
         /\ NetValue(request.randomNum) \in Nat
         /\ request.token \in Array(TOKEN_LEN)
<1>1. request \in IdentifyRequests /\ iden = IdenN2H(request)
  BY DEF Converted, AsksIdentify
<1>2. /\ iden.mainVersion = Swap(request.mainVersion)
      /\ iden.randomNum = Swap(request.randomNum)
      /\ iden.subVersion1 = request.subVersion1
      /\ iden.subVersion2 = request.subVersion2
      /\ iden.token = request.token
  BY <1>1 DEF IdenN2H, IdentifyRequests
<1>3. \A w \in Word : HostValue(Swap(w)) = NetValue(w) /\ NetValue(w) \in Nat
  <2> SUFFICES ASSUME NEW w \in Word
               PROVE  HostValue(Swap(w)) = NetValue(w) /\ NetValue(w) \in Nat
    OBVIOUS
  <2>1. w[1] \in Nat /\ w[2] \in Nat /\ BASE \in Nat
    BY CipherAssumption DEF Word, Byte
  <2>2. w[1] * BASE \in Nat
    BY <2>1
  <2> QED  BY <2>1, <2>2 DEF HostValue, NetValue, Swap
<1>4. /\ request.mainVersion \in Word /\ request.randomNum \in Word
      /\ request.token \in Array(TOKEN_LEN)
  BY <1>1, AnswerAssumption DEF IdentifyRequests
<1> QED  BY <1>2, <1>3, <1>4

(* The fields and the token of an answer.                                 *)
LEMMA PlainTyped ==
  ASSUME NEW fields \in Fields
  PROVE  Plain(fields) \in Array(BODY_LEN) /\ BODY_LEN \in Nat
<1>1. /\ fields \in Array(FIELDS_LEN) /\ FIELDS_LEN \in Nat
      /\ plainText \in Array(TOKEN_LEN) /\ TOKEN_LEN \in Nat
  BY AnswerAssumption, CipherAssumption
<1>2. ASSUME NEW k \in 0 .. BODY_LEN - 1
      PROVE  (IF k < FIELDS_LEN THEN fields[k] ELSE plainText[k - FIELDS_LEN])
               \in Byte
  BY <1>1, <1>2 DEF Array, BODY_LEN
<1> QED  BY <1>1, <1>2 DEF Array, Plain, BODY_LEN

Inv == Converted /\ VersionVerdict /\ TokenVerdict /\ ServerReadsBack

(* An outcome of the other kinds says nothing of a version or a token.     *)
LEMMA Undecided ==
  ASSUME outcome.kind \in {"received", "converted"}
  PROVE  VersionVerdict /\ TokenVerdict /\ ServerReadsBack
BY DEF VersionVerdict, TokenVerdict, ServerReadsBack, Decided

(* IsOldVersion is the order of versions.                                  *)
LEMMA OldIsBefore ==
  ASSUME NEW v \in Seq(Nat), Len(v) = 3
  PROVE  IsOldVersion(v[1], v[2], v[3]) <=>
           \E n \in 1 .. 3 :
             /\ v[n] < MinVersion[n]
             /\ \A m \in 1 .. n - 1 : v[m] = MinVersion[m]
<1>1. 1 .. 3 = {1, 2, 3} /\ 1 .. 0 = {} /\ 1 .. 1 = {1} /\ 1 .. 2 = {1, 2}
  OBVIOUS
<1>2. /\ \A m \in 1 .. 1 - 1 : v[m] = MinVersion[m]
      /\ (\A m \in 1 .. 2 - 1 : v[m] = MinVersion[m]) <=> v[1] = MinVersion[1]
      /\ (\A m \in 1 .. 3 - 1 : v[m] = MinVersion[m]) <=>
           v[1] = MinVersion[1] /\ v[2] = MinVersion[2]
  BY <1>1
<1> QED  BY <1>1, <1>2 DEF IsOldVersion

(* OldVersion, of sc_iden, is it for the request.                           *)
LEMMA OldVersionExact ==
  ASSUME Converted, AsksIdentify, outcome.kind # "received"
  PROVE  LET version == <<NetValue(request.mainVersion), request.subVersion1,
                          request.subVersion2>>
         IN  OldVersion <=>
               \E n \in 1 .. 3 :
                 /\ version[n] < MinVersion[n]
                 /\ \A m \in 1 .. n - 1 : version[m] = MinVersion[m]
<1> DEFINE version == <<NetValue(request.mainVersion), request.subVersion1,
                        request.subVersion2>>
<1>1. request.subVersion1 \in Nat /\ request.subVersion2 \in Nat
  <2>1. request.subVersion1 \in SubVersions /\ request.subVersion2 \in SubVersions
    BY DEF AsksIdentify, IdentifyRequests
  <2>2. SubVersions \subseteq Byte /\ Byte \subseteq Nat
    BY AnswerAssumption, CipherAssumption DEF Byte
  <2> QED  BY <2>1, <2>2
<1>2. NetValue(request.mainVersion) \in Nat
  <2>1. request.mainVersion \in Word
    BY AnswerAssumption DEF AsksIdentify, IdentifyRequests
  <2>2. request.mainVersion[1] \in Nat /\ request.mainVersion[2] \in Nat
    BY <2>1, CipherAssumption DEF Word, Byte
  <2> QED  BY <2>2, CipherAssumption DEF NetValue
<1>3. version \in Seq(Nat) /\ Len(version) = 3
  BY <1>1, <1>2
<1>4. OldVersion <=> IsOldVersion(version[1], version[2], version[3])
  BY HostOrder DEF OldVersion
<1> HIDE DEF version
<1>5. IsOldVersion(version[1], version[2], version[3]) <=>
        \E n \in 1 .. 3 :
          /\ version[n] < MinVersion[n]
          /\ \A m \in 1 .. n - 1 : version[m] = MinVersion[m]
  BY <1>3, OldIsBefore
<1> QED  BY <1>4, <1>5 DEF version

(* Nothing is decided of a request that has just arrived.                   *)
LEMMA InvInit == Init => Inv
<1> SUFFICES ASSUME Init  PROVE Inv
  OBVIOUS
<1>1. outcome.kind = "received"
  BY DEF Init
<1>2. Converted
  BY <1>1 DEF Init, Converted
<1> QED  BY <1>1, <1>2, Undecided DEF Inv

(* Each decision follows from sc_iden, which holds the request.            *)
LEMMA InvNext == Inv /\ [Next]_vars => Inv'
<1> SUFFICES ASSUME Inv, [Next]_vars  PROVE Inv'
  OBVIOUS
<1> USE DEF Inv
<1>1. CASE Convert
  <2>1. outcome'.kind = "converted"
    BY <1>1 DEF Convert
  <2>2. Converted'
    BY <1>1 DEF Convert, Converted, AsksIdentify
  <2>3. VersionVerdict' /\ TokenVerdict' /\ ServerReadsBack'
    BY <2>1 DEF VersionVerdict, TokenVerdict, ServerReadsBack, Decided
  <2> QED  BY <2>2, <2>3
<1>2. ASSUME AsksIdentify, Pending, Converted,
             outcome'.kind \in {"MINVERREQ", "outOfDate", "illegal", "IDENTIFY"},
             outcome'.kind = "MINVERREQ" <=> OldVersion,
             outcome'.kind = "IDENTIFY" => Genuine,
             outcome'.kind = "illegal" => ~Genuine
      PROVE  Converted' /\ VersionVerdict' /\ TokenVerdict'
  <2>1. Converted'
    BY <1>2 DEF Converted, Pending, AsksIdentify
  <2>2. outcome.kind # "received"
    BY <1>2 DEF Pending
  <2>3. VersionVerdict'
    <3> DEFINE Before ==
          LET version == <<NetValue(request.mainVersion), request.subVersion1,
                           request.subVersion2>>
          IN  \E n \in 1 .. 3 :
                /\ version[n] < MinVersion[n]
                /\ \A m \in 1 .. n - 1 : version[m] = MinVersion[m]
    <3>1. OldVersion <=> Before
      BY <1>2, <2>2, OldVersionExact
    <3>2. Before' <=> Before
      BY <1>2 DEF Pending
    <3>3. VersionVerdict' <=>
            ((AsksIdentify /\ Decided)' => (outcome'.kind = "MINVERREQ" <=> Before'))
      BY DEF VersionVerdict
    <3> HIDE DEF Before
    <3> QED  BY <1>2, <3>1, <3>2, <3>3
  <2>4. TokenVerdict'
    <3>1. Genuine <=>
            request.token = Encrypted(plainText, NetValue(request.randomNum))
      BY <1>2, <2>2, HostOrder, IdentifyExact DEF Genuine
    <3> QED  BY <1>2, <3>1 DEF TokenVerdict, Pending
  <2> QED  BY <2>1, <2>3, <2>4
<1>3. CASE GenMinVer
  BY <1>2, <1>3 DEF GenMinVer, ServerReadsBack
<1>4. CASE OutOfDate
  BY <1>2, <1>4 DEF OutOfDate, ServerReadsBack
<1>5. CASE Refuse
  BY <1>2, <1>5 DEF Refuse, ServerReadsBack
<1>6. CASE GenIdentify
  <2>1. PICK fields \in Fields, n \in RandomNums :
          outcome' = [kind      |-> "IDENTIFY",
                      plain     |-> Plain(fields),
                      body      |-> Covered(Plain(fields), HostValue(n)),
                      randomNum |-> Swap(n)]
    BY <1>6 DEF GenIdentify
  <2>2. Converted' /\ VersionVerdict' /\ TokenVerdict'
    BY <1>2, <1>6, <2>1 DEF GenIdentify
  <2>3. n[1] \in Nat /\ n[2] \in Nat /\ BASE \in Nat
    BY AnswerAssumption, CipherAssumption DEF Word, Byte
  <2>4. NetValue(Swap(n)) = HostValue(n) /\ HostValue(n) \in Nat
    BY <2>3 DEF NetValue, HostValue, Swap
  <2>5. Plain(fields) \in Array(BODY_LEN) /\ BODY_LEN \in Nat
    BY PlainTyped
  <2>6. Encrypted(Covered(Plain(fields), HostValue(n)), HostValue(n)) = Plain(fields)
    BY <2>4, <2>5, RoundTrip
  <2>7. ServerReadsBack'
    BY <2>1, <2>4, <2>6 DEF ServerReadsBack
  <2> QED  BY <2>2, <2>7
<1>7. CASE GenEthInfo
  <2>1. Converted' /\ ~AsksIdentify'
    BY <1>7 DEF GenEthInfo, Pending, Converted, AsksIdentify
  <2> QED
    BY <1>7, <2>1 DEF GenEthInfo, VersionVerdict, TokenVerdict, ServerReadsBack
<1>8. CASE GenSysInfo
  <2>1. Converted' /\ ~AsksIdentify'
    BY <1>8 DEF GenSysInfo, Pending, Converted, AsksIdentify
  <2> QED
    BY <1>8, <2>1 DEF GenSysInfo, VersionVerdict, TokenVerdict, ServerReadsBack
<1>9. CASE UNCHANGED vars
  BY <1>9 DEF vars, Converted, AsksIdentify, VersionVerdict, TokenVerdict,
              ServerReadsBack, Decided
<1> QED  BY <1>1, <1>3, <1>4, <1>5, <1>6, <1>7, <1>8, <1>9 DEF Next, Terminated

(* The invariant of an IDENTIFY.                                            *)
THEOREM InvAlways == Spec => []Inv
BY InvInit, InvNext, PTL DEF Spec

(* A minimum version package answers exactly the older servers             *)
(* (IsOldVersion behind IdenN2H).                                          *)
THEOREM VersionVerdictAlways == Spec => []VersionVerdict
BY InvAlways, PTL DEF Inv

(* A session goes on exactly with the servers whose token is made of the   *)
(* plain text (Identify).                                                  *)
THEOREM TokenVerdictAlways == Spec => []TokenVerdict
BY InvAlways, PTL DEF Inv

(* The server gets back what GenIdentify covered.                          *)
THEOREM ServerReadsBackAlways == Spec => []ServerReadsBack
BY InvAlways, PTL DEF Inv

-----------------------------------------------------------------------------
(* The numbers of /proc: a line has them in columns, and the readers find  *)
(* each of them.                                                           *)

(* A set of numbers has a least element: FiniteSetTheorems has that strict *)
(* inclusion of finite sets is well-founded.                               *)
LEMMA LeastNat ==
  ASSUME NEW X \in SUBSET Nat, X # {}
  PROVE  \E m \in X : \A k \in X : m <= k
<1> DEFINE Below(n) == 0 .. (n - 1)
           T == {Below(n) : n \in X}
<1>1. T \subseteq FiniteSubsetsOf(Nat) /\ T # {}
  <2>1. ASSUME NEW n \in X  PROVE Below(n) \in SUBSET Nat /\ IsFiniteSet(Below(n))
    <3>1. n - 1 \in Int
      OBVIOUS
    <3> QED  BY <3>1, FS_Interval
  <2> QED  BY <2>1 DEF FiniteSubsetsOf
<1>2. PICK t \in T : \A u \in T : <<u, t>> \notin StrictSubsetOrdering(Nat)
  <2> HIDE DEF T
  <2> QED  BY <1>1, FS_StrictSubsetOrderingWellFounded, WFMin, Zenon
<1>3. PICK m \in X : t = Below(m)
  OBVIOUS
<1>4. ASSUME NEW k \in X, k < m  PROVE FALSE
  <2>1. <<Below(k), Below(m)>> \notin StrictSubsetOrdering(Nat)
    BY <1>2, <1>3
  <2>2. Below(k) \subseteq Below(m) /\ Below(k) \in SUBSET Nat /\ Below(m) \in SUBSET Nat
    BY <1>4
  <2>3. k \in Below(m) /\ k \notin Below(k)
    BY <1>4
  <2> QED  BY <2>1, <2>2, <2>3 DEF StrictSubsetOrdering
<1> QED  BY <1>4

(* Induction over the naturals, with a set for the predicate.              *)
LEMMA SetInduction ==
  ASSUME NEW S, 0 \in S, \A n \in Nat : n \in S => n + 1 \in S
  PROVE  Nat \subseteq S
<1> SUFFICES ASSUME Nat \ S # {}  PROVE FALSE
  OBVIOUS
<1>1. PICK m \in Nat \ S : \A k \in Nat \ S : m <= k
  BY LeastNat
<1>2. m # 0 /\ m - 1 \in Nat /\ m - 1 \notin Nat \ S
  BY <1>1
<1> QED  BY <1>1, <1>2

(* A place with the property of FirstIn is the one it finds.                *)
LEMMA FirstInIs ==
  ASSUME NEW buf, NEW from \in Nat, NEW Chars, NEW p \in from .. BUF_LEN,
         buf[p] \in Chars, \A q \in from .. p - 1 : buf[q] \notin Chars
  PROVE  FirstIn(buf, from, Chars) = p
<1> DEFINE Is(q) == /\ q = BUF_LEN \/ buf[q] \in Chars
                    /\ \A r \in from .. q - 1 : buf[r] \notin Chars
<1>1. Is(p)
  OBVIOUS
<1>2. ASSUME NEW q \in from .. BUF_LEN, Is(q)  PROVE q = p
  <2>1. ~(q < p)
    BY <1>2, CountersAssumption
  <2>2. ~(p < q)
    BY <1>2, CountersAssumption
  <2> QED  BY <2>1, <2>2, CountersAssumption
<1> HIDE DEF Is
<1>3. (CHOOSE q \in from .. BUF_LEN : Is(q)) = p
  BY <1>1, <1>2
<1> QED  BY <1>3 DEF FirstIn, Is

(* And so it is the one a search without a bound ends at.                   *)
LEMMA SoughtIs ==
  ASSUME NEW buf, NEW Chars, NEW p \in 0 .. BUF_LEN,
         buf[p] \in Chars, \A q \in 0 .. p - 1 : buf[q] \notin Chars
  PROVE  Sought(buf, Chars) = p
<1> DEFINE Is(q) == buf[q] \in Chars /\ \A r \in 0 .. q - 1 : buf[r] \notin Chars
<1>1. Is(p)
  OBVIOUS
<1>2. ASSUME NEW q \in 0 .. BUF_LEN, Is(q)  PROVE q = p
  <2>1. ~(q < p)
    BY <1>2, CountersAssumption
  <2>2. ~(p < q)
    BY <1>2, CountersAssumption
  <2> QED  BY <2>1, <2>2, CountersAssumption
<1> HIDE DEF Is
<1>3. (CHOOSE q \in 0 .. BUF_LEN : Is(q)) = p
  BY <1>1, <1>2
<1> QED  BY <1>3 DEF Sought, Is

(* The numbers are in the buffer, from the places s[n] on, with something  *)
(* else between them.                                                      *)
Laid(buf, numbers, count, s) ==
  /\ s \in [1 .. count -> Nat]
  /\ \A n \in 1 .. count :
       /\ numbers[n] \in Number
       /\ s[n] + Len(numbers[n]) <= BUF_LEN
       /\ \A k \in 1 .. Len(numbers[n]) : buf[s[n] + k - 1] = numbers[n][k]
       /\ buf[s[n] + Len(numbers[n])] \in NonDigits
  /\ \A n \in 2 .. count :
       /\ s[n - 1] + Len(numbers[n - 1]) <= s[n]
       /\ \A q \in s[n - 1] + Len(numbers[n - 1]) .. s[n] - 1 :
            buf[q] \in NonDigits

(* A character is a digit or not, but never both.                           *)
LEMMA NonDigitFacts == \A c \in Digits : c \notin NonDigits
BY CountersAssumption DEF NonDigits

(* atoi() reads the number it stands on, and no more.                       *)
LEMMA NumberEnds ==
  ASSUME NEW buf, NEW numbers, NEW count \in Nat, NEW s,
         Laid(buf, numbers, count, s)
  PROVE  \A n \in 1 .. count :
           /\ FirstIn(buf, s[n], NonDigits) = s[n] + Len(numbers[n])
           /\ Atoi(buf, s[n]) = numbers[n]
<1> SUFFICES ASSUME NEW n \in 1 .. count
             PROVE  /\ FirstIn(buf, s[n], NonDigits) = s[n] + Len(numbers[n])
                    /\ Atoi(buf, s[n]) = numbers[n]
  OBVIOUS
<1> DEFINE w == Len(numbers[n])
           e == s[n] + w
<1>1. /\ numbers[n] \in Seq(Digits) /\ w \in Nat /\ s[n] \in Nat
      /\ e <= BUF_LEN /\ buf[e] \in NonDigits
      /\ \A k \in 1 .. w : buf[s[n] + k - 1] = numbers[n][k]
  BY DEF Laid, Number
<1>2. BUF_LEN \in Nat
  BY CountersAssumption
<1> HIDE DEF w
<1>3. ASSUME NEW q \in s[n] .. e - 1  PROVE buf[q] \notin NonDigits
  <2>1. q - s[n] + 1 \in 1 .. w /\ s[n] + (q - s[n] + 1) - 1 = q
    BY <1>1
  <2>2. buf[q] = numbers[n][q - s[n] + 1]
    BY <1>1, <2>1
  <2>3. numbers[n][q - s[n] + 1] \in Digits
    BY <1>1, <2>1 DEF w
  <2> QED  BY <2>2, <2>3, NonDigitFacts
<1>4. FirstIn(buf, s[n], NonDigits) = e
  <2>1. e \in s[n] .. BUF_LEN
    BY <1>1, <1>2
  <2> HIDE DEF e
  <2> QED  BY <1>1, <1>3, <2>1, FirstInIs
<1>5. Atoi(buf, s[n]) = [k \in 1 .. e - s[n] |-> buf[s[n] + k - 1]]
  BY <1>4 DEF Atoi
<1>6. e - s[n] = w
  BY <1>1
<1>7. numbers[n] = [k \in 1 .. w |-> numbers[n][k]]
  BY <1>1 DEF w
<1>8. [k \in 1 .. w |-> buf[s[n] + k - 1]] = [k \in 1 .. w |-> numbers[n][k]]
  BY <1>1
<1> QED  BY <1>4, <1>5, <1>6, <1>7, <1>8 DEF w

(* SkipNonNum goes from one number to the next one.                         *)
LEMMA NextNumber ==
  ASSUME NEW buf, NEW numbers, NEW count \in Nat, NEW s,
         Laid(buf, numbers, count, s)
  PROVE  \A n \in 2 .. count : SkipNonNum(buf, s[n - 1]) = s[n]
<1> SUFFICES ASSUME NEW n \in 2 .. count
             PROVE  SkipNonNum(buf, s[n - 1]) = s[n]
  OBVIOUS
<1> DEFINE e == s[n - 1] + Len(numbers[n - 1])
<1>1. n - 1 \in 1 .. count /\ n \in 1 .. count
  OBVIOUS
<1>2. FirstIn(buf, s[n - 1], NonDigits) = e
  <2>1. \A m \in 1 .. count :
          FirstIn(buf, s[m], NonDigits) = s[m] + Len(numbers[m])
    BY NumberEnds
  <2> QED  BY <1>1, <2>1
<1>3. /\ s[n] \in Nat /\ s[n - 1] \in Nat
      /\ numbers[n] \in Seq(Digits) \ {<<>>} /\ numbers[n - 1] \in Seq(Digits)
      /\ e <= s[n] /\ s[n] + Len(numbers[n]) <= BUF_LEN
      /\ \A q \in e .. s[n] - 1 : buf[q] \in NonDigits
      /\ buf[s[n] + 1 - 1] = numbers[n][1]
  BY <1>1 DEF Laid, Number
<1>4. numbers[n][1] \in Digits /\ Len(numbers[n]) \in Nat /\ s[n] + 1 - 1 = s[n]
      /\ Len(numbers[n - 1]) \in Nat
  BY <1>3
<1>5. e \in Nat /\ s[n] \in e .. BUF_LEN
  BY <1>3, <1>4, CountersAssumption
<1> HIDE DEF e
<1>6. \A q \in e .. s[n] - 1 : buf[q] \notin Digits
  BY <1>3, NonDigitFacts
<1>7. FirstIn(buf, e, Digits) = s[n]
  BY <1>3, <1>4, <1>5, <1>6, FirstInIs
<1> QED  BY <1>2, <1>7 DEF SkipNonNum

(* From the first number on, NumbersFrom reads all of them.                 *)
LEMMA NumbersRead ==
  ASSUME NEW buf, NEW numbers, NEW count \in Nat, NEW s,
         Laid(buf, numbers, count, s), NEW start, count > 0 => start = s[1],
         numbers \in [1 .. count -> Number]
  PROVE  NumbersFrom(buf, start, count) = numbers
<1> DEFINE IsPlace(f) == f = [n \in 1 .. count |->
                                IF n = 1 THEN start ELSE SkipNonNum(buf, f[n - 1])]
           place == CHOOSE f : IsPlace(f)
<1>0. \A n \in 2 .. count : SkipNonNum(buf, s[n - 1]) = s[n]
  BY NextNumber
<1>1. IsPlace(s)
  <2>1. ASSUME NEW n \in 1 .. count
        PROVE  s[n] = IF n = 1 THEN start ELSE SkipNonNum(buf, s[n - 1])
    <3>1. CASE n = 1
      BY <3>1
    <3>2. CASE n \in 2 .. count
      BY <3>2, <1>0
    <3> QED  BY <3>1, <3>2
  <2>2. s \in [1 .. count -> Nat]
    BY DEF Laid
  <2> QED  BY <2>1, <2>2
<1>2. IsPlace(place)
  <2> HIDE DEF IsPlace
  <2> QED  BY <1>1
<1>3. \A n \in 1 .. count :
        place[n] = IF n = 1 THEN start ELSE SkipNonNum(buf, place[n - 1])
  <2> HIDE DEF place
  <2> QED  BY <1>2
<1> HIDE DEF place, IsPlace
<1>4. \A n \in 1 .. count : place[n] = s[n]
  <2> DEFINE S == {n \in Nat : n \in 1 .. count => place[n] = s[n]}
  <2>1. 0 \in S
    OBVIOUS
  <2>2. ASSUME NEW n \in Nat, n \in S  PROVE n + 1 \in S
    <3> SUFFICES ASSUME n + 1 \in 1 .. count  PROVE place[n + 1] = s[n + 1]
      OBVIOUS
    <3>1. CASE n = 0
      BY <1>3, <3>1
    <3>2. CASE n # 0
      <4>1. n \in 1 .. count /\ n + 1 \in 2 .. count /\ n + 1 - 1 = n
        BY <3>2
      <4>2. place[n] = s[n]
        BY <2>2, <4>1
      <4>3. SkipNonNum(buf, s[n + 1 - 1]) = s[n + 1]
        BY <4>1, <1>0
      <4>4. place[n + 1] = SkipNonNum(buf, place[n + 1 - 1])
        BY <1>3, <4>1
      <4> QED  BY <4>1, <4>2, <4>3, <4>4
    <3> QED  BY <3>1, <3>2
  <2> HIDE DEF S
  <2>3. Nat \subseteq S
    BY <2>1, <2>2, SetInduction
  <2> QED  BY <2>3 DEF S
<1>5. NumbersFrom(buf, start, count) = [n \in 1 .. count |-> Atoi(buf, place[n])]
  BY DEF NumbersFrom, place, IsPlace
<1>6. \A n \in 1 .. count : Atoi(buf, place[n]) = numbers[n]
  <2>1. \A n \in 1 .. count : Atoi(buf, s[n]) = numbers[n]
    BY ONLY NumberEnds, Laid(buf, numbers, count, s), count \in Nat
  <2> QED  BY <1>4, <2>1
<1> QED  BY <1>5, <1>6

-----------------------------------------------------------------------------
(* A line of numbers in columns. *)
Characters == Digits \cup NonDigits

Pad(number) == IF Len(number) < 2 THEN 1 ELSE 0

(* A number in its column: what pads it, then its digits.                   *)
LEMMA ColumnFacts ==
  ASSUME NEW number \in Number
  PROVE  /\ Column(number) \in Seq(Characters)
         /\ Len(Column(number)) = Pad(number) + Len(number)
         /\ \A k \in 1 .. Pad(number) : Column(number)[k] = "other"
         /\ \A k \in 1 .. Len(number) : Column(number)[Pad(number) + k] = number[k]
<1>1. number \in Seq(Characters) /\ Len(number) \in Nat
  BY DEF Number, Characters
<1>2. <<"other">> \in Seq(Characters)
  BY DEF Characters, NonDigits
<1>3. CASE Len(number) < 2
  <2>1. Column(number) = <<"other">> \o number /\ Pad(number) = 1
    BY <1>3 DEF Column, Pad
  <2> QED  BY <1>1, <1>2, <2>1
<1>4. CASE ~(Len(number) < 2)
  <2>1. Column(number) = number /\ Pad(number) = 0
    BY <1>4 DEF Column, Pad
  <2> QED  BY <1>1, <2>1
<1> QED  BY <1>3, <1>4

(* t[n] is the line up to the n-th number. *)
IsText(t, name, numbers, count) ==
  t = [n \in 0 .. count |->
         IF n = 0 THEN name ELSE t[n - 1] \o Column(numbers[n]) \o <<"other">>]

(* There is such a t: a recursive definition over the numbers of a line.    *)
LEMMA TextExists ==
  ASSUME NEW name, NEW numbers
  PROVE  \A k \in Nat : \E t : IsText(t, name, numbers, k)
<1> DEFINE S == {k \in Nat : \E t : IsText(t, name, numbers, k)}
           part(n) == Column(numbers[n]) \o <<"other">>
<1>1. 0 \in S
  <2>1. IsText([n \in 0 .. 0 |-> name], name, numbers, 0)
    BY DEF IsText
  <2> QED  BY <2>1
<1>2. ASSUME NEW k \in Nat, k \in S  PROVE k + 1 \in S
  <2>1. PICK t : IsText(t, name, numbers, k)
    BY <1>2
  <2> DEFINE last == t[k] \o Column(numbers[k + 1]) \o <<"other">>
             u == [n \in 0 .. k + 1 |-> IF n = k + 1 THEN last ELSE t[n]]
  <2>2. \A n \in 0 .. k :
          t[n] = IF n = 0 THEN name
                 ELSE t[n - 1] \o Column(numbers[n]) \o <<"other">>
    BY <2>1 DEF IsText
  <2> HIDE DEF last
  <2>3. /\ \A n \in 0 .. k : u[n] = t[n]
        /\ u[k + 1] = last
        /\ u = [n \in 0 .. k + 1 |-> u[n]]
    OBVIOUS
  <2> HIDE DEF u
  <2>4. ASSUME NEW n \in 0 .. k + 1
        PROVE  u[n] = IF n = 0 THEN name
                      ELSE u[n - 1] \o Column(numbers[n]) \o <<"other">>
    <3>1. CASE n = k + 1
      <4>1. n # 0 /\ n - 1 = k /\ k \in 0 .. k
        BY <3>1
      <4> QED  BY <2>3, <3>1, <4>1 DEF last
    <3>2. CASE n \in 0 .. k
      <4>1. n # 0 => n - 1 \in 0 .. k
        BY <3>2
      <4> QED  BY <2>2, <2>3, <3>2, <4>1
    <3> QED  BY <3>1, <3>2
  <2>5. IsText(u, name, numbers, k + 1)
    BY <2>3, <2>4 DEF IsText
  <2> QED  BY <2>5
<1> HIDE DEF S
<1>3. Nat \subseteq S
  BY <1>1, <1>2, SetInduction
<1> QED  BY <1>3 DEF S

(* The line is the last part of it.                                         *)
LEMMA LineIsText ==
  ASSUME NEW name \in Seq(Characters), NEW count \in Nat,
         NEW numbers \in [1 .. count -> Number]
  PROVE  \E t : IsText(t, name, numbers, count) /\ Line(name, numbers) = t[count]
<1>1. Len(numbers) = count
  <2>1. numbers \in Seq(Number) /\ DOMAIN numbers = 1 .. count
    OBVIOUS
  <2> QED  BY <2>1, LenProperties
<1> DEFINE text == CHOOSE t : IsText(t, name, numbers, count)
<1>2. IsText(text, name, numbers, count)
  BY TextExists
<1>3. Line(name, numbers) = text[count]
  BY <1>1 DEF Line, IsText
<1> HIDE DEF text
<1> QED  BY <1>2, <1>3

HasParts(t, name, numbers, count) ==
  /\ t[0] = name
  /\ \A n \in 1 .. count :
       t[n] = t[n - 1] \o Column(numbers[n]) \o <<"other">>

(* Each part is the one before it with a number more.                       *)
LEMMA TextParts ==
  ASSUME NEW name, NEW numbers, NEW count \in Nat, NEW t,
         IsText(t, name, numbers, count)
  PROVE  HasParts(t, name, numbers, count)
<1>1. \A n \in 0 .. count :
        t[n] = IF n = 0 THEN name
               ELSE t[n - 1] \o Column(numbers[n]) \o <<"other">>
  BY DEF IsText
<1>2. \A n \in 1 .. count : n \in 0 .. count /\ n # 0
  OBVIOUS
<1>3. 0 \in 0 .. count
  OBVIOUS
<1> QED  BY <1>1, <1>2, <1>3 DEF HasParts

Growing(t, count) ==
  \A m \in 0 .. count :
    /\ t[m] \in Seq(Characters)
    /\ \A n \in 0 .. m : /\ Len(t[n]) <= Len(t[m])
                         /\ \A k \in 1 .. Len(t[n]) : t[m][k] = t[n][k]

(* A part of the line stays where it is while the line grows.              *)
LEMMA TextGrows ==
  ASSUME NEW name \in Seq(Characters), NEW count \in Nat,
         NEW numbers \in [1 .. count -> Number], NEW t,
         IsText(t, name, numbers, count)
  PROVE  Growing(t, count)
<1>0. /\ t[0] = name
      /\ \A n \in 1 .. count :
           t[n] = t[n - 1] \o Column(numbers[n]) \o <<"other">>
  <2>1. HasParts(t, name, numbers, count)
    BY TextParts
  <2> QED  BY <2>1 DEF HasParts
<1> DEFINE Grows(m) ==
             /\ \A n \in 0 .. m : /\ t[n] \in Seq(Characters)
                                  /\ Len(t[n]) <= Len(t[m])
                                  /\ \A k \in 1 .. Len(t[n]) : t[m][k] = t[n][k]
           S == {m \in Nat : m \in 0 .. count => Grows(m)}
<1>1. 0 \in S
  BY <1>0
<1>2. ASSUME NEW m \in Nat, m \in S  PROVE m + 1 \in S
  <2> SUFFICES ASSUME m + 1 \in 0 .. count  PROVE Grows(m + 1)
    OBVIOUS
  <2> DEFINE c == Column(numbers[m + 1])
  <2>1. m \in 0 .. count /\ m + 1 \in 1 .. count /\ m + 1 - 1 = m
    OBVIOUS
  <2>2. Grows(m)
    BY <1>2, <2>1
  <2>3. c \in Seq(Characters) /\ <<"other">> \in Seq(Characters)
    <3>1. numbers[m + 1] \in Number
      BY <2>1
    <3> QED  BY <3>1, ColumnFacts DEF Characters, NonDigits
  <2>4. t[m + 1] = t[m] \o c \o <<"other">>
    <3> HIDE DEF Grows, S
    <3>1. PICK p \in 1 .. count : p = m + 1
      BY <2>1
    <3>2. t[p] = t[p - 1] \o Column(numbers[p]) \o <<"other">>
      BY <1>0
    <3>3. p - 1 = m
      BY <3>1
    <3> QED  BY <3>1, <3>2, <3>3
  <2> HIDE DEF c
  <2>5. /\ t[m + 1] \in Seq(Characters)
        /\ Len(t[m]) <= Len(t[m + 1])
        /\ \A k \in 1 .. Len(t[m]) : t[m + 1][k] = t[m][k]
    <3> DEFINE x == t[m] \o c
    <3>1. t[m] \in Seq(Characters)
      BY <2>2
    <3>2. /\ x \in Seq(Characters) /\ Len(t[m]) <= Len(x)
          /\ \A k \in 1 .. Len(t[m]) : x[k] = t[m][k]
      BY <2>3, <3>1
    <3>3. t[m + 1] = x \o <<"other">>
      BY <2>4
    <3> HIDE DEF x
    <3> QED  BY <2>3, <3>1, <3>2, <3>3
  <2>6. ASSUME NEW n \in 0 .. m + 1
        PROVE  /\ t[n] \in Seq(Characters)
               /\ Len(t[n]) <= Len(t[m + 1])
               /\ \A k \in 1 .. Len(t[n]) : t[m + 1][k] = t[n][k]
    <3>1. CASE n = m + 1
      BY <2>5, <3>1
    <3>2. CASE n \in 0 .. m
      <4>1. /\ t[n] \in Seq(Characters) /\ t[m] \in Seq(Characters)
            /\ Len(t[n]) <= Len(t[m])
            /\ \A k \in 1 .. Len(t[n]) : t[m][k] = t[n][k]
        BY <2>2, <3>2
      <4> QED  BY <2>5, <4>1
    <3> QED  BY <3>1, <3>2
  <2> QED  BY <2>6
<1> HIDE DEF S
<1>3. Nat \subseteq S
  BY <1>1, <1>2, SetInduction
<1>4. ASSUME NEW m \in 0 .. count  PROVE Grows(m)
  BY <1>3 DEF S
<1>5. ASSUME NEW m \in 0 .. count  PROVE t[m] \in Seq(Characters)
  BY <1>4
<1> QED  BY <1>4, <1>5 DEF Growing

(* Where the elements of two sequences are, one behind the other.           *)
LEMMA ConcatPlaces ==
  ASSUME NEW S, NEW s1 \in Seq(S), NEW s2 \in Seq(S)
  PROVE  /\ s1 \o s2 \in Seq(S) /\ Len(s1 \o s2) = Len(s1) + Len(s2)
         /\ \A k \in 1 .. Len(s1) : (s1 \o s2)[k] = s1[k]
         /\ \A k \in 1 .. Len(s2) : (s1 \o s2)[Len(s1) + k] = s2[k]
<1>1. Len(s1) \in Nat /\ Len(s2) \in Nat
  OBVIOUS
<1>2. /\ s1 \o s2 \in Seq(S) /\ Len(s1 \o s2) = Len(s1) + Len(s2)
      /\ \A i \in 1 .. Len(s1) + Len(s2) :
           (s1 \o s2)[i] = IF i <= Len(s1) THEN s1[i] ELSE s2[i - Len(s1)]
  BY ConcatProperties
<1>3. ASSUME NEW k \in 1 .. Len(s2)  PROVE (s1 \o s2)[Len(s1) + k] = s2[k]
  <2>1. /\ Len(s1) + k \in 1 .. Len(s1) + Len(s2) /\ ~(Len(s1) + k <= Len(s1))
        /\ Len(s1) + k - Len(s1) = k
    BY <1>1
  <2>2. (s1 \o s2)[Len(s1) + k]
          = IF Len(s1) + k <= Len(s1) THEN s1[Len(s1) + k]
                                      ELSE s2[Len(s1) + k - Len(s1)]
    BY <1>2, <2>1
  <2> QED  BY <2>1, <2>2
<1>4. \A k \in 1 .. Len(s1) : (s1 \o s2)[k] = s1[k]
  BY <1>1, <1>2
<1> QED  BY <1>2, <1>3, <1>4

(* A number that is put at the end of a line.                              *)
PlacedAt(text, number, A, P, W) ==
  /\ A \in Nat /\ P \in Nat /\ P <= 1 /\ W \in Nat \ {0}
  /\ Len(text) = A + P + W + 1
  /\ P = 1 => text[A + 1] = "other"
  /\ \A k \in 1 .. W : text[A + (P + k)] = number[k]
  /\ text[A + P + W + 1] = "other"

LEMMA PartPlaces ==
  ASSUME NEW before \in Seq(Characters), NEW number \in Number
  PROVE  PlacedAt(before \o Column(number) \o <<"other">>, number,
                  Len(before), Pad(number), Len(number))
<1> DEFINE c == Column(number)
           x == before \o c
           line == x \o <<"other">>
           a == Len(before)
           pad == Pad(number)
           w == Len(number)
<1>1. a \in Nat /\ pad \in Nat /\ pad <= 1 /\ w \in Nat \ {0}
  BY DEF Number, Pad
<1>2. /\ c \in Seq(Characters) /\ Len(c) = pad + w
      /\ \A k \in 1 .. pad : c[k] = "other"
      /\ \A k \in 1 .. w : c[pad + k] = number[k]
  BY ColumnFacts
<1>3. <<"other">> \in Seq(Characters) /\ Len(<<"other">>) = 1
  BY DEF Characters, NonDigits
<1>0. before \in Seq(Characters)
  OBVIOUS
<1> HIDE DEF c, a, pad, w
<1>4. /\ x \in Seq(Characters) /\ Len(x) = a + (pad + w)
      /\ \A k \in 1 .. pad + w : x[a + k] = c[k]
  <2>0. c \in Seq(Characters)
    BY <1>2
  <2>1. /\ x \in Seq(Characters) /\ Len(x) = Len(before) + Len(c)
        /\ \A k \in 1 .. Len(c) : x[Len(before) + k] = c[k]
    BY ONLY <1>0, <2>0, ConcatPlaces
  <2> HIDE DEF x
  <2> QED  BY <1>2, <2>1 DEF a
<1>5. line = x \o <<"other">>
  OBVIOUS
<1> HIDE DEF x, line
<1>6. /\ Len(line) = Len(x) + 1
      /\ \A k \in 1 .. Len(x) : line[k] = x[k]
      /\ line[Len(x) + 1] = "other"
  <2>1. /\ Len(line) = Len(x) + Len(<<"other">>)
        /\ \A k \in 1 .. Len(x) : line[k] = x[k]
        /\ \A k \in 1 .. Len(<<"other">>) : line[Len(x) + k] = <<"other">>[k]
    BY <1>3, <1>4, <1>5, ConcatPlaces
  <2>2. 1 \in 1 .. Len(<<"other">>) /\ <<"other">>[1] = "other"
    OBVIOUS
  <2> QED  BY <1>3, <2>1, <2>2
<1>7. \A k \in 1 .. pad + w : line[a + k] = c[k]
  <2> SUFFICES ASSUME NEW k \in 1 .. pad + w  PROVE line[a + k] = c[k]
    OBVIOUS
  <2>1. a + k \in 1 .. Len(x)
    BY <1>1, <1>4
  <2> QED  BY <1>4, <1>6, <2>1
<1>8. pad = 1 => line[a + 1] = "other"
  <2> SUFFICES ASSUME pad = 1  PROVE line[a + 1] = "other"
    OBVIOUS
  <2>1. 1 \in 1 .. pad /\ 1 \in 1 .. pad + w
    BY <1>1
  <2> QED  BY <1>2, <1>7, <2>1
<1>9. \A k \in 1 .. w : line[a + (pad + k)] = number[k]
  <2> SUFFICES ASSUME NEW k \in 1 .. w  PROVE line[a + (pad + k)] = number[k]
    OBVIOUS
  <2>1. pad + k \in 1 .. pad + w
    BY <1>1
  <2> QED  BY <1>2, <1>7, <2>1
<1>10. Len(x) + 1 = a + pad + w + 1
  BY <1>1, <1>4
<1>11. PlacedAt(line, number, a, pad, w)
  BY ONLY <1>1, <1>4, <1>6, <1>8, <1>9, <1>10 DEF PlacedAt
<1> QED  BY <1>11 DEF line, x, c, a, pad, w

(* The line is in the buffer from its beginning on. *)
Holds(buf, line) == \A k \in 1 .. Len(line) : buf[k - 1] = line[k]

(* A line is a sequence of characters.                                      *)
LEMMA LineIsSeq ==
  ASSUME NEW name \in Seq(Characters), NEW count \in Nat,
         NEW numbers \in [1 .. count -> Number]
  PROVE  Line(name, numbers) \in Seq(Characters)
<1>0. PICK t : IsText(t, name, numbers, count) /\ Line(name, numbers) = t[count]
  BY LineIsText
<1>1. \A m \in 0 .. count :
        /\ t[m] \in Seq(Characters)
        /\ \A n \in 0 .. m : /\ Len(t[n]) <= Len(t[m])
                             /\ \A k \in 1 .. Len(t[n]) : t[m][k] = t[n][k]
  <2>1. /\ name \in Seq(Characters) /\ count \in Nat
        /\ numbers \in [1 .. count -> Number] /\ IsText(t, name, numbers, count)
    BY <1>0
  <2>2. Growing(t, count)
    BY ONLY <2>1, TextGrows
  <2> QED  BY <2>2 DEF Growing
<1>2. count \in 0 .. count
  OBVIOUS
<1> QED  BY <1>0, <1>1, <1>2

(* From from to before to, nothing is a digit.                             *)
Gap(buf, from, to) == \A q \in from .. to - 1 : buf[q] \in NonDigits

LineLies(buf, name, numbers, count) ==
  /\ \A k \in 1 .. Len(name) : buf[k - 1] = name[k]
  /\ \E s : /\ Laid(buf, numbers, count, s)
            /\ count > 0 => Len(name) <= s[1] /\ Gap(buf, Len(name), s[1])

(* The numbers of a line that is in the buffer lie behind its name.         *)
LEMMA LineLaid ==
  ASSUME NEW name \in Seq(Characters), NEW count \in Nat,
         NEW numbers \in [1 .. count -> Number],
         NEW buf, Holds(buf, Line(name, numbers)),
         Len(Line(name, numbers)) < BUF_LEN
  PROVE  LineLies(buf, name, numbers, count)
<1> DEFINE line == Line(name, numbers)
<1>0. PICK t : IsText(t, name, numbers, count) /\ line = t[count]
  BY LineIsText
<1>1. /\ t[0] = name
      /\ \A n \in 1 .. count :
           t[n] = t[n - 1] \o Column(numbers[n]) \o <<"other">>
      /\ line = t[count]
  <2>1. HasParts(t, name, numbers, count)
    BY <1>0, TextParts
  <2> QED  BY <1>0, <2>1 DEF HasParts
<1>2. \A m \in 0 .. count :
        /\ t[m] \in Seq(Characters)
        /\ \A n \in 0 .. m : /\ Len(t[n]) <= Len(t[m])
                             /\ \A k \in 1 .. Len(t[n]) : t[m][k] = t[n][k]
  <2>1. /\ name \in Seq(Characters) /\ count \in Nat
        /\ numbers \in [1 .. count -> Number] /\ IsText(t, name, numbers, count)
    BY <1>0
  <2>2. Growing(t, count)
    BY ONLY <2>1, TextGrows
  <2> QED  BY <2>2 DEF Growing
<1>3. /\ line \in Seq(Characters)
      /\ \A n \in 0 .. count :
           /\ t[n] \in Seq(Characters)
           /\ Len(t[n]) <= Len(line)
           /\ \A k \in 1 .. Len(t[n]) : buf[k - 1] = t[n][k]
  <2> HIDE DEF line
  <2>1. count \in 0 .. count
    OBVIOUS
  <2>2. line \in Seq(Characters)
    BY <1>1, <1>2, <2>1
  <2>3. ASSUME NEW n \in 0 .. count
        PROVE  /\ t[n] \in Seq(Characters)
               /\ Len(t[n]) <= Len(line)
               /\ \A k \in 1 .. Len(t[n]) : line[k] = t[n][k]
    BY <1>1, <1>2, <2>1
  <2>4. \A k \in 1 .. Len(line) : buf[k - 1] = line[k]
    BY DEF Holds, line
  <2>5. ASSUME NEW n \in 0 .. count, NEW k \in 1 .. Len(t[n])
        PROVE  buf[k - 1] = t[n][k]
    <3>1. k \in 1 .. Len(line)
      BY <2>2, <2>3
    <3> QED  BY <2>3, <2>4, <3>1
  <2> QED  BY <2>2, <2>3, <2>5
<1> DEFINE w(n) == Len(numbers[n])
           a(n) == Len(t[n - 1])
           pad(n) == Pad(numbers[n])
           s == [n \in 1 .. count |-> a(n) + pad(n)]
<1>4. ASSUME NEW n \in 1 .. count
      PROVE  /\ a(n) \in Nat /\ w(n) \in Nat \ {0}
             /\ pad(n) \in Nat /\ pad(n) <= 1
             /\ Len(t[n]) = a(n) + pad(n) + w(n) + 1
             /\ a(n) + pad(n) + w(n) < BUF_LEN
             /\ pad(n) = 1 => buf[a(n)] = "other"
             /\ \A k \in 1 .. w(n) : buf[a(n) + pad(n) + k - 1] = numbers[n][k]
             /\ buf[a(n) + pad(n) + w(n)] = "other"
  <2>1. n - 1 \in 0 .. count /\ n \in 0 .. count
    OBVIOUS
  <2>2. t[n - 1] \in Seq(Characters) /\ numbers[n] \in Number
    BY <1>3, <2>1
  <2>3. t[n] = t[n - 1] \o Column(numbers[n]) \o <<"other">>
    BY <1>1, Zenon
  <2>4. PICK A, P, W, T : A = a(n) /\ P = pad(n) /\ W = w(n) /\ T = t[n]
    OBVIOUS
  <2>5. /\ A \in Nat /\ P \in Nat /\ P <= 1 /\ W \in Nat \ {0}
        /\ Len(T) = A + P + W + 1
        /\ P = 1 => T[A + 1] = "other"
        /\ \A k \in 1 .. W : T[A + (P + k)] = numbers[n][k]
        /\ T[A + P + W + 1] = "other"
    <3>1. PlacedAt(t[n - 1] \o Column(numbers[n]) \o <<"other">>, numbers[n],
                   Len(t[n - 1]), Pad(numbers[n]), Len(numbers[n]))
      BY <2>2, PartPlaces
    <3>2. PlacedAt(T, numbers[n], A, P, W)
      BY <2>3, <2>4, <3>1
    <3> QED  BY <3>2 DEF PlacedAt

  <2>6. /\ Len(T) <= Len(line)
        /\ \A k \in 1 .. Len(T) : buf[k - 1] = T[k]
    BY <1>3, <2>1, <2>4
  <2>7. Len(line) < BUF_LEN /\ BUF_LEN \in Nat /\ Len(line) \in Nat
    <3> HIDE DEF line
    <3>1. Len(line) \in Nat
      BY <1>3
    <3> QED  BY <3>1, CountersAssumption DEF line
  <2> HIDE DEF w, pad, a, line
  <2>8. P = 1 => buf[A] = "other"
    <3> SUFFICES ASSUME P = 1  PROVE buf[A] = "other"
      OBVIOUS
    <3>1. PICK j \in 1 .. Len(T) : j = A + 1
      BY <2>5
    <3>2. j - 1 = A
      BY <2>5, <3>1
    <3>3. buf[j - 1] = T[j]
      BY <2>6
    <3> QED  BY <2>5, <3>1, <3>2, <3>3
  <2>9. ASSUME NEW k \in 1 .. W  PROVE buf[A + P + k - 1] = numbers[n][k]
    <3>1. PICK j \in 1 .. Len(T) : j = A + (P + k)
      BY <2>5
    <3>2. j - 1 = A + P + k - 1
      BY <2>5, <3>1
    <3>3. buf[j - 1] = T[j]
      BY <2>6
    <3> QED  BY <2>5, <3>1, <3>2, <3>3
  <2>10. buf[A + P + W] = "other"
    <3>1. PICK j \in 1 .. Len(T) : j = A + P + W + 1
      BY <2>5
    <3>2. j - 1 = A + P + W
      BY <2>5, <3>1
    <3>3. buf[j - 1] = T[j]
      BY <2>6
    <3> QED  BY <2>5, <3>1, <3>2, <3>3
  <2>11. A + P + W < BUF_LEN
    BY <2>5, <2>6, <2>7
  <2> QED  BY <2>4, <2>5, <2>8, <2>9, <2>10, <2>11
<1>5. \A n \in 1 .. count : s[n] = a(n) + pad(n)
  OBVIOUS
<1>6. ASSUME NEW n \in 2 .. count
      PROVE  n - 1 \in 1 .. count /\ a(n) = a(n - 1) + pad(n - 1) + w(n - 1) + 1
  <2>1. n - 1 \in 1 .. count
    OBVIOUS
  <2>2. Len(t[n - 1]) = a(n - 1) + pad(n - 1) + w(n - 1) + 1
    <3> HIDE DEF w, pad, a
    <3> QED  BY <1>4, <2>1
  <2> QED  BY <2>1, <2>2
<1>7. a(1) = Len(name)
  BY <1>1
<1>8. numbers \in [1 .. count -> Number] /\ BUF_LEN \in Nat /\ "other" \in NonDigits
  BY CountersAssumption DEF NonDigits
<1>9. s \in [1 .. count -> Nat]
  <2> HIDE DEF w, pad, a, line
  <2>1. ASSUME NEW n \in 1 .. count  PROVE a(n) + pad(n) \in Nat
    BY <1>4
  <2> QED  BY <2>1
<1>10. Laid(buf, numbers, count, s)
  <2> HIDE DEF s, a, pad, line
  <2>1. ASSUME NEW n \in 1 .. count
        PROVE  /\ numbers[n] \in Number
               /\ s[n] + Len(numbers[n]) <= BUF_LEN
               /\ \A k \in 1 .. Len(numbers[n]) : buf[s[n] + k - 1] = numbers[n][k]
               /\ buf[s[n] + Len(numbers[n])] \in NonDigits
    BY <1>4, <1>5, <1>8
  <2>2. ASSUME NEW n \in 2 .. count
        PROVE  /\ s[n - 1] + Len(numbers[n - 1]) <= s[n]
               /\ \A q \in s[n - 1] + Len(numbers[n - 1]) .. s[n] - 1 :
                    buf[q] \in NonDigits
    <3>0. n - 1 \in 1 .. count /\ n \in 1 .. count
      OBVIOUS
    <3> HIDE DEF w
    <3>7. PICK m \in 1 .. count : m = n - 1
      BY <3>0
    <3>1. /\ a(n) = a(m) + pad(m) + w(m) + 1
          /\ s[n] = a(n) + pad(n) /\ s[m] = a(m) + pad(m)
      BY <1>5, <1>6, <3>0, <3>7
    <3>2. /\ a(n) \in Nat /\ pad(n) \in Nat /\ pad(n) <= 1 /\ a(m) \in Nat
          /\ pad(m) \in Nat /\ w(m) \in Nat
          /\ buf[a(m) + pad(m) + w(m)] = "other"
          /\ pad(n) = 1 => buf[a(n)] = "other"
      BY <1>4, <3>0
    <3>3. s[m] + w(m) = a(n) - 1 /\ a(m) + pad(m) + w(m) = a(n) - 1
      BY <3>1, <3>2
    <3>4. ASSUME NEW q \in a(n) - 1 .. s[n] - 1  PROVE buf[q] \in NonDigits
      <4>1. CASE q = a(n) - 1
        BY <1>8, <3>2, <3>3, <4>1
      <4>2. CASE q # a(n) - 1
        <5>0. q \in Int /\ a(n) - 1 <= q /\ q <= a(n) + pad(n) - 1
          BY <3>1, <3>2
        <5>1. pad(n) = 1 /\ q = a(n)
          BY <3>2, <4>2, <5>0
        <5> QED  BY <1>8, <3>2, <5>1
      <4> QED  BY <4>1, <4>2
    <3>5. w(m) = Len(numbers[n - 1])
      BY <3>7 DEF w
    <3>6. a(n) - 1 <= s[n]
      BY <3>1, <3>2
    <3> QED  BY <3>7, <3>3, <3>4, <3>5, <3>6
  <2> QED  BY <1>9, <2>1, <2>2 DEF Laid
<1>11. ASSUME count > 0
       PROVE  Len(name) <= s[1] /\ Gap(buf, Len(name), s[1])
  <2>1. 1 \in 1 .. count
    BY <1>11
  <2> HIDE DEF w, pad, a, s, line
  <2>2. /\ s[1] = a(1) + pad(1) /\ a(1) \in Nat /\ pad(1) \in Nat /\ pad(1) <= 1
        /\ pad(1) = 1 => buf[a(1)] = "other"
    BY <1>4, <1>5, <2>1
  <2> QED  BY <1>7, <1>8, <2>2 DEF Gap
<1>12. /\ Len(name) <= Len(line)
       /\ \A k \in 1 .. Len(name) : buf[k - 1] = name[k]
  <2>1. 0 \in 0 .. count
    OBVIOUS
  <2> HIDE DEF line
  <2> QED  BY <1>1, <1>3, <2>1
<1> HIDE DEF s
<1> QED  BY <1>3, <1>10, <1>11, <1>12 DEF LineLies

(* From a character that is no digit on, the first number of the line.     *)
LEMMA FirstDigit ==
  ASSUME NEW buf, NEW numbers, NEW count \in Nat, NEW s,
         Laid(buf, numbers, count, s), count > 0,
         NEW from \in Nat, from <= s[1], Gap(buf, from, s[1])
  PROVE  /\ from = 0 => Sought(buf, Digits) = s[1]
         /\ buf[from] \in NonDigits => SkipNonNum(buf, from) = s[1]
<1>0. 1 \in 1 .. count
  OBVIOUS
<1>1. /\ s[1] \in Nat /\ numbers[1] \in Seq(Digits) \ {<<>>}
      /\ s[1] + Len(numbers[1]) <= BUF_LEN
      /\ buf[s[1] + 1 - 1] = numbers[1][1]
  BY <1>0 DEF Laid, Number
<1>2. numbers[1][1] \in Digits /\ Len(numbers[1]) \in Nat /\ s[1] + 1 - 1 = s[1]
  BY <1>1
<1>3. BUF_LEN \in Nat
  BY CountersAssumption
<1>4. s[1] \in from .. BUF_LEN /\ from \in from .. BUF_LEN
  BY <1>1, <1>2, <1>3
<1>7. \A q \in from .. s[1] - 1 : buf[q] \notin Digits
  BY NonDigitFacts DEF Gap
<1>8. buf[s[1]] \in Digits
  BY <1>1, <1>2
<1>5. FirstIn(buf, from, Digits) = s[1]
  BY <1>4, <1>7, <1>8, FirstInIs
<1>9. ASSUME from = 0  PROVE Sought(buf, Digits) = s[1]
  BY <1>4, <1>7, <1>8, <1>9, SoughtIs
<1>6. ASSUME buf[from] \in NonDigits  PROVE SkipNonNum(buf, from) = s[1]
  <2>1. \A q \in from .. from - 1 : buf[q] \notin NonDigits
    OBVIOUS
  <2>2. FirstIn(buf, from, NonDigits) = from
    BY <1>4, <1>6, <2>1, FirstInIs
  <2> QED  BY <1>5, <2>2 DEF SkipNonNum
<1> QED  BY <1>6, <1>9

(* fgets() of a line that fits.                                            *)
LEMMA FgetsHolds ==
  ASSUME NEW buf, DOMAIN buf = 0 .. BUF_LEN, NEW lines, Len(lines) \in Nat,
         NEW n \in Nat
  PROVE  /\ DOMAIN Fgets(buf, lines, n) = 0 .. BUF_LEN
         /\ n > Len(lines) => Fgets(buf, lines, n) = buf
         /\ n <= Len(lines) /\ Len(lines[n]) \in Nat /\ Len(lines[n]) < BUF_LEN
              => Holds(Fgets(buf, lines, n), lines[n])
<1>1. CASE n > Len(lines)
  BY <1>1 DEF Fgets
<1>2. CASE ~(n > Len(lines))
  <2> DEFINE b == Fgets(buf, lines, n)
             w == Len(lines[n])
  <2>1. b = [k \in DOMAIN buf |-> CASE k < w -> lines[n][k + 1]
                                    [] k = w -> "nul"
                                    [] OTHER -> buf[k]]
    BY <1>2 DEF Fgets
  <2> HIDE DEF b, w
  <2>2. ASSUME w \in Nat, w < BUF_LEN, NEW k \in 1 .. w
        PROVE  b[k - 1] = lines[n][k]
    <3>1. PICK j \in 0 .. BUF_LEN : j = k - 1
      BY <2>2, CountersAssumption
    <3>2. j < w /\ j + 1 = k
      BY <2>2, <3>1
    <3>3. b[j] = lines[n][j + 1]
      BY <2>1, <3>2
    <3> QED  BY <3>1, <3>2, <3>3
  <2>3. DOMAIN b = 0 .. BUF_LEN
    BY <2>1
  <2> QED  BY <1>2, <2>2, <2>3 DEF Holds, b, w
<1> QED  BY <1>1, <1>2

(* The places of the buffer.                                                *)
LEMMA EmptyBufDomain == DOMAIN EmptyBuf = 0 .. BUF_LEN
BY DEF EmptyBuf

(* The number of a line of /proc/meminfo. *)
MemLine(number) == Line(<<"other", ":">>, <<number>>)

(* The number of a line of /proc/meminfo, over whatever the buffer held.    *)
LEMMA MemNumber ==
  ASSUME NEW number \in Number, NEW buf, Holds(buf, MemLine(number)),
         Len(MemLine(number)) < BUF_LEN
  PROVE  Atoi(buf, SkipNonNum(buf, 0)) = number
<1> DEFINE name == <<"other", ":">>
           numbers == <<number>>
<1>1. /\ name \in Seq(Characters) /\ Len(name) = 2
      /\ name[1] = "other" /\ name[2] = ":"
  BY DEF Characters, NonDigits
<1>2. numbers \in [1 .. 1 -> Number] /\ numbers[1] = number
  OBVIOUS
<1> HIDE DEF name, numbers
<1>3. Holds(buf, Line(name, numbers)) /\ Len(Line(name, numbers)) < BUF_LEN
  BY DEF MemLine, name, numbers
<1>4. LineLies(buf, name, numbers, 1)
  BY <1>1, <1>2, <1>3, LineLaid
<1>5. PICK s : Laid(buf, numbers, 1, s) /\ 2 <= s[1] /\ Gap(buf, 2, s[1])
  BY <1>1, <1>4 DEF LineLies
<1>6. buf[0] = "other" /\ buf[1] = ":"
  <2>1. /\ 1 \in 1 .. Len(name) /\ 2 \in 1 .. Len(name)
        /\ 1 - 1 = 0 /\ 2 - 1 = 1
    BY <1>1
  <2> QED  BY <1>1, <1>4, <2>1 DEF LineLies
<1>7. Gap(buf, 0, s[1])
  <2> SUFFICES ASSUME NEW q \in 0 .. s[1] - 1  PROVE buf[q] \in NonDigits
    BY DEF Gap
  <2>1. CASE q = 0 \/ q = 1
    BY <1>6, <2>1 DEF NonDigits
  <2>2. CASE q \in 2 .. s[1] - 1
    BY <1>5, <2>2 DEF Gap
  <2>3. s[1] \in Nat
    BY <1>5 DEF Laid
  <2> QED  BY <2>1, <2>2, <2>3
<1>8. SkipNonNum(buf, 0) = s[1]
  <2>1. buf[0] \in NonDigits
    BY <1>6 DEF NonDigits
  <2>2. 0 <= s[1]
    BY <1>5 DEF Laid
  <2>3. Laid(buf, numbers, 1, s) /\ 1 \in Nat /\ 1 > 0 /\ 0 \in Nat
    BY <1>5
  <2> QED  BY ONLY <1>7, <2>1, <2>2, <2>3, FirstDigit
<1>9. Atoi(buf, s[1]) = numbers[1]
  <2>1. 1 \in 1 .. 1
    OBVIOUS
  <2> QED  BY <1>5, <2>1, NumberEnds
<1> QED  BY <1>2, <1>8, <1>9

(* The times in the first line of /proc/stat. *)
LEMMA CPUTimeExact ==
  ASSUME NEW numbers \in CpuLines
  PROVE  CPUTime(<<Line(<<"other">>, numbers)>>) = numbers
<1> DEFINE name == <<"other">>
           lines == <<Line(name, numbers)>>
           buf == Fgets(EmptyBuf, lines, 1)
<1>1. name \in Seq(Characters) /\ Len(name) = 1 /\ name[1] = "other"
  BY DEF Characters, NonDigits
<1>2. numbers \in [1 .. 4 -> Number] /\ Len(Line(name, numbers)) < BUF_LEN
  BY AnswerAssumption, LinesFit
<1>3. Len(lines) = 1 /\ lines[1] = Line(name, numbers)
  OBVIOUS
<1>4. CPUTime(lines) = NumbersFrom(buf, Sought(buf, Digits), 4)
  BY DEF CPUTime
<1> HIDE DEF name, lines, buf
<1>5. Len(Line(name, numbers)) \in Nat
  BY <1>1, <1>2, LineIsSeq
<1>6. Holds(buf, Line(name, numbers))
  BY <1>2, <1>3, <1>5, EmptyBufDomain, FgetsHolds DEF buf
<1>7. LineLies(buf, name, numbers, 4)
  BY <1>1, <1>2, <1>6, LineLaid
<1>8. PICK s : Laid(buf, numbers, 4, s) /\ 1 <= s[1] /\ Gap(buf, 1, s[1])
  BY <1>1, <1>7 DEF LineLies
<1>9. buf[0] = "other"
  <2>1. 1 \in 1 .. Len(name) /\ 1 - 1 = 0
    BY <1>1
  <2> QED  BY <1>1, <1>7, <2>1 DEF LineLies
<1>10. Gap(buf, 0, s[1])
  <2>1. \A q \in 0 .. s[1] - 1 : q = 0 \/ q \in 1 .. s[1] - 1
    BY <1>8 DEF Laid
  <2> QED  BY <1>8, <1>9, <2>1 DEF NonDigits, Gap
<1>11. Sought(buf, Digits) = s[1]
  <2>1. 0 <= s[1]
    BY <1>8 DEF Laid
  <2>2. Laid(buf, numbers, 4, s) /\ 4 \in Nat /\ 4 > 0 /\ 0 \in Nat
    BY <1>8
  <2> QED  BY ONLY <1>10, <2>1, <2>2, FirstDigit
<1>12. NumbersFrom(buf, s[1], 4) = numbers
  <2>1. 4 \in Nat /\ (4 > 0 => s[1] = s[1])
    OBVIOUS
  <2> QED  BY ONLY <1>2, <1>8, <2>1, NumbersRead
<1> QED  BY <1>4, <1>11, <1>12 DEF lines, name

(* Of /proc/net/dev, whose lines before the one asked for are overwritten. *)
LEMMA RecordDataExact ==
  ASSUME NEW dev \in Seq(Interfaces) \ {<<>>}, NEW ID \in {0, 1}
  PROVE  LET lines == <<<<"other">>, <<"other">>>> \o
                        [n \in DOMAIN dev |-> Line(InterfaceName, dev[n])]
         IN  RecordData(lines, ID) = dev[IF ID = 1 /\ Len(dev) > 1 THEN 2 ELSE 1]
<1> DEFINE texts == [n \in DOMAIN dev |-> Line(InterfaceName, dev[n])]
           lines == <<<<"other">>, <<"other">>>> \o texts
           heading == Fgets(Fgets(EmptyBuf, lines, 1), lines, 2)
           eth0 == Fgets(heading, lines, 3)
           eth1 == Fgets(eth0, lines, 4)
           buf == IF ID = 1 THEN eth1 ELSE eth0
           asked == IF ID = 1 /\ Len(dev) > 1 THEN 2 ELSE 1
           numbers == dev[asked]
<1>1. /\ Len(dev) \in Nat \ {0} /\ DOMAIN dev = 1 .. Len(dev)
      /\ asked \in 1 .. Len(dev) /\ numbers \in Interfaces
  OBVIOUS
<1>2. /\ Len(lines) = 2 + Len(dev)
      /\ \A n \in 1 .. Len(dev) : lines[2 + n] = Line(InterfaceName, dev[n])
  <2> DEFINE U == {Line(InterfaceName, dev[n]) : n \in DOMAIN dev}
             V == U \cup {<<"other">>}
  <2>1. texts \in Seq(V) /\ Len(texts) = Len(dev)
    BY <1>1, LenProperties
  <2>2. <<<<"other">>, <<"other">>>> \in Seq(V)
    OBVIOUS
  <2>3. PICK front \in Seq(V) : front = <<<<"other">>, <<"other">>>>
    BY <2>2
  <2>4. Len(front) = 2
    BY <2>3
  <2>5. PICK back \in Seq(V) : back = texts
    BY <2>1
  <2>6. \A n \in 1 .. Len(dev) : back[n] = Line(InterfaceName, dev[n])
    BY <1>1, <2>5
  <2>7. lines = front \o back /\ Len(back) = Len(dev)
    BY <2>1, <2>3, <2>5
  <2> HIDE DEF V, lines, texts
  <2>8. /\ Len(front \o back) = Len(front) + Len(back)
        /\ \A k \in 1 .. Len(back) : (front \o back)[Len(front) + k] = back[k]
    BY ConcatPlaces
  <2> QED  BY <2>4, <2>6, <2>7, <2>8
<1>3. RecordData(lines, ID)
        = NumbersFrom(buf, SkipNonNum(buf, Sought(buf, {":"})), Numbers)
  BY DEF RecordData
<1> HIDE DEF lines, texts, asked
<1>4. \A n \in 1 .. Len(dev) : dev[n] \in Interfaces
  BY <1>1
<1>5. numbers \in [1 .. Numbers -> Number] /\ Numbers \in Nat
  BY <1>1, AnswerAssumption, CountersAssumption
<1>6. CASE Numbers = 0
  <2> DEFINE start == SkipNonNum(buf, Sought(buf, {":"}))
  <2>1. \E s : Laid(buf, numbers, 0, s)
    <3>1. Laid(buf, numbers, 0, [n \in 1 .. 0 |-> 0])
      BY DEF Laid
    <3> QED  BY <3>1
  <2> HIDE DEF start, buf, numbers
  <2>2. numbers \in [1 .. 0 -> Number] /\ 0 \in Nat
    BY <1>5, <1>6
  <2>3. NumbersFrom(buf, start, 0) = numbers
    <3>1. PICK s : Laid(buf, numbers, 0, s)
      BY <2>1
    <3>2. 0 > 0 => start = s[1]
      OBVIOUS
    <3> QED  BY ONLY <2>2, <3>1, <3>2, NumbersRead
  <2> QED  BY <1>3, <1>6, <2>3 DEF start, numbers, lines, texts, asked
<1>7. CASE Numbers # 0
  <2> DEFINE name == InterfaceName
  <2>1. /\ name \in Seq(Characters) /\ Len(name) = 3
        /\ name[1] = "other" /\ name[2] \in Digits /\ name[3] = ":"
    <3>1. numbers[1] \in Seq(Digits) \ {<<>>}
      BY <1>5, <1>7 DEF Number
    <3>2. numbers[1][1] \in Digits
      BY <3>1
    <3>3. (CHOOSE d \in Digits : TRUE) \in Digits
      BY <3>2
    <3> QED  BY <3>3 DEF InterfaceName, Characters, NonDigits
  <2> HIDE DEF name, buf, heading, eth0, eth1, numbers
  <2>2. ASSUME NEW n \in 1 .. Len(dev)
        PROVE  /\ lines[2 + n] = Line(name, dev[n])
               /\ Len(lines[2 + n]) \in Nat /\ Len(lines[2 + n]) < BUF_LEN
    <3>1. PICK d \in Interfaces : d = dev[n]
      BY <1>4
    <3>2. d \in [1 .. Numbers -> Number] /\ Len(Line(name, d)) < BUF_LEN
      BY AnswerAssumption, LinesFit DEF name
    <3>3. Line(name, d) \in Seq(Characters)
      BY ONLY <1>5, <2>1, <3>2, LineIsSeq
    <3> QED  BY <1>2, <3>1, <3>2, <3>3 DEF name
  <2>3. Len(lines) \in Nat
    BY <1>1, <1>2
  <2>4. DOMAIN heading = 0 .. BUF_LEN
    <3>1. DOMAIN Fgets(EmptyBuf, lines, 1) = 0 .. BUF_LEN
      BY <2>3, EmptyBufDomain, FgetsHolds
    <3> QED  BY <2>3, <3>1, FgetsHolds DEF heading
  <2>5. DOMAIN eth0 = 0 .. BUF_LEN /\ Holds(eth0, lines[3])
    <3>1. 3 <= Len(lines) /\ 1 \in 1 .. Len(dev) /\ 2 + 1 = 3
      BY <1>1, <1>2
    <3>2. Len(lines[3]) \in Nat /\ Len(lines[3]) < BUF_LEN
      BY <2>2, <3>1
    <3> QED  BY <2>3, <2>4, <3>1, <3>2, FgetsHolds DEF eth0
  <2>6. Len(dev) = 1 => eth1 = eth0
    BY <1>2, <2>3, <2>5, FgetsHolds DEF eth1
  <2>7. Len(dev) > 1 => Holds(eth1, lines[4])
    <3> SUFFICES ASSUME Len(dev) > 1  PROVE Holds(eth1, lines[4])
      OBVIOUS
    <3>1. 4 <= Len(lines) /\ 2 \in 1 .. Len(dev) /\ 2 + 2 = 4
      BY <1>1, <1>2
    <3>2. Len(lines[4]) \in Nat /\ Len(lines[4]) < BUF_LEN
      BY <2>2, <3>1
    <3> QED  BY <2>3, <2>5, <3>1, <3>2, FgetsHolds DEF eth1
  <2>8. Holds(buf, lines[2 + asked])
    <3>1. CASE ID = 1 /\ Len(dev) > 1
      BY <2>7, <3>1 DEF buf, asked
    <3>2. CASE ID = 1 /\ Len(dev) = 1
      BY <2>5, <2>6, <3>2 DEF buf, asked
    <3>3. CASE ID = 0
      BY <2>5, <3>3 DEF buf, asked
    <3> QED  BY <1>1, <3>1, <3>2, <3>3
  <2>9. /\ Holds(buf, Line(name, numbers))
        /\ Len(Line(name, numbers)) < BUF_LEN
    BY <1>1, <2>2, <2>8 DEF numbers
  <2>10. LineLies(buf, name, numbers, Numbers)
    BY ONLY <1>5, <2>1, <2>9, LineLaid
  <2>11. PICK s : Laid(buf, numbers, Numbers, s) /\ 3 <= s[1] /\ Gap(buf, 3, s[1])
    <3>1. Numbers > 0
      BY <1>5, <1>7
    <3> QED  BY <2>1, <2>10, <3>1 DEF LineLies
  <2>12. buf[0] = "other" /\ buf[1] \in Digits /\ buf[2] = ":"
    <3>1. /\ 1 \in 1 .. Len(name) /\ 2 \in 1 .. Len(name) /\ 3 \in 1 .. Len(name)
          /\ 1 - 1 = 0 /\ 2 - 1 = 1 /\ 3 - 1 = 2
      BY <2>1
    <3> QED  BY <2>1, <2>10, <3>1 DEF LineLies
  <2>13. s[1] \in Nat /\ s[1] <= BUF_LEN /\ BUF_LEN \in Nat
    <3>1. 1 \in 1 .. Numbers
      BY <1>5, <1>7
    <3>2. s[1] \in Nat /\ s[1] + Len(numbers[1]) <= BUF_LEN
          /\ Len(numbers[1]) \in Nat
      BY <2>11, <3>1 DEF Laid, Number
    <3> QED  BY <3>2, CountersAssumption
  <2>14. Sought(buf, {":"}) = 2
    <3>1. \A q \in 0 .. 2 - 1 : buf[q] \notin {":"}
      <4>1. \A q \in 0 .. 2 - 1 : q = 0 \/ q = 1
        OBVIOUS
      <4> QED  BY <2>12, <4>1, CountersAssumption
    <3>2. 2 \in 0 .. BUF_LEN /\ buf[2] \in {":"}
      BY <2>11, <2>12, <2>13
    <3> QED  BY ONLY <3>1, <3>2, SoughtIs, CountersAssumption
  <2>15. SkipNonNum(buf, 2) = s[1]
    <3>1. Gap(buf, 2, s[1]) /\ 2 <= s[1]
      <4>1. \A q \in 2 .. s[1] - 1 : q = 2 \/ q \in 3 .. s[1] - 1
        BY <2>13
      <4> QED  BY <2>11, <2>12, <2>13, <4>1 DEF Gap, NonDigits
    <3>2. buf[2] \in NonDigits
      BY <2>12 DEF NonDigits
    <3>3. Laid(buf, numbers, Numbers, s) /\ Numbers \in Nat /\ Numbers > 0
          /\ 2 \in Nat
      BY <1>5, <1>7, <2>11
    <3> QED  BY ONLY <3>1, <3>2, <3>3, FirstDigit
  <2>16. NumbersFrom(buf, s[1], Numbers) = numbers
    BY ONLY <1>5, <2>11, NumbersRead
  <2> QED  BY <1>3, <2>14, <2>15, <2>16 DEF lines, texts, asked, numbers
<1> QED  BY <1>6, <1>7

(* Of /proc/meminfo: of five lines, the second, fourth and fifth.          *)
LEMMA FreeMemExact ==
  ASSUME NEW file \in MemFiles
  PROVE  FreeMem([n \in DOMAIN file |-> Line(<<"other", ":">>, <<file[n]>>)])
           = <<file[2], file[4], file[5]>>
<1> DEFINE lines == [n \in DOMAIN file |-> Line(<<"other", ":">>, <<file[n]>>)]
           b1 == Fgets(EmptyBuf, lines, 1)
           free == Fgets(b1, lines, 2)
           b3 == Fgets(free, lines, 3)
           buffers == Fgets(b3, lines, 4)
           cached == Fgets(buffers, lines, 5)
           number(buf) == Atoi(buf, SkipNonNum(buf, 0))
<1>1. file \in [1 .. 5 -> Number]
  BY AnswerAssumption
<1>2. Len(lines) = 5 /\ \A n \in 1 .. 5 : lines[n] = MemLine(file[n])
  <2>1. DOMAIN lines = 1 .. 5 /\ \A n \in 1 .. 5 : lines[n] = MemLine(file[n])
    BY <1>1 DEF MemLine
  <2>2. ASSUME NEW n \in 1 .. 5  PROVE lines[n] \in {lines[m] : m \in 1 .. 5}
    OBVIOUS
  <2>3. lines \in Seq({lines[m] : m \in 1 .. 5})
    BY <2>1, <2>2
  <2> QED  BY <2>1, <2>3, LenProperties
<1>3. FreeMem(lines) = <<number(free), number(buffers), number(cached)>>
  BY DEF FreeMem
<1> HIDE DEF lines, b1, free, b3, buffers, cached
<1>4. ASSUME NEW n \in 1 .. 5
      PROVE  /\ file[n] \in Number /\ lines[n] = MemLine(file[n])
             /\ Len(lines[n]) \in Nat /\ Len(lines[n]) < BUF_LEN
  <2>1. Len(MemLine(file[n])) < BUF_LEN
    BY LinesFit DEF MemLine
  <2>2. file[n] \in Number
    BY <1>1
  <2>3. MemLine(file[n]) \in Seq(Characters)
    <3>1. <<"other", ":">> \in Seq(Characters)
      BY DEF Characters, NonDigits
    <3>2. <<file[n]>> \in [1 .. 1 -> Number] /\ 1 \in Nat
      BY <2>2
    <3> QED  BY ONLY <3>1, <3>2, LineIsSeq DEF MemLine
  <2> QED  BY <1>2, <2>1, <2>2, <2>3
<1>5. /\ DOMAIN b1 = 0 .. BUF_LEN
      /\ DOMAIN free = 0 .. BUF_LEN /\ Holds(free, lines[2])
      /\ DOMAIN b3 = 0 .. BUF_LEN
      /\ DOMAIN buffers = 0 .. BUF_LEN /\ Holds(buffers, lines[4])
      /\ Holds(cached, lines[5])
  <2>1. DOMAIN b1 = 0 .. BUF_LEN
    BY <1>2, EmptyBufDomain, FgetsHolds DEF b1
  <2>2. DOMAIN free = 0 .. BUF_LEN /\ Holds(free, lines[2])
    <3>1. Len(lines[2]) \in Nat /\ Len(lines[2]) < BUF_LEN
      BY <1>4
    <3>2. Len(lines) \in Nat /\ 2 \in Nat /\ 2 <= Len(lines) /\ DOMAIN b1 = 0 .. BUF_LEN
      BY <1>2, <2>1
    <3> QED  BY ONLY <3>1, <3>2, FgetsHolds DEF free
  <2>3. DOMAIN b3 = 0 .. BUF_LEN
    BY <1>2, <2>2, FgetsHolds DEF b3
  <2>4. DOMAIN buffers = 0 .. BUF_LEN /\ Holds(buffers, lines[4])
    <3>1. Len(lines[4]) \in Nat /\ Len(lines[4]) < BUF_LEN
      BY <1>4
    <3>2. Len(lines) \in Nat /\ 4 \in Nat /\ 4 <= Len(lines) /\ DOMAIN b3 = 0 .. BUF_LEN
      BY <1>2, <2>3
    <3> QED  BY ONLY <3>1, <3>2, FgetsHolds DEF buffers
  <2>5. Holds(cached, lines[5])
    <3>1. Len(lines[5]) \in Nat /\ Len(lines[5]) < BUF_LEN
      BY <1>4
    <3>2. Len(lines) \in Nat /\ 5 \in Nat /\ 5 <= Len(lines) /\ DOMAIN buffers = 0 .. BUF_LEN
      BY <1>2, <2>4
    <3> QED  BY ONLY <3>1, <3>2, FgetsHolds DEF cached
  <2> QED  BY <2>1, <2>2, <2>3, <2>4, <2>5
<1> HIDE DEF number
<1>6. ASSUME NEW n \in {2, 4, 5}, NEW buf, Holds(buf, lines[n])
      PROVE  number(buf) = file[n]
  <2>1. file[n] \in Number
    BY <1>4
  <2>2. Holds(buf, MemLine(file[n])) /\ Len(MemLine(file[n])) < BUF_LEN
    BY <1>4, <1>6
  <2> QED  BY <2>1, <2>2, MemNumber DEF number
<1>7. /\ number(free) = file[2] /\ number(buffers) = file[4]
      /\ number(cached) = file[5]
  <2>1. 2 \in {2, 4, 5} /\ 4 \in {2, 4, 5} /\ 5 \in {2, 4, 5}
    OBVIOUS
  <2> QED  BY <1>5, <1>6, <2>1
<1> QED  BY <1>3, <1>7 DEF lines

(* What the three readers find in the state.                               *)
LEMMA Answered ==
  ASSUME TypeOK, GenEthInfo, netDev # <<>>
  PROVE  /\ RecordData(netDevLines, request.ID)
              = netDev[IF request.ID = 1 /\ Len(netDev) > 1 THEN 2 ELSE 1]
         /\ RecordData(netDevLines, request.ID) \in Interfaces
<1>1. request.ID \in {0, 1} /\ netDev \in Seq(Interfaces) \ {<<>>}
  BY DEF GenEthInfo, EthRequests, TypeOK
<1>2. RecordData(netDevLines, request.ID)
        = netDev[IF request.ID = 1 /\ Len(netDev) > 1 THEN 2 ELSE 1]
  BY <1>1, RecordDataExact DEF netDevLines
<1>3. netDev[IF request.ID = 1 /\ Len(netDev) > 1 THEN 2 ELSE 1] \in Interfaces
  BY <1>1
<1> QED  BY <1>2, <1>3

(* SetCPUTime finds the times of /proc/stat.                                *)
LEMMA StatAnswered ==
  ASSUME TypeOK, stat # <<>>
  PROVE  CPUTime(statLines) = stat /\ stat \in CpuLines
<1>1. stat \in CpuLines
  BY DEF TypeOK
<1> QED  BY <1>1, CPUTimeExact DEF statLines

(* SetFreeMem finds the three numbers of /proc/meminfo.                     *)
LEMMA MemAnswered ==
  ASSUME TypeOK, memInfo # <<>>
  PROVE  FreeMem(memInfoLines) = <<memInfo[2], memInfo[4], memInfo[5]>>
<1>1. memInfo \in MemFiles
  BY DEF TypeOK
<1> QED  BY <1>1, FreeMemExact DEF memInfoLines

-----------------------------------------------------------------------------
(* What a request is answered from does not change; what it is answered    *)
(* with is what was read.                                                  *)
LEMMA TypeInit == Init => TypeOK
<1> SUFFICES ASSUME Init  PROVE TypeOK
  OBVIOUS
<1>1. 0 \in Byte /\ <<0, 0>> \in Word
  BY CipherAssumption DEF Byte, Word
<1>2. [k \in 0 .. TOKEN_LEN - 1 |-> 0] \in Array(TOKEN_LEN)
  BY <1>1 DEF Array
<1>3. iden \in [mainVersion : Word, subVersion1 : Byte, subVersion2 : Byte,
                token : Array(TOKEN_LEN), randomNum : Word]
  BY <1>1, <1>2 DEF Init
<1>4. netDev \in Seq(Interfaces)
  <2>1. \/ netDev = <<>>
        \/ netDev \in [1 .. 1 -> Interfaces] \/ netDev \in [1 .. 2 -> Interfaces]
    BY DEF Init
  <2>2. \A c \in Nat : [1 .. c -> Interfaces] \subseteq Seq(Interfaces)
    OBVIOUS
  <2>3. 1 \in Nat /\ 2 \in Nat /\ <<>> \in Seq(Interfaces)
    OBVIOUS
  <2> QED  BY ONLY <2>1, <2>2, <2>3, Zenon
<1>5. stat \in CpuLines \cup {<<>>} /\ memInfo \in MemFiles \cup {<<>>}
  BY DEF Init
<1>6. request \in Requests /\ outcome \in Outcomes
  BY DEF Init, Outcomes
<1> QED  BY <1>3, <1>4, <1>5, <1>6 DEF TypeOK

(* Every action keeps the types; what is read is what the file has.         *)
LEMMA TypeNext == TypeOK /\ [Next]_vars => TypeOK'
<1> SUFFICES ASSUME TypeOK, [Next]_vars  PROVE TypeOK'
  OBVIOUS
<1>1. ASSUME UNCHANGED <<request, host, iden>>, outcome' \in Outcomes
      PROVE  TypeOK'
  BY <1>1 DEF TypeOK, host
<1>2. CASE Convert
  <2>1. request \in IdentifyRequests
    BY <1>2 DEF Convert, AsksIdentify
  <2>2. \A w \in Word : Swap(w) \in Word
    BY DEF Word, Swap
  <2>3. /\ request.mainVersion \in Word /\ request.randomNum \in Word
        /\ request.subVersion1 \in Byte /\ request.subVersion2 \in Byte
        /\ request.token \in Array(TOKEN_LEN)
    BY <2>1, AnswerAssumption DEF IdentifyRequests
  <2>4. iden' = [mainVersion |-> Swap(request.mainVersion),
                 subVersion1 |-> request.subVersion1,
                 subVersion2 |-> request.subVersion2,
                 token |-> request.token, randomNum |-> Swap(request.randomNum)]
    BY <1>2, <2>1 DEF Convert, IdenN2H, IdentifyRequests
  <2>5. iden' \in [mainVersion : Word, subVersion1 : Byte, subVersion2 : Byte,
                   token : Array(TOKEN_LEN), randomNum : Word]
    BY <2>2, <2>3, <2>4
  <2>6. outcome' \in Outcomes
    BY <1>2 DEF Convert, Outcomes
  <2> QED  BY <1>2, <2>5, <2>6 DEF Convert, TypeOK, host
<1>3. CASE GenMinVer
  BY <1>1, <1>3 DEF GenMinVer, Pending, Outcomes
<1>4. CASE OutOfDate
  BY <1>1, <1>4 DEF OutOfDate, Pending, Outcomes
<1>5. CASE Refuse
  BY <1>1, <1>5 DEF Refuse, Pending, Outcomes
<1>6. CASE GenIdentify
  <2>1. PICK fields \in Fields, n \in RandomNums :
          outcome' = [kind      |-> "IDENTIFY",
                      plain     |-> Plain(fields),
                      body      |-> Covered(Plain(fields), HostValue(n)),
                      randomNum |-> Swap(n)]
    BY <1>6 DEF GenIdentify
  <2>2. n \in Word /\ HostValue(n) \in Nat
    <3>1. n \in Word
      BY AnswerAssumption
    <3>2. n[1] \in Nat /\ n[2] \in Nat /\ BASE \in Nat
      BY <3>1, CipherAssumption DEF Word, Byte
    <3>3. n[2] * BASE \in Nat
      BY <3>2
    <3> QED  BY <3>1, <3>2, <3>3 DEF HostValue
  <2>3. Swap(n) \in Word
    BY <2>2 DEF Word, Swap
  <2>4. Plain(fields) \in Array(BODY_LEN)
    BY PlainTyped
  <2>5. Covered(Plain(fields), HostValue(n)) \in Array(BODY_LEN)
    <3>1. \A k \in 0 .. BODY_LEN - 1 : Plain(fields)[k] \in Byte /\ k \in Nat
      BY <2>4 DEF Array
    <3>2. \A k \in 0 .. BODY_LEN - 1 :
            ByteXor(Plain(fields)[k], Key(HostValue(n), k)) \in Byte
      BY <2>2, <3>1, ByteTwice
    <3>3. DOMAIN Plain(fields) = 0 .. BODY_LEN - 1
      BY <2>4 DEF Array
    <3> QED  BY <3>2, <3>3 DEF Covered, Array
  <2>6. outcome' \in [kind : {"IDENTIFY"}, plain : Array(BODY_LEN),
                      body : Array(BODY_LEN), randomNum : Word]
    BY <2>1, <2>3, <2>4, <2>5
  <2> QED  BY <1>1, <1>6, <2>6 DEF GenIdentify, Pending, Outcomes
<1>7. CASE GenEthInfo
  <2>1. netDev # <<>> => RecordData(netDevLines, request.ID) \in Interfaces
    BY <1>7, Answered
  <2>2. Interfaces \subseteq [1 .. Numbers -> Number]
    BY AnswerAssumption
  <2>3. outcome' \in [kind : {"ETHINFO"},
                      numbers : [1 .. Numbers -> Number] \cup {Garbage}]
    BY <1>7, <2>1, <2>2 DEF GenEthInfo
  <2> QED  BY <1>1, <1>7, <2>3 DEF GenEthInfo, Pending, Outcomes
<1>8. CASE GenSysInfo
  <2>1. (IF stat = <<>> THEN Garbage ELSE CPUTime(statLines))
          \in [1 .. 4 -> Number] \cup {Garbage}
    BY StatAnswered, AnswerAssumption DEF TypeOK
  <2>2. (IF memInfo = <<>> THEN Garbage ELSE FreeMem(memInfoLines))
          \in [1 .. 3 -> Number] \cup {Garbage}
    <3>1. CASE memInfo = <<>>
      BY <3>1
    <3>2. CASE memInfo # <<>>
      <4>1. memInfo \in [1 .. 5 -> Number]
        BY <3>2, AnswerAssumption DEF TypeOK
      <4>2. /\ memInfo[2] \in Number /\ memInfo[4] \in Number
            /\ memInfo[5] \in Number
        BY <4>1
      <4>3. FreeMem(memInfoLines) = <<memInfo[2], memInfo[4], memInfo[5]>>
        BY <3>2, MemAnswered
      <4> QED  BY <3>2, <4>2, <4>3
    <3> QED  BY <3>1, <3>2
  <2>3. outcome' \in [kind : {"SYSINFO"},
                      CPUTime : [1 .. 4 -> Number] \cup {Garbage},
                      freedMem : [1 .. 3 -> Number] \cup {Garbage}]
    BY <1>8, <2>1, <2>2 DEF GenSysInfo
  <2> QED  BY <1>1, <1>8, <2>3 DEF GenSysInfo, Pending, Outcomes
<1>9. CASE UNCHANGED vars
  BY <1>9 DEF vars, host, TypeOK
<1> QED  BY <1>2, <1>3, <1>4, <1>5, <1>6, <1>7, <1>8, <1>9 DEF Next, Terminated

(* The type invariant. *)
THEOREM AnswerTypeOK == Spec => []TypeOK
BY TypeInit, TypeNext, PTL DEF Spec

(* No action but GenEthInfo and GenSysInfo makes such an answer.            *)
LEMMA CountersNext ==
  TypeOK /\ CountersOfInterface /\ SysInfoFromProc /\ [Next]_vars
    => CountersOfInterface' /\ SysInfoFromProc'
<1> SUFFICES ASSUME TypeOK, CountersOfInterface, SysInfoFromProc, [Next]_vars
             PROVE  CountersOfInterface' /\ SysInfoFromProc'
  OBVIOUS
<1>1. CASE Convert \/ GenMinVer \/ OutOfDate \/ Refuse \/ GenIdentify
  <2>1. outcome'.kind \in {"converted", "MINVERREQ", "outOfDate", "illegal", "IDENTIFY"}
    BY <1>1 DEF Convert, GenMinVer, OutOfDate, Refuse, GenIdentify
  <2> QED  BY <2>1 DEF CountersOfInterface, SysInfoFromProc
<1>2. CASE GenEthInfo
  <2>1. netDev # <<>> =>
          RecordData(netDevLines, request.ID)
            = netDev[IF request.ID = 1 /\ Len(netDev) > 1 THEN 2 ELSE 1]
    BY <1>2, Answered
  <2> QED
    BY <1>2, <2>1 DEF GenEthInfo, Pending, host, CountersOfInterface, SysInfoFromProc
<1>3. CASE GenSysInfo
  BY <1>3, StatAnswered, MemAnswered
     DEF GenSysInfo, Pending, host, CountersOfInterface, SysInfoFromProc
<1>4. CASE UNCHANGED vars
  BY <1>4 DEF vars, host, CountersOfInterface, SysInfoFromProc
<1> QED  BY <1>1, <1>2, <1>3, <1>4 DEF Next, Terminated

(* Both answers, in every state.                                            *)
LEMMA CountersAlways == Spec => [](CountersOfInterface /\ SysInfoFromProc)
<1>1. Init => CountersOfInterface /\ SysInfoFromProc
  BY DEF Init, CountersOfInterface, SysInfoFromProc
<1> QED  BY <1>1, AnswerTypeOK, CountersNext, PTL DEF Spec

(* An ETHINFO answer has the numbers of the interface asked for, whatever  *)
(* their widths are, when /proc/net/dev was opened (SetRecordData).        *)
THEOREM CountersOfInterfaceAlways == Spec => []CountersOfInterface
BY CountersAlways, PTL

(* A SYSINFO answer has what /proc/stat and /proc/meminfo have, whatever   *)
(* the widths are (SetCPUTime, SetFreeMem).                                *)
THEOREM SysInfoFromProcAlways == Spec => []SysInfoFromProc
BY CountersAlways, PTL
=============================================================================
