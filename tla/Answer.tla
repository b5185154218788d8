-------------------------------- MODULE Answer --------------------------------
(***************************************************************************)
(* What the client makes of the data of a request: IDENTIFY, and SYSINFO   *)
(* and ETHINFO, whose answers depend on /proc. Numbers of more than one    *)
(* byte arrive in network order and are used in the order of the host; a   *)
(* u_int has two bytes here, like a u_short.                               *)
(***************************************************************************)
EXTENDS Cipher, Counters

CONSTANTS
  MinVersion,   \* MAIN_VERSION_MIN, SUB_VERSION_1_MIN, SUB_VERSION_2_MIN
  MainVersions, \* what an IDENTIFY may have in its fields, a part of Word
  SubVersions,
  RandomNums,   \* what the server or rand() may draw, a part of Word
  Fields,       \* the fields of a CS_Identify before its token
  FIELDS_LEN,
  Interfaces,   \* the lines of /proc/net/dev, as their numbers
  CpuLines,     \* the first line of /proc/stat, as its numbers
  MemFiles      \* /proc/meminfo, as the numbers of its lines

Word == Byte \X Byte

(* A number, or token, of an interface: the digits of it.                  *)
Number == Seq(Digits) \ {<<>>}

ASSUME AnswerAssumption ==
  /\ MinVersion \in Nat \X Nat \X Nat
  /\ MainVersions \subseteq Word
  /\ SubVersions \subseteq Byte
  /\ RandomNums \subseteq Word
  /\ FIELDS_LEN \in Nat
  /\ Fields \subseteq Array(FIELDS_LEN)
  /\ Interfaces \subseteq [1 .. Numbers -> Number]
  /\ CpuLines \subseteq [1 .. 4 -> Number]
  /\ MemFiles \subseteq [1 .. 5 -> Number]

VARIABLES
  request,  \* as it arrived
  netDev,   \* the interfaces of the host, in the order of /proc/net/dev,
  stat,     \* /proc/stat, and
  memInfo,  \* /proc/meminfo; each is <<>> when it cannot be opened
  iden,     \* sc_iden
  outcome   \* what the client has done with the request

host == <<netDev, stat, memInfo>>
vars == <<request, host, iden, outcome>>

IdentifyRequests ==
  [mainVersion : MainVersions, subVersion1 : SubVersions,
   subVersion2 : SubVersions, token : Array(TOKEN_LEN), randomNum : RandomNums]

EthRequests == [ID : {0, 1}]

SysRequests == [SYSINFO : {TRUE}]

Requests == IdentifyRequests \cup EthRequests \cup SysRequests

AsksIdentify == request \in IdentifyRequests

BODY_LEN == FIELDS_LEN + TOKEN_LEN

(* What malloc() left in the fields of a package.                          *)
Garbage == <<"garbage">>

Outcomes ==
  [kind : {"received", "converted", "MINVERREQ", "outOfDate", "illegal"}]
    \cup [kind : {"IDENTIFY"}, plain : Array(BODY_LEN), body : Array(BODY_LEN),
          randomNum : Word]
    \cup [kind : {"ETHINFO"}, numbers : [1 .. Numbers -> Number] \cup {Garbage}]
    \cup [kind : {"SYSINFO"},
          CPUTime : [1 .. 4 -> Number] \cup {Garbage},
          freedMem : [1 .. 3 -> Number] \cup {Garbage}]

Decided == outcome.kind \notin {"received", "converted"}

TypeOK ==
  /\ request \in Requests
  /\ netDev \in Seq(Interfaces)
  /\ stat \in CpuLines \cup {<<>>}
  /\ memInfo \in MemFiles \cup {<<>>}
  /\ iden \in [mainVersion : Word, subVersion1 : Byte, subVersion2 : Byte,
               token : Array(TOKEN_LEN), randomNum : Word]
  /\ outcome \in Outcomes

-----------------------------------------------------------------------------
(* Numbers in memory: of the host (little-endian), and as the network has  *)
(* them.                                                                   *)
HostValue(w) == w[2] * BASE + w[1]
NetValue(w) == w[1] * BASE + w[2]

Swap(w) == <<w[2], w[1]>>  \* ntohs(), ntohl(), htonl()

(* Mutated form; no specification uses it: the version is left as it came. *)
IdenN2HNoVersion(r) == [r EXCEPT !.randomNum = Swap(@)]

IdenN2H(r) == [r EXCEPT !.mainVersion = Swap(@), !.randomNum = Swap(@)]

(* Mutated form; no specification uses it: a newer main version with an    *)
(* older sub version counts as old.                                        *)
IsOldVersionBySub(mainVer, subVer1, subVer2) ==
  \/ mainVer < MinVersion[1]
  \/ subVer1 < MinVersion[2]
  \/ mainVer = MinVersion[1] /\ subVer1 = MinVersion[2] /\ subVer2 < MinVersion[3]

IsOldVersion(mainVer, subVer1, subVer2) ==
  \/ mainVer < MinVersion[1]
  \/ mainVer = MinVersion[1] /\ subVer1 < MinVersion[2]
  \/ mainVer = MinVersion[1] /\ subVer1 = MinVersion[2] /\ subVer2 < MinVersion[3]

-----------------------------------------------------------------------------
(* A number in a column of two, which a longer one makes wider.            *)
Column(number) ==
  IF Len(number) < 2 THEN <<"other">> \o number ELSE number

(* A line: what it begins with, and the numbers in their columns.          *)
Line(name, numbers) ==
  LET text[n \in 0 .. Len(numbers)] ==
        IF n = 0 THEN name
                 ELSE text[n - 1] \o Column(numbers[n]) \o <<"other">>
  IN  text[Len(numbers)]

(* Of an interface: with a digit in it, and a colon behind it.             *)
InterfaceName == <<"other", CHOOSE d \in Digits : TRUE, ":">>

(* Fgets reads whole lines: the ones of /proc fit the buffers.             *)
ASSUME LinesFit ==
  /\ \A numbers \in Interfaces : Len(Line(InterfaceName, numbers)) < BUF_LEN
  /\ \A numbers \in CpuLines : Len(Line(<<"other">>, numbers)) < BUF_LEN
  /\ \A numbers \in MemFiles : \A n \in 1 .. 5 :
       Len(Line(<<"other", ":">>, <<numbers[n]>>)) < BUF_LEN

(* /proc/net/dev: two lines of headings; then a line for each interface,   *)
(* with its name and the numbers.                                          *)
netDevLines ==
  <<<<"other">>, <<"other">>>> \o
    [n \in DOMAIN netDev |-> Line(InterfaceName, netDev[n])]

(* /proc/stat begins with the times of all CPUs together; /proc/meminfo    *)
(* has total, free and available memory, buffers and cache, each with its  *)
(* name before and its unit behind it.                                     *)
statLines == <<Line(<<"other">>, stat)>>
memInfoLines ==
  [n \in DOMAIN memInfo |-> Line(<<"other", ":">>, <<memInfo[n]>>)]

-----------------------------------------------------------------------------
(* What a request is not answered from does not vary with it.              *)
Init ==
  /\ request \in Requests
  /\ netDev \in {<<>>} \cup
       (IF request \in EthRequests
        THEN [1 .. 1 -> Interfaces] \cup [1 .. 2 -> Interfaces] ELSE {})
  /\ stat \in {<<>>} \cup (IF request \in SysRequests THEN CpuLines ELSE {})
  /\ memInfo \in {<<>>} \cup (IF request \in SysRequests THEN MemFiles ELSE {})
  /\ iden = [mainVersion |-> <<0, 0>>, subVersion1 |-> 0, subVersion2 |-> 0,
             token |-> [k \in 0 .. TOKEN_LEN - 1 |-> 0], randomNum |-> <<0, 0>>]
  /\ outcome = [kind |-> "received"]

Convert ==
  /\ AsksIdentify
  /\ outcome.kind = "received"
  /\ iden' = IdenN2H(request)
  /\ outcome' = [kind |-> "converted"]
  /\ UNCHANGED <<request, host>>

Pending ==
  /\ outcome.kind = IF AsksIdentify THEN "converted" ELSE "received"
  /\ UNCHANGED <<request, host, iden>>

OldVersion == IsOldVersion(HostValue(iden.mainVersion), iden.subVersion1, iden.subVersion2)

GenMinVer ==
  /\ AsksIdentify /\ OldVersion
  /\ Pending
  /\ outcome' = [kind |-> "MINVERREQ"]

(* OutOfDate may find any time in svrTime: it reads eight bytes of four.   *)
OutOfDate ==
  /\ AsksIdentify /\ ~OldVersion
  /\ Pending
  /\ outcome' = [kind |-> "outOfDate"]

Genuine == Identify(iden.token, HostValue(iden.randomNum))

Refuse ==
  /\ AsksIdentify /\ ~OldVersion /\ ~Genuine
  /\ Pending
  /\ outcome' = [kind |-> "illegal"]

(* The fields, with the plain text for a token.                            *)
Plain(fields) ==
  [k \in 0 .. BODY_LEN - 1 |->
     IF k < FIELDS_LEN THEN fields[k] ELSE plainText[k - FIELDS_LEN]]

GenIdentify ==
  /\ AsksIdentify /\ ~OldVersion /\ Genuine
  /\ Pending
  /\ \E fields \in Fields, n \in RandomNums :
       outcome' = [kind      |-> "IDENTIFY",
                   plain     |-> Plain(fields),
                   body      |-> Covered(Plain(fields), HostValue(n)),
                   randomNum |-> Swap(n)]

(* Mutated form; no specification uses it: without its file SetRecordData  *)
(* goes on with its empty buffer.                                          *)
GenEthInfoEmpty ==
  /\ ~AsksIdentify /\ request \in EthRequests
  /\ Pending
  /\ outcome' =
       [kind    |-> "ETHINFO",
        numbers |-> IF netDev = <<>> THEN [n \in 1 .. Numbers |-> <<>>]
                                     ELSE RecordData(netDevLines, request.ID)]

(* SetRecordData returns when it cannot open its file, and so do           *)
(* SetCPUTime and SetFreeMem below; what they return is not looked at, and *)
(* the package is sent as it is.                                           *)
GenEthInfo ==
  /\ ~AsksIdentify /\ request \in EthRequests
  /\ Pending
  /\ outcome' =
       [kind    |-> "ETHINFO",
        numbers |-> IF netDev = <<>> THEN Garbage
                                     ELSE RecordData(netDevLines, request.ID)]

GenSysInfo ==
  /\ ~AsksIdentify /\ request \in SysRequests
  /\ Pending
  /\ outcome' =
       [kind     |-> "SYSINFO",
        CPUTime  |-> IF stat = <<>> THEN Garbage ELSE CPUTime(statLines),
        freedMem |-> IF memInfo = <<>> THEN Garbage ELSE FreeMem(memInfoLines)]

(* The client forgets the request: nothing of it is used for the next one. *)
Terminated == Decided /\ UNCHANGED vars

Next ==
  \/ Convert
  \/ GenMinVer \/ OutOfDate \/ Refuse \/ GenIdentify
  \/ GenEthInfo \/ GenSysInfo
  \/ Terminated

Spec == Init /\ [][Next]_vars

-----------------------------------------------------------------------------
(* Properties *)

(* A minimum version package answers exactly the servers whose version,    *)
(* read as the network has it, comes before the minimum in the order of    *)
(* versions, most significant part first (mProtocol.c:88-101, 140-149).    *)
VersionVerdict ==
  LET version == <<NetValue(request.mainVersion), request.subVersion1,
                   request.subVersion2>>
  IN  AsksIdentify /\ Decided =>
        (outcome.kind = "MINVERREQ" <=>
           \E n \in 1 .. 3 :
             /\ version[n] < MinVersion[n]
             /\ \A m \in 1 .. n - 1 : version[m] = MinVersion[m])

(* The client goes on exactly with a server that made its token from the   *)
(* plain text and the random number it sent, wherever in the table that    *)
(* number points (mProtocol.c:152-167).                                    *)
TokenVerdict ==
  LET right == request.token = Encrypted(plainText, NetValue(request.randomNum))
  IN  AsksIdentify =>
        /\ outcome.kind = "IDENTIFY" => right
        /\ outcome.kind = "illegal" => ~right

(* With the random number of the answer the server gets back every field   *)
(* and the token of it (mProtocol.c:217-226), the ones whose place in the  *)
(* table is behind its end included.                                       *)
ServerReadsBack ==
  outcome.kind = "IDENTIFY" =>
    Encrypted(outcome.body, NetValue(outcome.randomNum)) = outcome.plain

(* An ETHINFO answer has the numbers of the interface asked for, however   *)
(* wide they and those of the other one are; those of the first one when   *)
(* there is no second, as fgets() leaves its line (mProtocol.c:433-435);   *)
(* and uninitialised ones when /proc/net/dev cannot be opened              *)
(* (mProtocol.c:421-424, 514).                                             *)
CountersOfInterface ==
  outcome.kind = "ETHINFO" =>
    outcome.numbers =
      IF netDev = <<>> THEN Garbage
      ELSE netDev[IF request.ID = 1 /\ Len(netDev) > 1 THEN 2 ELSE 1]

(* A SYSINFO answer has the times of the first line of /proc/stat and the  *)
(* free memory, buffers and cache of /proc/meminfo, however wide the       *)
(* numbers of the lines before are; a file that cannot be opened leaves    *)
(* its field uninitialised, and only its (mProtocol.c:249-251, 279-281).   *)
SysInfoFromProc ==
  outcome.kind = "SYSINFO" =>
    /\ outcome.CPUTime = IF stat = <<>> THEN Garbage ELSE stat
    /\ outcome.freedMem =
         IF memInfo = <<>> THEN Garbage
         ELSE <<memInfo[2], memInfo[4], memInfo[5]>>
=============================================================================
