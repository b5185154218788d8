--------------------------- MODULE TerminalsProofs ---------------------------
(***************************************************************************)
(* The numbers of terminals and screens are right for every table of legal *)
(* ranges that satisfies the assumptions of Terminals.tla, those of the    *)
(* source among them, and for every content of ts.conf. The marks are the  *)
(* first positions of their array because SetTerminal draws from as many   *)
(* positions as it sets: a subset of 0 .. n-1 with n elements is all of it.*)
(***************************************************************************)
EXTENDS Terminals, FiniteSetTheorems, TLAPS

(* The numbers GenTermInfo drew, from the draw of the total on. *)
DrawInv ==
  /\ asyncTermNum <= ASYNC_NUM
  /\ asyncTermNum <= total
  /\ total <= Hi["termNumMax"]
  /\ xls_termNum = total

(* What SetTerminal has marked so far, and when it is done. *)
MarkInv ==
  /\ vTermUsed \subseteq 0 .. asyncTermNum - 1
  /\ ipTermUsed \subseteq 0 .. ipTermNum - 1
  /\ pc \in {"setIp", "termNum"} => vTermUsed = 0 .. asyncTermNum - 1
  /\ pc = "termNum" => ipTermUsed = 0 .. ipTermNum - 1

(* A package that is complete. *)
PackageInv ==
  pc = "ready" /\ termNum # 0 =>
    /\ vTermUsed = 0 .. asyncTermNum - 1
    /\ ipTermUsed = 0 .. ipTermNum - 1
    /\ total <= termNum
    /\ termNum < TermCap

IInv ==
  /\ TypeOK
  /\ ConfigInRange
  /\ TotalInConfig
  /\ DrawInv
  /\ MarkInv
  /\ PackageInv
  /\ pc = "parse" => screenNum = 0 /\ termNum = 0
  /\ ScreensInRange
  /\ CrashNeedsEqualBounds

-----------------------------------------------------------------------------
(* A set of positions below n that has n elements is all of them.          *)
LEMMA PrefixFull ==
  ASSUME NEW n \in Nat, NEW S, S \subseteq 0 .. n - 1, Cardinality(S) >= n
  PROVE  S = 0 .. n - 1
<1>1. IsFiniteSet(0 .. n - 1) /\ Cardinality(0 .. n - 1) = n
  <2>1. 0 \in Int /\ n - 1 \in Int
    OBVIOUS
  <2>2. /\ IsFiniteSet(0 .. n - 1)
        /\ Cardinality(0 .. n - 1) = IF 0 > n - 1 THEN 0 ELSE n - 1 - 0 + 1
    BY <2>1, FS_Interval
  <2> QED
    BY <2>2
<1>2. IsFiniteSet(S) /\ Cardinality(S) <= n /\ (Cardinality(S) = n => S = 0 .. n - 1)
  <2>1. S \in SUBSET (0 .. n - 1)
    OBVIOUS
  <2> QED
    BY <1>1, <2>1, FS_Subset
<1>3. Cardinality(S) \in Nat
  BY <1>2, FS_CardinalityType
<1> QED
  BY <1>2, <1>3

(* The fields of configFile are numbers, the positions are those below     *)
(* what the largest total allows.                                          *)
LEMMA RangeFacts ==
  /\ \A key \in Keys : Lo[key] \in Nat \ {0} /\ Hi[key] \in Nat
  /\ \A key \in Keys : Default[key] \in Lo[key] .. Hi[key]
  /\ {"termNumMin", "termNumMax", "vScrNumMin", "vScrNumMax"} = Keys
  BY RangeAssumption DEF Keys

(* The initial states satisfy the inductive invariant.                     *)
LEMMA InitIInv == Init => IInv
<1> SUFFICES ASSUME Init PROVE IInv
  OBVIOUS
<1> USE DEF Init
<1>1. cfg \in [Keys -> Int] /\ lines \in 0 .. MaxLines
  <2>1. cfg \in [Keys -> Int]
    BY InputAssumption
  <2>2. lines \in 0 .. MaxLines
    BY InputAssumption
  <2> QED
    BY <2>1, <2>2
<1>2. TypeOK
  <2>1. total \in Nat /\ asyncTermNum \in Nat /\ termNum \in Nat
          /\ xls_termNum \in Nat /\ screenNum \in Nat /\ actVScr \in Nat
    OBVIOUS
  <2>2. cfgFlag \subseteq Keys /\ vTermUsed = {} /\ ipTermUsed = {}
          /\ screenIDs \in [0 .. screenNum - 1 -> Nat]
    OBVIOUS
  <2> QED
    BY <1>1, <2>1, <2>2 DEF TypeOK
<1>3. DrawInv
  BY RangeFacts, SizeAssumption DEF DrawInv
<1>4. ConfigInRange /\ TotalInConfig /\ MarkInv /\ PackageInv
  BY DEF ConfigInRange, TotalInConfig, MarkInv, PackageInv
<1>5. ScreensInRange /\ CrashNeedsEqualBounds
  BY DEF ScreensInRange, CrashNeedsEqualBounds
<1> QED
  BY <1>2, <1>3, <1>4, <1>5 DEF IInv

-----------------------------------------------------------------------------
(* ConfigParse leaves every field in its range: a value that is not        *)
(* accepted is replaced by the default, which is in the range.             *)
LEMMA ConfigIInv == IInv /\ (ParseLine \/ EndOfConfig) => IInv'
<1> SUFFICES ASSUME IInv, ParseLine \/ EndOfConfig PROVE IInv'
  OBVIOUS
<1> USE DEF IInv
<1>1. pc = "parse" /\ UNCHANGED <<terms, screens>>
        /\ screenNum = 0 /\ termNum = 0
  BY DEF ParseLine, EndOfConfig
<1>2. pc' \in {"parse", "ready"}
  BY DEF ParseLine, EndOfConfig
<1>3. /\ cfg' \in [Keys -> Int]
      /\ pc' # "parse" => \A key \in Keys : cfg'[key] \in Lo[key] .. Hi[key]
  <2>1. CASE ParseLine
    BY <1>1, <2>1, InputAssumption DEF ParseLine, TypeOK
  <2>2. CASE EndOfConfig
    BY <2>2, RangeFacts DEF EndOfConfig, Accepted, TypeOK
  <2> QED
    BY <2>1, <2>2
<1>4. cfgFlag' \subseteq Keys /\ lines' \in 0 .. MaxLines
  BY InputAssumption DEF ParseLine, EndOfConfig, TypeOK
<1>5. TypeOK'
  BY <1>1, <1>2, <1>3, <1>4 DEF TypeOK, terms, screens
<1>6. ConfigInRange' /\ TotalInConfig' /\ CrashNeedsEqualBounds'
  BY <1>2, <1>3 DEF ConfigInRange, TotalInConfig, CrashNeedsEqualBounds
<1>7. DrawInv' /\ MarkInv'
  BY <1>1, <1>2 DEF DrawInv, MarkInv, terms, ipTermNum
<1>8. ScreensInRange' /\ screenNum' = 0 /\ termNum' = 0
  BY <1>1 DEF ScreensInRange, screens, terms
<1>9. PackageInv'
  BY <1>1, <1>2 DEF PackageInv, terms
<1> QED
  BY <1>5, <1>6, <1>7, <1>8, <1>9

(* The total is drawn below the largest legal one, and raising it to the   *)
(* number of dumb terminals does not change that.                          *)
LEMMA DrawTotalIInv == IInv /\ DrawTotal => IInv'
<1> SUFFICES ASSUME IInv, DrawTotal PROVE IInv'
  OBVIOUS
<1> USE DEF IInv
<1> DEFINE min == cfg["termNumMin"]
           max == cfg["termNumMax"]
<1>1. /\ pc = "ready" /\ UNCHANGED <<cfg, cfgFlag, lines, screenNum, actVScr, screenIDs>>
  BY DEF DrawTotal, parsing, screens
<1>2. /\ min \in Lo["termNumMin"] .. Hi["termNumMin"]
      /\ max \in Lo["termNumMax"] .. Hi["termNumMax"]
  BY <1>1 DEF ConfigInRange, Keys
<1>3. /\ Lo["termNumMin"] \in Nat \ {0} /\ Hi["termNumMin"] \in Nat
      /\ Lo["termNumMax"] \in Nat \ {0} /\ Hi["termNumMax"] \in Nat
      /\ Hi["termNumMin"] <= Lo["termNumMax"]
  BY RangeAssumption DEF Keys
<1>4. ConfigInRange' /\ ScreensInRange'
  BY <1>1 DEF ConfigInRange, ScreensInRange
<1>5. CASE pc' = "sigfpe"
  <2>1. max = min /\ UNCHANGED terms
    BY <1>5 DEF DrawTotal
  <2>2. TypeOK'
    BY <1>1, <1>5, <2>1 DEF TypeOK, terms
  <2>3. TotalInConfig' /\ DrawInv' /\ MarkInv' /\ PackageInv'
    BY <1>5, <2>1
    DEF TotalInConfig, DrawInv, MarkInv, PackageInv, terms, ipTermNum
  <2>4. CrashNeedsEqualBounds'
    BY <1>1, <1>2, <1>3, <2>1 DEF CrashNeedsEqualBounds
  <2> QED
    BY <1>4, <1>5, <2>2, <2>3, <2>4
<1>6. CASE pc' # "sigfpe"
  <2>1. PICK drawn \in min .. max - 1, async \in 1 .. ASYNC_NUM :
          /\ asyncTermNum' = async
          /\ total' = (IF drawn > async THEN drawn ELSE async)
          /\ xls_termNum' = total'
    BY <1>6 DEF DrawTotal, Drawn, TotalOf, Larger
  <2>2. pc' = "setV" /\ vTermUsed' = {} /\ ipTermUsed' = {} /\ termNum' = 0
    BY <1>6 DEF DrawTotal
  <2>3. /\ total' \in min .. max - 1 /\ total' >= async
        /\ total' \in Nat /\ async \in Nat
    BY <1>2, <1>3, <2>1, SizeAssumption
  <2>4. TypeOK'
    <3>1. total' \in Nat /\ asyncTermNum' \in Nat /\ xls_termNum' \in Nat
            /\ termNum' \in Nat
      BY <2>1, <2>2, <2>3
    <3> QED
      BY <1>1, <2>2, <3>1 DEF TypeOK
  <2>5. TotalInConfig' /\ CrashNeedsEqualBounds'
    BY <1>1, <2>2, <2>3 DEF TotalInConfig, CrashNeedsEqualBounds
  <2>6. DrawInv'
    BY <1>2, <1>3, <2>1, <2>3, SizeAssumption DEF DrawInv
  <2>7. MarkInv' /\ PackageInv'
    BY <2>2 DEF MarkInv, PackageInv
  <2> QED
    BY <1>4, <2>2, <2>4, <2>5, <2>6, <2>7
<1> QED
  BY <1>5, <1>6

(* SetTerminal marks one of the first numOf1 positions, until it has all.  *)
LEMMA MarkIInv ==
  ASSUME IInv, NEW pos \in Positions, MarkV(pos) \/ MarkIp(pos)
  PROVE  IInv'
<1> USE DEF IInv
<1>1. /\ pc \in {"setV", "setIp"} /\ pc' = pc
      /\ UNCHANGED <<cfg, cfgFlag, lines, total, asyncTermNum, termNum,
                     xls_termNum, screenNum, actVScr, screenIDs>>
  BY DEF MarkV, MarkIp, parsing, screens
<1>2. \/ /\ pc = "setV" /\ pos \in 0 .. asyncTermNum - 1
         /\ vTermUsed' = vTermUsed \cup {pos} /\ ipTermUsed' = ipTermUsed
      \/ /\ pc = "setIp" /\ pos \in 0 .. ipTermNum - 1
         /\ ipTermUsed' = ipTermUsed \cup {pos} /\ vTermUsed' = vTermUsed
  BY DEF MarkV, MarkIp
<1>3. TypeOK'
  BY <1>1, <1>2 DEF TypeOK
<1>4. ipTermNum' = ipTermNum
  BY <1>1 DEF ipTermNum
<1>5. MarkInv'
  BY <1>1, <1>2, <1>4 DEF MarkInv
<1>6. /\ ConfigInRange' /\ TotalInConfig' /\ DrawInv' /\ PackageInv'
      /\ ScreensInRange' /\ CrashNeedsEqualBounds'
  BY <1>1
  DEF ConfigInRange, TotalInConfig, DrawInv, PackageInv, ScreensInRange,
      CrashNeedsEqualBounds
<1> QED
  BY <1>1, <1>3, <1>5, <1>6

(* When SetTerminal stops it has marked exactly the first positions.       *)
LEMMA MarkDoneIInv == IInv /\ (MarkVDone \/ MarkIpDone) => IInv'
<1> SUFFICES ASSUME IInv, MarkVDone \/ MarkIpDone PROVE IInv'
  OBVIOUS
<1> USE DEF IInv
<1>1. /\ pc \in {"setV", "setIp"} /\ pc' \in {"setIp", "termNum"}
      /\ UNCHANGED <<cfg, cfgFlag, lines, total, asyncTermNum, vTermUsed,
                     ipTermUsed, termNum, xls_termNum, screenNum, actVScr, screenIDs>>
  BY DEF MarkVDone, MarkIpDone, parsing, terms, screens
<1>2. asyncTermNum \in Nat /\ ipTermNum \in Nat
  BY DEF TypeOK, DrawInv, ipTermNum
<1>3. TypeOK'
  BY <1>1 DEF TypeOK
<1>4. CASE MarkVDone
  <2>1. pc = "setV" /\ pc' = "setIp" /\ Cardinality(vTermUsed) >= asyncTermNum
    BY <1>4 DEF MarkVDone
  <2>2. vTermUsed = 0 .. asyncTermNum - 1
    BY <1>2, <2>1, PrefixFull DEF MarkInv
  <2> QED
    BY <1>1, <1>3, <2>1, <2>2
    DEF MarkInv, ipTermNum, ConfigInRange, TotalInConfig, DrawInv, PackageInv,
        ScreensInRange, CrashNeedsEqualBounds
<1>5. CASE MarkIpDone
  <2>1. pc = "setIp" /\ pc' = "termNum" /\ Cardinality(ipTermUsed) >= ipTermNum
    BY <1>5 DEF MarkIpDone
  <2>2. ipTermUsed = 0 .. ipTermNum - 1
    BY <1>2, <2>1, PrefixFull DEF MarkInv
  <2> QED
    BY <1>1, <1>3, <2>1, <2>2
    DEF MarkInv, ipTermNum, ConfigInRange, TotalInConfig, DrawInv, PackageInv,
        ScreensInRange, CrashNeedsEqualBounds
<1> QED
  BY <1>4, <1>5

(* The number in the package is drawn from the total on.                   *)
LEMMA DrawTermNumIInv == IInv /\ DrawTermNum => IInv'
<1> SUFFICES ASSUME IInv, DrawTermNum PROVE IInv'
  OBVIOUS
<1> USE DEF IInv
<1>1. /\ pc = "termNum" /\ pc' = "ready"
      /\ UNCHANGED <<cfg, cfgFlag, lines, total, asyncTermNum, vTermUsed,
                     ipTermUsed, xls_termNum, screenNum, actVScr, screenIDs>>
  BY DEF DrawTermNum, parsing, screens
<1>2. termNum' \in total .. TermCap - 1
  BY DEF DrawTermNum, Drawn
<1>3. total \in Nat /\ TermCap \in Nat
  BY SizeAssumption DEF TypeOK
<1>4. TypeOK'
  <2>1. termNum' \in Nat
    BY <1>2, <1>3
  <2> QED
    BY <1>1, <2>1 DEF TypeOK
<1>5. PackageInv'
  BY <1>1, <1>2, <1>3 DEF PackageInv, MarkInv, ipTermNum
<1>6. MarkInv' /\ DrawInv' /\ TotalInConfig'
  BY <1>1 DEF MarkInv, DrawInv, TotalInConfig, ipTermNum
<1>7. ConfigInRange' /\ ScreensInRange' /\ CrashNeedsEqualBounds'
  BY <1>1 DEF ConfigInRange, ScreensInRange, CrashNeedsEqualBounds
<1> QED
  BY <1>1, <1>4, <1>5, <1>6, <1>7

(* The range of the number of screens is never empty and never holds 0, so *)
(* that there is an active one to draw.                                    *)
LEMMA DrawScreensIInv == IInv /\ DrawScreens => IInv'
<1> SUFFICES ASSUME IInv, DrawScreens PROVE IInv'
  OBVIOUS
<1> USE DEF IInv
<1>1. /\ pc = "ready" /\ pc' = "ready"
      /\ UNCHANGED <<cfg, cfgFlag, lines, total, asyncTermNum, vTermUsed,
                     ipTermUsed, termNum, xls_termNum>>
  BY DEF DrawScreens, parsing, terms
<1>2. /\ cfg["vScrNumMin"] \in Nat /\ cfg["vScrNumMax"] \in Nat
  <2>1. /\ cfg["vScrNumMin"] \in Lo["vScrNumMin"] .. Hi["vScrNumMin"]
        /\ cfg["vScrNumMax"] \in Lo["vScrNumMax"] .. Hi["vScrNumMax"]
    BY <1>1 DEF ConfigInRange, Keys
  <2>2. Lo["vScrNumMin"] \in Nat /\ Lo["vScrNumMax"] \in Nat
    BY RangeFacts DEF Keys
  <2> QED
    BY <2>1, <2>2, RangeFacts DEF Keys
<1>3. /\ screenNum' \in cfg["vScrNumMin"] .. cfg["vScrNumMax"] - 1
      /\ actVScr' \in 0 .. screenNum' - 1
  BY DEF DrawScreens, Drawn, ActiveOf
<1>4. screenNum' \in Nat /\ actVScr' \in Nat /\ actVScr' < screenNum'
  <2>1. screenNum' \in Nat
    <3>1. \A a, b \in Nat : \A n \in a .. b - 1 : n \in Nat
      OBVIOUS
    <3> QED
      BY <1>2, <1>3, <3>1
  <2>2. \A n \in Nat : \A k \in 0 .. n - 1 : k \in Nat /\ k < n
    OBVIOUS
  <2> QED
    BY <1>3, <2>1, <2>2
<1>a. screenIDs' = [i \in 0 .. screenNum' - 1 |-> i + 1]
  BY DEF DrawScreens, IDsOf
<1>5. TypeOK'
  <2>1. \A n \in Nat : [i \in 0 .. n - 1 |-> i + 1] \in [0 .. n - 1 -> Nat]
    OBVIOUS
  <2>2. screenIDs' \in [0 .. screenNum' - 1 -> Nat]
    BY <1>4, <1>a, <2>1
  <2> QED
    BY <1>1, <1>4, <2>2 DEF TypeOK
<1>6. ScreensInRange'
  <2>1. actVScr' \in DOMAIN screenIDs'
    BY <1>3, <1>a
  <2>2. ASSUME actVScr' # 0
        PROVE  \E i \in DOMAIN screenIDs' : screenIDs'[i] = actVScr'
    <3>1. \A n, k \in Nat : k < n /\ k # 0 =>
            /\ k - 1 \in DOMAIN [i \in 0 .. n - 1 |-> i + 1]
            /\ [i \in 0 .. n - 1 |-> i + 1][k - 1] = k
      OBVIOUS
    <3>2. /\ actVScr' - 1 \in DOMAIN screenIDs'
          /\ screenIDs'[actVScr' - 1] = actVScr'
      BY <1>4, <1>a, <2>2, <3>1
    <3> QED
      BY <3>2
  <2> QED
    BY <1>1, <1>3, <2>1, <2>2 DEF ScreensInRange
<1>7. MarkInv' /\ DrawInv' /\ TotalInConfig' /\ PackageInv'
  BY <1>1 DEF MarkInv, DrawInv, TotalInConfig, PackageInv, ipTermNum
<1>8. ConfigInRange' /\ CrashNeedsEqualBounds'
  BY <1>1 DEF ConfigInRange, CrashNeedsEqualBounds
<1> QED
  BY <1>1, <1>5, <1>6, <1>7, <1>8

(* Every step preserves the inductive invariant.                           *)
LEMMA NextIInv == IInv /\ [Next]_vars => IInv'
<1> SUFFICES ASSUME IInv, [Next]_vars PROVE IInv'
  OBVIOUS
<1>1. CASE UNCHANGED vars
  <2> USE <1>1 DEF vars, parsing, terms, screens, IInv
  <2>1. TypeOK'
    BY DEF TypeOK
  <2>2. MarkInv' /\ DrawInv' /\ TotalInConfig' /\ PackageInv'
    BY DEF MarkInv, DrawInv, TotalInConfig, PackageInv, ipTermNum
  <2>3. ConfigInRange' /\ ScreensInRange' /\ CrashNeedsEqualBounds'
    BY DEF ConfigInRange, ScreensInRange, CrashNeedsEqualBounds
  <2> QED
    BY <2>1, <2>2, <2>3
<1> QED
  BY <1>1, ConfigIInv, DrawTotalIInv, MarkIInv, MarkDoneIInv, DrawTermNumIInv,
     DrawScreensIInv
  DEF Next, Dead

(* The inductive invariant of ConfigParse, GenTermInfo and GenSubTermInfo. *)
THEOREM TerminalsIInv == Spec => []IInv
BY InitIInv, NextIInv, PTL DEF Spec

-----------------------------------------------------------------------------
(* Type correctness of the drawn numbers.                                  *)
THEOREM TerminalsTypeOK == Spec => []TypeOK
<1>1. IInv => TypeOK
  BY DEF IInv
<1> QED
  BY <1>1, TerminalsIInv, PTL

(* Whatever ts.conf holds, the four bounds end up in their ranges          *)
(* (mConfig.c:146-161).                                                    *)
THEOREM TerminalsConfigInRange == Spec => []ConfigInRange
<1>1. IInv => ConfigInRange
  BY DEF IInv
<1> QED
  BY <1>1, TerminalsIInv, PTL

(* The number of terminals stays below the configured maximum although it  *)
(* is raised after the draw (mProtocol.c:642-646).                         *)
THEOREM TerminalsTotalInConfig == Spec => []TotalInConfig
<1>1. IInv => TotalInConfig
  BY DEF IInv
<1> QED
  BY <1>1, TerminalsIInv, PTL

(* What SetTerminal marks is not random: the first positions, whatever     *)
(* rand() returns (mProtocol.c:620).                                       *)
THEOREM TerminalsMarksAreFirst == Spec => []MarksAreFirst
<1>1. IInv => MarksAreFirst
  BY DEF IInv, MarkInv, MarksAreFirst
<1> QED
  BY <1>1, TerminalsIInv, PTL

(* SetTerminal, which does not look at their lengths, stays inside both    *)
(* arrays for any bounds that ts.conf may set (mProtocol.c:614-627).       *)
THEOREM TerminalsMarksInArrays == Spec => []MarksInArrays
<1>1. ASSUME IInv PROVE MarksInArrays
  <2>1. /\ asyncTermNum \in Nat /\ total \in Nat /\ Hi["termNumMax"] \in Nat
        /\ ASYNC_NUM \in Nat /\ V_TERM_NUM \in Nat /\ IP_TERM_NUM \in Nat
    BY <1>1, RangeFacts, SizeAssumption DEF IInv, TypeOK, Keys
  <2>2. asyncTermNum <= V_TERM_NUM
    BY <1>1, <2>1, SizeAssumption DEF IInv, DrawInv
  <2>3. ipTermNum \in Int /\ ipTermNum <= IP_TERM_NUM
    BY <1>1, <2>1, SizeAssumption DEF IInv, DrawInv, ipTermNum
  <2>4. 0 .. asyncTermNum - 1 \subseteq 0 .. V_TERM_NUM - 1
    BY <2>1, <2>2
  <2>5. 0 .. ipTermNum - 1 \subseteq 0 .. IP_TERM_NUM - 1
    BY <2>1, <2>3
  <2> QED
    BY <1>1, <2>4, <2>5 DEF IInv, MarkInv, MarksInArrays
<1> QED
  BY <1>1, TerminalsIInv, PTL

(* The package and the row of ts_count.xls agree (mProtocol.c:642-656).    *)
THEOREM TerminalsPackageConsistent == Spec => []PackageConsistent
<1>1. ASSUME IInv PROVE PackageConsistent
  <2>1. SUFFICES ASSUME pc = "ready", termNum # 0
                 PROVE  /\ Cardinality(vTermUsed) = asyncTermNum
                        /\ Cardinality(ipTermUsed) = ipTermNum
                        /\ xls_termNum = total /\ total <= termNum
                        /\ termNum < TermCap
                        /\ asyncTermNum + ipTermNum = total
    BY <1>1 DEF IInv, PackageConsistent
  <2>2. asyncTermNum \in Nat /\ ipTermNum \in Nat /\ total \in Nat
    BY <1>1 DEF IInv, TypeOK, DrawInv, ipTermNum
  <2>3. \A n \in Nat : Cardinality(0 .. n - 1) = n
    <3> SUFFICES ASSUME NEW n \in Nat PROVE Cardinality(0 .. n - 1) = n
      OBVIOUS
    <3>1. 0 \in Int /\ n - 1 \in Int
      OBVIOUS
    <3>2. Cardinality(0 .. n - 1) = IF 0 > n - 1 THEN 0 ELSE n - 1 - 0 + 1
      BY <3>1, FS_Interval
    <3> QED
      BY <3>2
  <2>4. vTermUsed = 0 .. asyncTermNum - 1 /\ ipTermUsed = 0 .. ipTermNum - 1
    BY <1>1, <2>1 DEF IInv, PackageInv
  <2>5. asyncTermNum + ipTermNum = total
    BY <2>2 DEF ipTermNum
  <2> QED
    BY <1>1, <2>1, <2>2, <2>3, <2>4, <2>5 DEF IInv, PackageInv, DrawInv
<1> QED
  BY <1>1, TerminalsIInv, PTL

(* There is at least one screen. The active one, counted from 0, is the    *)
(* place of a screen that follows; as an ID it names one unless it is 0    *)
(* (mProtocol.c:665, 685, 706).                                            *)
THEOREM TerminalsScreensInRange == Spec => []ScreensInRange
<1>1. IInv => ScreensInRange
  BY DEF IInv
<1> QED
  BY <1>1, TerminalsIInv, PTL

(* The only way to the division by zero (mProtocol.c:642) is that the two  *)
(* bounds are the one number that is legal for both.                       *)
THEOREM TerminalsCrash == Spec => []CrashNeedsEqualBounds
<1>1. IInv => CrashNeedsEqualBounds
  BY DEF IInv
<1> QED
  BY <1>1, TerminalsIInv, PTL
=============================================================================
