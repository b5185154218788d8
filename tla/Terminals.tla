------------------------------ MODULE Terminals ------------------------------
(***************************************************************************)
(* How many terminals and screens a simulated device has: ConfigParse of   *)
(* mConfig.c reads the bounds from ts.conf, GenTermInfo and GenSubTermInfo *)
(* of mProtocol.c draw the numbers, SetTerminal marks the terminals used.  *)
(* rand() is a choice; the numbers of the source are constants.            *)
(***************************************************************************)
EXTENDS Integers, FiniteSets

CONSTANTS
  Lo, Hi, Default,  \* for each key: the legal range, and TERM_NUM_MIN_DEFAULT...
  ASYNC_NUM, V_TERM_NUM, IP_TERM_NUM,
  TermCap,          \* 270, above every termNum
  Values,           \* what a line of ts.conf may hold, legal or not
  MaxLines          \* bound: the lines of ts.conf with one of the keys

Keys == {"termNumMin", "termNumMax", "vScrNumMin", "vScrNumMax"}

(* In the source: termNumMin 3..10 (5), termNumMax 10..50 (28), vScrNumMin *)
(* 1..3 (3), vScrNumMax 4..16 (10); 8, 16, 254 and 270.                    *)
ASSUME RangeAssumption ==
  /\ Lo \in [Keys -> Nat \ {0}] /\ Hi \in [Keys -> Nat] /\ Default \in [Keys -> Nat]
  /\ \A key \in Keys : Default[key] \in Lo[key] .. Hi[key]
  /\ Hi["termNumMin"] <= Lo["termNumMax"]
  /\ Hi["vScrNumMin"] < Lo["vScrNumMax"]

ASSUME SizeAssumption ==
  /\ ASYNC_NUM \in Nat \ {0} /\ V_TERM_NUM \in Nat /\ IP_TERM_NUM \in Nat
  /\ TermCap \in Nat
  /\ ASYNC_NUM <= V_TERM_NUM
  /\ ASYNC_NUM < Lo["termNumMax"]
  /\ Hi["termNumMax"] <= IP_TERM_NUM
  /\ Hi["termNumMax"] <= TermCap

ASSUME InputAssumption == Values \subseteq Int /\ MaxLines \in Nat

VARIABLES
  pc,
  cfg,          \* the four fields of configFile
  cfgFlag,      \* the keys that were read
  lines,        \* how many lines were read
  total, asyncTermNum,
  vTermUsed, ipTermUsed,  \* the positions that are set to 1
  termNum,      \* the field of the package
  xls_termNum,
  screenNum, actVScr,
  screenIDs     \* the ID of the screen at each place of the package

parsing == <<cfg, cfgFlag, lines>>
terms   == <<total, asyncTermNum, vTermUsed, ipTermUsed, termNum, xls_termNum>>
screens == <<screenNum, actVScr, screenIDs>>
vars    == <<pc, parsing, terms, screens>>

(* No rand() % numOf1 exceeds the largest total.                           *)
Positions == 0 .. Hi["termNumMax"]

TypeOK ==
  /\ pc \in {"parse", "ready", "setV", "setIp", "termNum", "sigfpe"}
  /\ cfg \in [Keys -> Int]
  /\ cfgFlag \subseteq Keys
  /\ lines \in 0 .. MaxLines
  /\ total \in Nat /\ asyncTermNum \in Nat
  /\ vTermUsed \subseteq Positions /\ ipTermUsed \subseteq Positions
  /\ termNum \in Nat /\ xls_termNum \in Nat
  /\ screenNum \in Nat /\ actVScr \in Nat
  /\ screenIDs \in [0 .. screenNum - 1 -> Nat]

(* configFile is a local variable of main(): its fields start as garbage.  *)
Init ==
  /\ pc = "parse"
  /\ cfg \in [Keys -> Values]
  /\ cfgFlag = {}
  /\ lines = 0
  /\ total = 0 /\ asyncTermNum = 0
  /\ vTermUsed = {} /\ ipTermUsed = {}
  /\ termNum = 0 /\ xls_termNum = 0
  /\ screenNum = 0 /\ actVScr = 0 /\ screenIDs = <<>>

-----------------------------------------------------------------------------
(* ConfigParse *)

ParseLine ==
  /\ pc = "parse"
  /\ lines < MaxLines
  /\ lines' = lines + 1
  /\ \E key \in Keys, value \in Values :
       /\ cfg' = [cfg EXCEPT ![key] = value]
       /\ cfgFlag' = cfgFlag \cup {key}
  /\ UNCHANGED <<pc, terms, screens>>

(* Mutated form; no specification uses it. *)
AcceptedAnyRead(key) == key \in cfgFlag

(* A value that was read and lies in its range; any other one is replaced. *)
Accepted(key) == key \in cfgFlag /\ cfg[key] \in Lo[key] .. Hi[key]

EndOfConfig ==
  /\ pc = "parse"
  /\ cfg' = [key \in Keys |-> IF Accepted(key) THEN cfg[key] ELSE Default[key]]
  /\ pc' = "ready"
  /\ UNCHANGED <<cfgFlag, lines, terms, screens>>

-----------------------------------------------------------------------------
(* GenTermInfo *)

(* Mutated form; no specification uses it. *)
DrawnInclusive(min, max) == min .. max

(* rand() % (max - min) + min; a division by zero raises SIGFPE.           *)
Drawn(min, max) == min .. max - 1

Larger(a, b) == IF a > b THEN a ELSE b

(* Mutated form; no specification uses it. *)
TotalOfNotRaised(drawn, async) == drawn

(* "if(asyncTermNum > total) total = asyncTermNum" *)
TotalOf(drawn, async) == Larger(drawn, async)

DrawTotal ==
  /\ pc = "ready"
  /\ \/ /\ cfg["termNumMax"] = cfg["termNumMin"]
        /\ pc' = "sigfpe"
        /\ UNCHANGED terms
     \/ /\ cfg["termNumMax"] # cfg["termNumMin"]
        /\ \E drawn \in Drawn(cfg["termNumMin"], cfg["termNumMax"]),
              async \in 1 .. ASYNC_NUM :
             /\ asyncTermNum' = async
             /\ total' = TotalOf(drawn, async)
             /\ xls_termNum' = TotalOf(drawn, async)
        /\ vTermUsed' = {}
        /\ ipTermUsed' = {}
        /\ termNum' = 0
        /\ pc' = "setV"
  /\ UNCHANGED <<parsing, screens>>

(* Mutated form; no specification uses it. *)
MarkVTotal(pos) ==
  /\ pc = "setV"
  /\ Cardinality(vTermUsed) < asyncTermNum
  /\ pos \in 0 .. total - 1
  /\ vTermUsed' = vTermUsed \cup {pos}
  /\ UNCHANGED <<pc, parsing, total, asyncTermNum, ipTermUsed, termNum,
                 xls_termNum, screens>>

(* One turn of SetTerminal's loop sets one of the first numOf1 positions,  *)
(* or finds it set and tries again.                                        *)
MarkV(pos) ==
  /\ pc = "setV"
  /\ Cardinality(vTermUsed) < asyncTermNum
  /\ pos \in 0 .. asyncTermNum - 1
  /\ vTermUsed' = vTermUsed \cup {pos}
  /\ UNCHANGED <<pc, parsing, total, asyncTermNum, ipTermUsed, termNum,
                 xls_termNum, screens>>

MarkVDone ==
  /\ pc = "setV"
  /\ Cardinality(vTermUsed) >= asyncTermNum
  /\ pc' = "setIp"
  /\ UNCHANGED <<parsing, terms, screens>>

ipTermNum == total - asyncTermNum

(* Mutated form; no specification uses it. *)
MarkIpBlind(pos) ==
  /\ pc = "setIp"
  /\ Cardinality(ipTermUsed) < ipTermNum
  /\ pos \in 0 .. ipTermNum
  /\ ipTermUsed' = ipTermUsed \cup {pos}
  /\ UNCHANGED <<pc, parsing, total, asyncTermNum, vTermUsed, termNum,
                 xls_termNum, screens>>

(* Mutated form; no specification uses it. *)
MarkIpUnset(pos) ==
  /\ pc = "setIp"
  /\ Cardinality(ipTermUsed) < ipTermNum
  /\ pos \in 0 .. ipTermNum - 1
  /\ UNCHANGED vars

MarkIp(pos) ==
  /\ pc = "setIp"
  /\ Cardinality(ipTermUsed) < ipTermNum
  /\ pos \in 0 .. ipTermNum - 1
  /\ ipTermUsed' = ipTermUsed \cup {pos}
  /\ UNCHANGED <<pc, parsing, total, asyncTermNum, vTermUsed, termNum,
                 xls_termNum, screens>>

MarkIpDone ==
  /\ pc = "setIp"
  /\ Cardinality(ipTermUsed) >= ipTermNum
  /\ pc' = "termNum"
  /\ UNCHANGED <<parsing, terms, screens>>

(* rand() % (270 - total) + total *)
DrawTermNum ==
  /\ pc = "termNum"
  /\ \E n \in Drawn(total, TermCap) : termNum' = n
  /\ pc' = "ready"
  /\ UNCHANGED <<parsing, total, asyncTermNum, vTermUsed, ipTermUsed,
                 xls_termNum, screens>>

-----------------------------------------------------------------------------
(* GenSubTermInfo *)

(* Mutated form; no specification uses it. *)
ActiveOutOf(n) == 0 .. n

(* rand() % screenNum *)
ActiveOf(n) == 0 .. n - 1

(* vScreen->ID = (u_char)(i+1) *)
IDsOf(n) == [i \in 0 .. n - 1 |-> i + 1]

(* One screen follows for each number from 0 on, with its ID from 1 on.    *)
DrawScreens ==
  /\ pc = "ready"
  /\ \E n \in Drawn(cfg["vScrNumMin"], cfg["vScrNumMax"]) :
       /\ screenNum' = n
       /\ actVScr' \in ActiveOf(n)
       /\ screenIDs' = IDsOf(n)
  /\ UNCHANGED <<pc, parsing, terms>>

Dead == pc = "sigfpe" /\ UNCHANGED vars

Next ==
  \/ ParseLine \/ EndOfConfig
  \/ DrawTotal \/ MarkVDone \/ MarkIpDone \/ DrawTermNum
  \/ \E pos \in Positions : MarkV(pos) \/ MarkIp(pos)
  \/ DrawScreens
  \/ Dead

Spec == Init /\ [][Next]_vars

(* rand() draws every position again and again, and the child runs.        *)
FairSpec ==
  /\ Spec
  /\ WF_vars(MarkVDone \/ MarkIpDone \/ DrawTermNum)
  /\ \A pos \in Positions : WF_vars(MarkV(pos)) /\ WF_vars(MarkIp(pos))

-----------------------------------------------------------------------------
(* Properties *)

(* After ConfigParse the four fields are in their ranges, whatever lines   *)
(* ts.conf has, misses or repeats and whatever garbage the struct held.    *)
ConfigInRange ==
  pc # "parse" => \A key \in Keys : cfg[key] \in Lo[key] .. Hi[key]

(* The draw stays within the configured bounds although it is raised to    *)
(* the number of dumb terminals afterwards (mProtocol.c:642-646).          *)
TotalInConfig ==
  pc \in {"setV", "setIp", "termNum"} =>
    total \in cfg["termNumMin"] .. cfg["termNumMax"] - 1

(* The package is consistent with the row of ts_count.xls: as many         *)
(* terminals are marked as the row counts, the dumb ones among them, and   *)
(* the package does not claim a smaller number (mProtocol.c:642-656).      *)
PackageConsistent ==
  pc = "ready" /\ termNum # 0 =>
    /\ Cardinality(vTermUsed) = asyncTermNum
    /\ Cardinality(vTermUsed) + Cardinality(ipTermUsed) = xls_termNum
    /\ xls_termNum <= termNum
    /\ termNum < TermCap

(* SetTerminal does not look at the length of an array and stays inside    *)
(* both nevertheless (mProtocol.c:614-627).                                *)
MarksInArrays ==
  /\ vTermUsed \subseteq 0 .. V_TERM_NUM - 1
  /\ ipTermUsed \subseteq 0 .. IP_TERM_NUM - 1

(* What SetTerminal marks are always the first positions, for it draws     *)
(* from numOf1 (mProtocol.c:620). "randomly select some bytes" says the    *)
(* comment at mProtocol.c:613: this property denies it.                    *)
MarksAreFirst ==
  pc = "termNum" =>
    /\ vTermUsed = 0 .. asyncTermNum - 1
    /\ ipTermUsed = 0 .. ipTermNum - 1

(* The number of screens is one that was configured, never none. The       *)
(* active screen, counted from 0 as it is drawn (mProtocol.c:685), is the  *)
(* place of a screen that follows; read as an ID (mProtocol.c:706) it      *)
(* names a screen unless it is 0, which names none.                        *)
ScreensInRange ==
  screenNum # 0 =>
    /\ screenNum \in cfg["vScrNumMin"] .. cfg["vScrNumMax"] - 1
    /\ actVScr \in DOMAIN screenIDs
    /\ actVScr # 0 => \E i \in DOMAIN screenIDs : screenIDs[i] = actVScr

(* The division by zero needs the two bounds at the one value that is      *)
(* legal for both.                                                         *)
CrashNeedsEqualBounds ==
  pc = "sigfpe" =>
    /\ cfg["termNumMin"] = Hi["termNumMin"]
    /\ cfg["termNumMax"] = Lo["termNumMax"]

(* Under FairSpec: SetTerminal's loops end, GenTermInfo returns.           *)
GenTermInfoReturns == pc = "setV" ~> pc = "ready"

(* ts.conf:5-6: a smallest number of terminals of 3 to 10 and a largest    *)
(* one of 10 to 50 are legal - whichever are chosen, ts does not crash.    *)
NoDivideByZero == pc # "sigfpe"
=============================================================================
