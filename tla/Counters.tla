------------------------------- MODULE Counters -------------------------------
(***************************************************************************)
(* How mProtocol.c finds its numbers in /proc/net/dev (SetRecordData),     *)
(* /proc/stat (SetCPUTime) and /proc/meminfo (SetFreeMem): lines are read  *)
(* into one buffer, one over the other, and SkipNonNum goes from number to *)
(* number. A character is a digit, ':', or any other; the buffer begins    *)
(* at 0.                                                                   *)
(***************************************************************************)
EXTENDS Integers, Sequences

CONSTANTS
  Digits,
  BUF_LEN,   \* ETH_INFO_BUF_LEN, 256; the others 128
  Numbers    \* of an interface that are read, 16

ASSUME CountersAssumption ==
  /\ {":", "other", "nul"} \cap Digits = {}
  /\ BUF_LEN \in Nat
  /\ Numbers \in Nat

EmptyBuf == [k \in 0 .. BUF_LEN |-> "nul"]

(* fgets() of the n-th line; behind the end of the file, and behind the    *)
(* end of the line, the buffer stays as it was.                            *)
Fgets(buf, lines, n) ==
  IF n > Len(lines) THEN buf
  ELSE [k \in DOMAIN buf |-> CASE k < Len(lines[n]) -> lines[n][k + 1]
                               [] k = Len(lines[n]) -> "nul"
                               [] OTHER             -> buf[k]]

(* The loops of SkipNonNum stop at the end of the buffer.                  *)
FirstIn(buf, from, Chars) ==
  CHOOSE p \in from .. BUF_LEN :
    /\ p = BUF_LEN \/ buf[p] \in Chars
    /\ \A q \in from .. p - 1 : buf[q] \notin Chars

(* A loop that ends only where it finds what it looks for: in a buffer     *)
(* without it the loop reads on behind the end, and this has no value.     *)
Sought(buf, Chars) ==
  CHOOSE p \in 0 .. BUF_LEN :
    buf[p] \in Chars /\ \A q \in 0 .. p - 1 : buf[q] \notin Chars

NonDigits == {":", "other", "nul"}

(* Mutated form; no specification uses it: the digits of the number it     *)
(* stands on are not passed first.                                         *)
SkipToDigit(buf, p) == FirstIn(buf, p, Digits)

SkipNonNum(buf, p) == FirstIn(buf, FirstIn(buf, p, NonDigits), Digits)

(* The digits from p on: what atoi() makes a number of; none is 0.         *)
Atoi(buf, p) ==
  LET end == FirstIn(buf, p, NonDigits)
  IN  [k \in 1 .. end - p |-> buf[p + k - 1]]

(* The count numbers from the one at start on.                             *)
NumbersFrom(buf, start, count) ==
  LET place[n \in 1 .. count] ==
        IF n = 1 THEN start ELSE SkipNonNum(buf, place[n - 1])
  IN  [n \in 1 .. count |-> Atoi(buf, place[n])]

(* Two lines of headings, one or two interfaces; the numbers after the ':'.*)
RecordData(lines, ID) ==
  LET heading == Fgets(Fgets(EmptyBuf, lines, 1), lines, 2)
      eth0    == Fgets(heading, lines, 3)
      buf     == IF ID = 1 THEN Fgets(eth0, lines, 4) ELSE eth0
  IN  NumbersFrom(buf, SkipNonNum(buf, Sought(buf, {":"})), Numbers)

(* The first four numbers of the first line: user, nice, system, idle.     *)
CPUTime(lines) ==
  LET buf == Fgets(EmptyBuf, lines, 1)
  IN  NumbersFrom(buf, Sought(buf, Digits), 4)

(* Mutated form; no specification uses it: i goes on from line to line.    *)
FreeMemGoesOn(lines) ==
  LET free    == Fgets(Fgets(EmptyBuf, lines, 1), lines, 2)
      buffers == Fgets(Fgets(free, lines, 3), lines, 4)
      cached  == Fgets(buffers, lines, 5)
      i1      == SkipNonNum(free, 0)
      i2      == SkipNonNum(buffers, i1)
  IN  <<Atoi(free, i1), Atoi(buffers, i2), Atoi(cached, SkipNonNum(cached, i2))>>

(* The numbers of the second, fourth and fifth line, which are added up.   *)
FreeMem(lines) ==
  LET free    == Fgets(Fgets(EmptyBuf, lines, 1), lines, 2)
      buffers == Fgets(Fgets(free, lines, 3), lines, 4)
      cached  == Fgets(buffers, lines, 5)
      number(buf) == Atoi(buf, SkipNonNum(buf, 0))
  IN  <<number(free), number(buffers), number(cached)>>
=============================================================================
