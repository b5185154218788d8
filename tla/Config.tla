-------------------------------- MODULE Config --------------------------------
(***************************************************************************)
(* ConfigParse of mConfig.c: the scanner that reads ts.conf character by   *)
(* character, NextCfgKey and NextCfgValue in turn, and what the parser     *)
(* makes of the keys it knows. A character is white space, the end of a    *)
(* line, '#', or a letter (any other).                                     *)
(***************************************************************************)
EXTENDS Naturals, Sequences

CONSTANTS
  Letters,
  MaxFile,    \* bound: the length of ts.conf
  KEY_LEN,    \* CFG_KEY_LEN, 64
  VALUE_LEN,  \* CFG_VALUE_LEN, 32
  DEBUG_NUM,  \* 6
  Fields,     \* the keys that ConfigParse knows
  Debug       \* the one of them that is "DEBUG"

White   == "white"    \* ' ' and '\t'
NewLine == "newline"
Hash    == "#"
EOF     == "EOF"
Nul     == "nul"

ASSUME ConfigAssumption ==
  /\ Letters \cap {White, NewLine, Hash, EOF, Nul} = {}
  /\ MaxFile \in Nat
  /\ KEY_LEN \in Nat \ {0}
  /\ VALUE_LEN \in Nat \ {0}
  /\ DEBUG_NUM \in 1 .. VALUE_LEN + 1
  /\ Fields \subseteq Seq(Letters) \ {<<>>}
  /\ Debug \in Fields

Chars == Letters \cup {White, NewLine, Hash}

VARIABLES
  file,   \* ts.conf
  pos,    \* the place of the next fgetc()
  phase,  \* "key", "value": the call ConfigParse is about to make; "done"
  cfgKey,
  cfgValue,  \* the array, place 1 first: a string, Nul, and what is behind it
  conf       \* the value configFile got for each key it knows

vars == <<file, pos, phase, cfgKey, cfgValue, conf>>

(* A field of configFile that no line has set: no value is like that.      *)
Unset == <<EOF>>

TypeOK ==
  /\ file \in Seq(Chars)
  /\ pos \in 1 .. Len(file) + 1
  /\ phase \in {"key", "value", "done"}
  /\ cfgKey \in Seq(Letters)
  /\ cfgValue \in [1 .. VALUE_LEN + 1 -> Letters \cup {Nul}]
  /\ DOMAIN conf = Fields
  /\ \A f \in Fields \ {Debug} : conf[f] \in Seq(Letters) \cup {Unset}
  /\ conf[Debug] \in [1 .. DEBUG_NUM -> Letters \cup {Nul}] \cup {Unset}

Init ==
  /\ file \in UNION {[1 .. n -> Chars] : n \in 0 .. MaxFile}
  /\ pos = 1
  /\ phase = "key"
  /\ cfgKey = <<>>
  /\ cfgValue = [k \in 1 .. VALUE_LEN + 1 |-> Nul]
  /\ conf = [f \in Fields |-> Unset]

At(p) == IF p \in DOMAIN file THEN file[p] ELSE EOF

(* Where reading from p on stops: at the first character that is in Stop.  *)
First(p, Stop) ==
  CHOOSE q \in p .. Len(file) + 1 :
    /\ At(q) \in Stop
    /\ \A r \in p .. q - 1 : At(r) \notin Stop

(* Mutated forms, here and below; no specification uses them: white space  *)
(* includes the end of the line; the rest of a line is not skipped; what   *)
(* ends it is skipped even where the file ends; the end of the file is no  *)
(* reason to return NO.                                                    *)
AfterWhiteAndLines(p) == First(p, Letters \cup {Hash, EOF})

AfterWhite(p) == First(p, Letters \cup {NewLine, Hash, EOF})

RestNotSkipped(p) == p
PastTheEnd(p) == First(p, {NewLine, EOF}) + 1

NextLine(p) ==
  LET eol == First(p, {NewLine, EOF})
  IN  IF At(eol) = EOF THEN eol ELSE eol + 1

(* The end of a word from p on, of at most max characters.                 *)
WordEnd(p, max) ==
  LET q == First(p, {White, NewLine, Hash, EOF})
  IN  IF q > p + max THEN p + max ELSE q

Text(p, q) == SubSeq(file, p, q - 1)

FoundAlways(end) == TRUE

(* A key that the file ends with is dropped.                               *)
Found(end) == At(end) # EOF

(* NO ends the loop of ConfigParse. *)
NextCfgKey ==
  /\ phase = "key"
  /\ LET start == AfterWhite(pos)
         end   == WordEnd(start, KEY_LEN)
     IN  /\ pos' = end
         /\ cfgKey' = IF At(start) = EOF THEN cfgKey ELSE Text(start, end)
         /\ phase' = IF Found(end) THEN "value" ELSE "done"
  /\ UNCHANGED <<file, cfgValue, conf>>

(* The value and its Nul overwrite the beginning of the array; behind them *)
(* it keeps what an earlier line left there.                               *)
Written(value) ==
  [k \in 1 .. VALUE_LEN + 1 |->
     IF k <= Len(value) THEN value[k]
     ELSE IF k = Len(value) + 1 THEN Nul ELSE cfgValue[k]]

(* The assignment to the field of the key; other keys - that of a comment  *)
(* or an empty line is empty - change nothing. The fields are set to the   *)
(* value or its number, but debugCfg to the first characters of the array, *)
(* wherever the value ends.                                                *)
Assigned(value) ==
  CASE cfgKey \in Fields \ {Debug} -> [conf EXCEPT ![cfgKey] = value]
    [] cfgKey = Debug ->
         [conf EXCEPT ![Debug] = [k \in 1 .. DEBUG_NUM |-> Written(value)[k]]]
    [] cfgKey \notin Fields -> conf

(* The value, and the rest of the line. *)
NextCfgValue ==
  /\ phase = "value"
  /\ LET start == AfterWhite(pos)
         end   == WordEnd(start, VALUE_LEN)
     IN  /\ pos' = NextLine(end)
         /\ cfgValue' = Written(Text(start, end))
         /\ conf' = Assigned(Text(start, end))
  /\ phase' = "key"
  /\ UNCHANGED <<file, cfgKey>>

Terminated == phase = "done" /\ UNCHANGED vars

Next == NextCfgKey \/ NextCfgValue \/ Terminated

Spec == Init /\ [][Next]_vars

(* ConfigParse runs. *)
FairSpec == Spec /\ WF_vars(NextCfgKey \/ NextCfgValue)

-----------------------------------------------------------------------------
(* Properties *)

(* The scanner never loses the lines (mConfig.c:33,60-67 put back what     *)
(* ended a key or a value): ConfigParse asks for a key only at the         *)
(* beginning of a line, or at the end of the file.                         *)
KeysStartLines ==
  phase = "key" => pos = 1 \/ file[pos - 1] = NewLine \/ At(pos) = EOF

(* The meaning of a line, without a scanner: its first word is the key and *)
(* its second one the value; '#' begins a comment; the part of a key that  *)
(* is too long for cfgKey counts as the beginning of the value.            *)
WordOf(text, max) ==
  LET ends == {n \in 0 .. Len(text) :
                 n <= max /\ \A k \in 1 .. n : text[k] \in Letters}
  IN  SubSeq(text, 1, CHOOSE n \in ends : \A m \in ends : m <= n)

Stripped(text) ==
  LET first == {n \in DOMAIN text : text[n] # White}
  IN  IF first = {} THEN <<>>
      ELSE SubSeq(text, CHOOSE n \in first : \A m \in first : n <= m, Len(text))

KeyOf(text) == WordOf(Stripped(text), KEY_LEN)
AfterKey(text) ==
  SubSeq(Stripped(text), Len(KeyOf(text)) + 1, Len(Stripped(text)))
ValueOf(text) == WordOf(Stripped(AfterKey(text)), VALUE_LEN)

(* The lines of the file as the pairs of their first place and the place   *)
(* after their last one. A last line that has no NewLine and ends with its *)
(* key is not one of them.                                                 *)
Lines ==
  {l \in (1 .. Len(file)) \X (1 .. Len(file) + 1) :
     /\ l[1] <= l[2]
     /\ l[1] = 1 \/ file[l[1] - 1] = NewLine
     /\ \A p \in l[1] .. l[2] - 1 : file[p] # NewLine
     /\ \/ At(l[2]) = NewLine
        \/ At(l[2]) = EOF /\ AfterKey(Text(l[1], l[2])) # <<>>}

ValueIn(l) == ValueOf(Text(l[1], l[2]))

(* c is what the lines in L, whatever their keys, leave at place k of an   *)
(* array that their values are written to one after the other: it is from  *)
(* the last line whose value, with its Nul, is long enough.                *)
LastWritten(L, k, c) ==
  LET long == {l \in L : k <= Len(ValueIn(l)) + 1}
  IN  IF long = {} THEN c = Nul
      ELSE \E l \in long :
             /\ \A m \in long : m[1] <= l[1]
             /\ c = IF k <= Len(ValueIn(l)) THEN ValueIn(l)[k] ELSE Nul

(* What line l makes of the field of its key.                              *)
MadeBy(l, f, x) ==
  IF f = Debug
  THEN \A k \in 1 .. DEBUG_NUM :
         LastWritten({m \in Lines : m[1] <= l[1]}, k, x[k])
  ELSE x = ValueIn(l)

(* In the end each field has the value of the last line with its key       *)
(* (mConfig.c:103-145), and a field without a line has none: of those only *)
(* the four with flags get a default. Only debugCfg is not just that       *)
(* value: behind a short one it has characters of the lines before, of any *)
(* key (mConfig.c:133-138).                                                *)
ConfigMatchesFile ==
  phase = "done" =>
    \A f \in Fields :
      LET with == {l \in Lines : KeyOf(Text(l[1], l[2])) = f}
      IN  IF with = {} THEN conf[f] = Unset
          ELSE \E l \in with : /\ \A m \in with : m[1] <= l[1]
                               /\ MadeBy(l, f, conf[f])

(* Under FairSpec: the scanner comes to the end of every file; ungetc() of *)
(* what is put back at its end does not bring it back for good.            *)
ParseEnds == <>(phase = "done")
=============================================================================
