---------------------------- MODULE ConfigProofs -----------------------------
(***************************************************************************)
(* The scanner of ConfigParse gives every field what the last line with    *)
(* its key makes of it, for every file, every set of keys and every length *)
(* of a key and a value. What the scanner reads is compared with what a    *)
(* line means, place by place; between two lines the fields, and the array *)
(* that holds the values, are those of the lines before.                   *)
(***************************************************************************)
EXTENDS Config, Integers, FiniteSetTheorems, SequenceTheorems,
        WellFoundedInduction, TLAPS

(* Of the intervals below the elements of X one is minimal.                *)
LEMMA LeastNat ==
  ASSUME NEW X \in SUBSET Nat, X # {}
  PROVE  \E m \in X : \A k \in X : m <= k
<1> DEFINE Below(n) == 0 .. (n - 1)
           T == {Below(n) : n \in X}
<1>1. T \subseteq FiniteSubsetsOf(Nat) /\ T # {}
  <2>1. ASSUME NEW n \in X
        PROVE  Below(n) \in SUBSET Nat /\ IsFiniteSet(Below(n))
    <3>1. n - 1 \in Int
      OBVIOUS
    <3> QED  BY <3>1, FS_Interval
  <2> QED  BY <2>1 DEF FiniteSubsetsOf
<1>2. PICK t \in T : \A u \in T : <<u, t>> \notin StrictSubsetOrdering(Nat)
  <2> HIDE DEF T
  <2> QED  BY <1>1, FS_StrictSubsetOrderingWellFounded, WFMin, Zenon
<1>3. PICK m \in X : t = Below(m)
  OBVIOUS
<1>4. ASSUME NEW k \in X, k < m  PROVE FALSE
  <2>1. <<Below(k), Below(m)>> \notin StrictSubsetOrdering(Nat)
    BY <1>2, <1>3
  <2>2. /\ Below(k) \subseteq Below(m)
        /\ Below(k) \in SUBSET Nat /\ Below(m) \in SUBSET Nat
    BY <1>4
  <2>3. k \in Below(m) /\ k \notin Below(k)
    BY <1>4
  <2> QED  BY <2>1, <2>2, <2>3 DEF StrictSubsetOrdering
<1> QED  BY <1>4

-----------------------------------------------------------------------------
(* Places of the file. *)
Places == 1 .. Len(file) + 1

(* At is the file, and EOF behind it.                                       *)
LEMMA PlaceFacts ==
  ASSUME file \in Seq(Chars)
  PROVE  /\ Len(file) \in Nat
         /\ \A p \in Places : At(p) \in Chars \cup {EOF}
         /\ \A p \in Places : At(p) = EOF <=> p = Len(file) + 1
         /\ \A p \in Places : p <= Len(file) => At(p) = file[p]
<1>1. Len(file) \in Nat /\ DOMAIN file = 1 .. Len(file)
  OBVIOUS
<1>2. EOF \notin Chars
  BY ConfigAssumption DEF Chars, White, NewLine, Hash, EOF
<1>3. ASSUME NEW p \in Places
      PROVE  /\ At(p) \in Chars \cup {EOF}
             /\ At(p) = EOF <=> p = Len(file) + 1
             /\ p <= Len(file) => At(p) = file[p]
  <2>1. CASE p <= Len(file)
    <3>1. p \in DOMAIN file /\ p # Len(file) + 1
      BY <1>1, <2>1 DEF Places
    <3>2. At(p) = file[p] /\ file[p] \in Chars
      BY <1>1, <3>1 DEF At
    <3> QED  BY <1>2, <3>1, <3>2
  <2>2. CASE p = Len(file) + 1
    <3>1. At(p) = EOF
      BY <1>1, <2>2 DEF At
    <3> QED  BY <1>1, <2>2, <3>1
  <2> QED  BY <1>1, <2>1, <2>2 DEF Places
<1> QED  BY <1>1, <1>3

(* The end of the file stops every reading. *)
LEMMA FirstFacts ==
  ASSUME file \in Seq(Chars), NEW p \in Places, NEW Stop, EOF \in Stop
  PROVE  /\ First(p, Stop) \in p .. Len(file) + 1
         /\ At(First(p, Stop)) \in Stop
         /\ \A r \in p .. First(p, Stop) - 1 : At(r) \notin Stop
<1> DEFINE X == {q \in p .. Len(file) + 1 : At(q) \in Stop}
<1>1. Len(file) + 1 \in X /\ X \in SUBSET Nat
  BY PlaceFacts DEF Places
<1>2. PICK q \in X : \A k \in X : q <= k
  <2> HIDE DEF X
  <2> QED  BY <1>1, LeastNat
<1>3. \A r \in p .. q - 1 : At(r) \notin Stop
  <2> SUFFICES ASSUME NEW r \in p .. q - 1, At(r) \in Stop  PROVE FALSE
    OBVIOUS
  <2>1. r \in X /\ ~(q <= r)
    BY PlaceFacts DEF Places
  <2> QED  BY <1>2, <2>1
<1>4. q \in p .. Len(file) + 1 /\ At(q) \in Stop
  OBVIOUS
<1> QED  BY <1>3, <1>4 DEF First

(* A place with the property of First is the one it finds.                  *)
LEMMA FirstIs ==
  ASSUME file \in Seq(Chars), NEW p \in Places, NEW Stop, EOF \in Stop,
         NEW q \in p .. Len(file) + 1,
         At(q) \in Stop, \A r \in p .. q - 1 : At(r) \notin Stop
  PROVE  First(p, Stop) = q
<1> DEFINE f == First(p, Stop)
<1>1. /\ f \in p .. Len(file) + 1 /\ At(f) \in Stop
      /\ \A r \in p .. f - 1 : At(r) \notin Stop
  BY FirstFacts
<1>2. Len(file) \in Nat
  OBVIOUS
<1> HIDE DEF f
<1>3. ~(f < q)
  BY <1>1, <1>2 DEF Places
<1>4. ~(q < f)
  BY <1>1, <1>2 DEF Places
<1> QED  BY <1>1, <1>2, <1>3, <1>4 DEF f, Places

(* What is no letter, and is no place's character. *)
LEMMA Separators ==
  /\ Chars \cup {EOF} = Letters \cup {White, NewLine, Hash, EOF}
  /\ White # NewLine /\ White # EOF /\ NewLine # EOF /\ Hash # White
  /\ Hash # NewLine /\ Hash # EOF
  /\ \A c \in Letters : c \notin {White, NewLine, Hash, EOF}
BY ConfigAssumption DEF Chars, White, NewLine, Hash, EOF

-----------------------------------------------------------------------------
(* What the scanner reads. *)
LEMMA AfterWhiteFacts ==
  ASSUME file \in Seq(Chars), NEW p \in Places
  PROVE  /\ AfterWhite(p) \in p .. Len(file) + 1 /\ AfterWhite(p) \in Places
         /\ At(AfterWhite(p)) # White
         /\ \A r \in p .. AfterWhite(p) - 1 : At(r) = White
<1> DEFINE Stop == Letters \cup {NewLine, Hash, EOF}
           q == First(p, Stop)
<1>1. /\ q \in p .. Len(file) + 1 /\ At(q) \in Stop
      /\ \A r \in p .. q - 1 : At(r) \notin Stop
  BY FirstFacts
<1>2. At(q) # White
  BY <1>1, Separators
<1>3. AfterWhite(p) = q
  BY DEF AfterWhite
<1> HIDE DEF q
<1>4. ASSUME NEW r \in p .. q - 1  PROVE At(r) = White
  <2>1. r \in Places
    BY <1>1, PlaceFacts DEF Places
  <2>2. At(r) \notin Stop
    BY <1>1
  <2> QED  BY <2>1, <2>2, PlaceFacts, Separators
<1>5. q \in Places
  BY <1>1, PlaceFacts DEF Places
<1> QED  BY <1>1, <1>2, <1>3, <1>4, <1>5

(* The word ends where its letters do, or where it is full. *)
LEMMA WordEndFacts ==
  ASSUME file \in Seq(Chars), NEW p \in Places, NEW max \in Nat
  PROVE  /\ WordEnd(p, max) \in p .. Len(file) + 1 /\ WordEnd(p, max) \in Places
         /\ WordEnd(p, max) <= p + max
         /\ \A r \in p .. WordEnd(p, max) - 1 : At(r) \in Letters
         /\ WordEnd(p, max) = p + max \/ At(WordEnd(p, max)) \notin Letters
<1> DEFINE Stop == {White, NewLine, Hash, EOF}
           q == First(p, Stop)
           e == WordEnd(p, max)
<1>1. /\ q \in p .. Len(file) + 1 /\ At(q) \in Stop
      /\ \A r \in p .. q - 1 : At(r) \notin Stop
  BY FirstFacts
<1>2. e = IF q > p + max THEN p + max ELSE q
  BY DEF WordEnd
<1> HIDE DEF q, e
<1>3. Len(file) \in Nat /\ p \in Nat /\ q \in Nat
  BY <1>1 DEF Places
<1>4. e \in p .. q /\ e <= p + max /\ (e = p + max \/ e = q)
  BY <1>1, <1>2, <1>3
<1>5. e \in p .. Len(file) + 1 /\ e \in Places
  BY <1>1, <1>3, <1>4 DEF Places
<1>6. ASSUME NEW r \in p .. e - 1  PROVE At(r) \in Letters
  <2>1. r \in Places /\ r \in p .. q - 1
    BY <1>1, <1>3, <1>4, <1>5 DEF Places
  <2> QED  BY <1>1, <2>1, PlaceFacts, Separators
<1>7. e = q => At(e) \notin Letters
  BY <1>1, Separators
<1> QED  BY <1>4, <1>5, <1>6, <1>7 DEF e

EndOfLine(p) == First(p, {NewLine, EOF})

(* NextLine is behind the end of the line, or at the end of the file.       *)
LEMMA LineFacts ==
  ASSUME file \in Seq(Chars), NEW p \in Places
  PROVE  /\ EndOfLine(p) \in p .. Len(file) + 1 /\ EndOfLine(p) \in Places
         /\ At(EndOfLine(p)) = NewLine \/ EndOfLine(p) = Len(file) + 1
         /\ \A r \in p .. EndOfLine(p) - 1 : At(r) # NewLine
         /\ NextLine(p) \in Places
         /\ \/ NextLine(p) = EndOfLine(p) /\ NextLine(p) = Len(file) + 1
            \/ /\ NextLine(p) = EndOfLine(p) + 1 /\ EndOfLine(p) <= Len(file)
               /\ file[EndOfLine(p)] = NewLine
<1> DEFINE q == EndOfLine(p)
<1>1. /\ q \in p .. Len(file) + 1 /\ At(q) \in {NewLine, EOF}
      /\ \A r \in p .. q - 1 : At(r) \notin {NewLine, EOF}
  BY FirstFacts DEF EndOfLine
<1>2. NextLine(p) = IF At(q) = EOF THEN q ELSE q + 1
  BY DEF NextLine, EndOfLine
<1> HIDE DEF q
<1>3. q \in Places
  BY <1>1, PlaceFacts DEF Places
<1>4. CASE At(q) = EOF
  <2>1. q = Len(file) + 1
    BY <1>3, <1>4, PlaceFacts
  <2> QED  BY <1>1, <1>2, <1>3, <1>4, <2>1 DEF q
<1>5. CASE At(q) = NewLine
  <2>1. At(q) # EOF
    BY <1>5, Separators
  <2>2. q <= Len(file) /\ file[q] = NewLine
    BY <1>3, <1>5, <2>1, PlaceFacts DEF Places
  <2>3. q + 1 \in Places
    BY <1>3, <2>2, PlaceFacts DEF Places
  <2> QED  BY <1>1, <1>2, <1>3, <1>5, <2>1, <2>2, <2>3 DEF q
<1> QED  BY <1>1, <1>4, <1>5

(* Text is a part of the file.                                              *)
LEMMA TextFacts ==
  ASSUME file \in Seq(Chars), NEW p \in Places, NEW q \in Places, p <= q
  PROVE  /\ Text(p, q) \in Seq(Chars)
         /\ Len(Text(p, q)) = q - p
         /\ \A k \in 1 .. q - p : Text(p, q)[k] = file[p + k - 1]
<1>1. p \in Int /\ q - 1 \in Int /\ Len(file) \in Nat
  BY DEF Places
<1>2. \A k \in p .. q - 1 : file[k] \in Chars
  BY <1>1 DEF Places
<1>3. /\ SubSeq(file, p, q - 1) \in Seq(Chars)
      /\ Len(SubSeq(file, p, q - 1)) = IF p <= q - 1 THEN q - 1 - p + 1 ELSE 0
      /\ \A k \in 1 .. q - 1 - p + 1 : SubSeq(file, p, q - 1)[k] = file[p + k - 1]
  BY <1>1, <1>2, SubSeqProperties
<1> QED  BY <1>1, <1>3 DEF Text, Places

(* A word consists of letters.                                              *)
LEMMA WordIsText ==
  ASSUME file \in Seq(Chars), NEW p \in Places, NEW max \in Nat
  PROVE  Text(p, WordEnd(p, max)) \in Seq(Letters)
<1> DEFINE e == WordEnd(p, max)
<1>0. /\ e \in Places /\ e \in p .. Len(file) + 1
      /\ \A r \in p .. e - 1 : At(r) \in Letters
  BY WordEndFacts
<1> HIDE DEF e
<1>1. e \in Places /\ p <= e /\ \A r \in p .. e - 1 : At(r) \in Letters
  BY <1>0 DEF Places
<1>2. p \in Int /\ e - 1 \in Int /\ Len(file) \in Nat
  BY <1>1 DEF Places
<1>3. ASSUME NEW r \in p .. e - 1  PROVE file[r] \in Letters
  <2>1. r \in Places /\ r <= Len(file)
    BY <1>1, <1>2 DEF Places
  <2> QED  BY <1>1, <2>1, PlaceFacts
<1>4. SubSeq(file, p, e - 1) \in Seq(Letters)
  BY <1>2, <1>3, SubSeqProperties
<1> QED  BY <1>4 DEF Text, e

-----------------------------------------------------------------------------
(* Type correctness. *)
LEMMA TypeInit == Init => TypeOK
<1> SUFFICES ASSUME Init  PROVE TypeOK
  OBVIOUS
<1>1. PICK n \in 0 .. MaxFile : file \in [1 .. n -> Chars]
  BY DEF Init
<1>2. file \in Seq(Chars) /\ Len(file) = n
  BY <1>1, ConfigAssumption
<1>3. cfgKey \in Seq(Letters)
  BY DEF Init
<1>4. /\ DOMAIN conf = Fields /\ \A f \in Fields : conf[f] = Unset
      /\ Debug \in Fields
  BY ConfigAssumption DEF Init
<1>5. cfgValue \in [1 .. VALUE_LEN + 1 -> Letters \cup {Nul}]
  BY DEF Init
<1> QED  BY <1>2, <1>3, <1>4, <1>5 DEF Init, TypeOK

(* What is written to the array is letters and Nul, behind them what was   *)
(* there.                                                                  *)
LEMMA WrittenType ==
  ASSUME TypeOK, NEW value \in Seq(Letters)
  PROVE  /\ Written(value) \in [1 .. VALUE_LEN + 1 -> Letters \cup {Nul}]
         /\ [k \in 1 .. DEBUG_NUM |-> Written(value)[k]]
              \in [1 .. DEBUG_NUM -> Letters \cup {Nul}]
<1> DEFINE Cell(k) == IF k <= Len(value) THEN value[k]
                      ELSE IF k = Len(value) + 1 THEN Nul ELSE cfgValue[k]
<1>1. ASSUME NEW k \in 1 .. VALUE_LEN + 1  PROVE Cell(k) \in Letters \cup {Nul}
  <2>1. CASE k <= Len(value)
    <3>1. value[k] \in Letters
      BY <2>1
    <3> QED  BY <2>1, <3>1
  <2>2. CASE ~(k <= Len(value))
    BY <2>2 DEF TypeOK
  <2> QED  BY <2>1, <2>2
<1>2. Written(value) = [k \in 1 .. VALUE_LEN + 1 |-> Cell(k)]
  BY DEF Written
<1> HIDE DEF Cell
<1>3. Written(value) \in [1 .. VALUE_LEN + 1 -> Letters \cup {Nul}]
  BY <1>1, <1>2
<1>4. 1 .. DEBUG_NUM \subseteq 1 .. VALUE_LEN + 1
  BY ConfigAssumption
<1> QED  BY <1>3, <1>4

(* What the assignment leaves in the fields is of their types.             *)
LEMMA AssignedType ==
  ASSUME TypeOK, NEW value \in Seq(Letters)
  PROVE  /\ DOMAIN Assigned(value) = Fields
         /\ \A f \in Fields \ {Debug} :
              Assigned(value)[f] \in Seq(Letters) \cup {Unset}
         /\ Assigned(value)[Debug]
              \in [1 .. DEBUG_NUM -> Letters \cup {Nul}] \cup {Unset}
<1>0. Debug \in Fields
  BY ConfigAssumption
<1>1. CASE cfgKey \in Fields \ {Debug}
  BY <1>0, <1>1 DEF Assigned, TypeOK
<1>2. CASE cfgKey = Debug
  <2> DEFINE debugCfg == [k \in 1 .. DEBUG_NUM |-> Written(value)[k]]
  <2>1. debugCfg \in [1 .. DEBUG_NUM -> Letters \cup {Nul}]
    BY WrittenType
  <2>2. Assigned(value) = [conf EXCEPT ![Debug] = debugCfg]
    BY <1>0, <1>2 DEF Assigned
  <2> HIDE DEF debugCfg
  <2> QED  BY <1>0, <2>1, <2>2 DEF TypeOK
<1>3. CASE cfgKey \notin Fields
  BY <1>0, <1>3 DEF Assigned, TypeOK
<1> QED  BY <1>1, <1>2, <1>3

(* Every action keeps the types: the scanner stays in the file.             *)
LEMMA TypeNext == TypeOK /\ [Next]_vars => TypeOK'
<1> SUFFICES ASSUME TypeOK, [Next]_vars  PROVE TypeOK'
  OBVIOUS
<1>1. /\ file \in Seq(Chars) /\ pos \in Places
      /\ KEY_LEN \in Nat /\ VALUE_LEN \in Nat
  BY ConfigAssumption DEF TypeOK, Places
<1>2. AfterWhite(pos) \in Places
  BY <1>1, AfterWhiteFacts
<1>3. CASE NextCfgKey
  <2> DEFINE start == AfterWhite(pos)
             end == WordEnd(start, KEY_LEN)
  <2>1. end \in Places /\ Text(start, end) \in Seq(Letters)
    BY <1>1, <1>2, WordEndFacts, WordIsText
  <2>2. /\ pos' = end /\ phase' = IF Found(end) THEN "value" ELSE "done"
        /\ cfgKey' = IF At(start) = EOF THEN cfgKey ELSE Text(start, end)
        /\ file' = file /\ conf' = conf /\ cfgValue' = cfgValue
    BY <1>3 DEF NextCfgKey
  <2> HIDE DEF start, end
  <2>3. cfgKey' \in Seq(Letters)
    BY <2>1, <2>2 DEF TypeOK
  <2> QED  BY <2>1, <2>2, <2>3 DEF TypeOK, Places
<1>4. CASE NextCfgValue
  <2> DEFINE start == AfterWhite(pos)
             end == WordEnd(start, VALUE_LEN)
  <2>1. end \in Places /\ Text(start, end) \in Seq(Letters)
    BY <1>1, <1>2, WordEndFacts, WordIsText
  <2>2. NextLine(end) \in Places
    BY <1>1, <2>1, LineFacts
  <2>3. /\ pos' = NextLine(end) /\ phase' = "key"
        /\ conf' = Assigned(Text(start, end))
        /\ cfgValue' = Written(Text(start, end))
        /\ file' = file /\ cfgKey' = cfgKey
    BY <1>4 DEF NextCfgValue
  <2> HIDE DEF start, end
  <2>4. /\ DOMAIN conf' = Fields
        /\ \A f \in Fields \ {Debug} : conf'[f] \in Seq(Letters) \cup {Unset}
        /\ conf'[Debug] \in [1 .. DEBUG_NUM -> Letters \cup {Nul}] \cup {Unset}
    BY <2>1, <2>3, AssignedType
  <2>5. cfgValue' \in [1 .. VALUE_LEN + 1 -> Letters \cup {Nul}]
    BY <2>1, <2>3, WrittenType
  <2> QED  BY <2>2, <2>3, <2>4, <2>5 DEF TypeOK, Places
<1>5. CASE UNCHANGED vars
  BY <1>5 DEF TypeOK, vars
<1> QED  BY <1>3, <1>4, <1>5 DEF Next, Terminated

(* The scanner stays in the file, and keys and values are words of it      *)
(* (NextCfgKey, NextCfgValue).                                             *)
THEOREM ConfigTypeOK == Spec => []TypeOK
BY TypeInit, TypeNext, PTL DEF Spec

-----------------------------------------------------------------------------
(* What a line means is what the scanner reads of it. *)
LEMMA SubText ==
  ASSUME file \in Seq(Chars), NEW p \in Places, NEW m \in Places,
         NEW n \in Places, NEW q \in Places, p <= m, m <= n, n <= q
  PROVE  SubSeq(Text(p, q), m - p + 1, n - p) = Text(m, n)
<1> DEFINE t == Text(p, q)
           u == SubSeq(t, m - p + 1, n - p)
<1>1. p \in Nat /\ m \in Nat /\ n \in Nat /\ q \in Nat /\ p <= q
  BY DEF Places
<1>2. /\ Len(t) = q - p
      /\ \A k \in 1 .. q - p : t[k] = file[p + k - 1]
      /\ \A k \in 1 .. q - p : t[k] \in Chars
  <2>1. /\ t \in Seq(Chars) /\ Len(t) = q - p
        /\ \A k \in 1 .. q - p : t[k] = file[p + k - 1]
    BY <1>1, TextFacts
  <2> HIDE DEF t
  <2>2. ASSUME NEW k \in 1 .. q - p  PROVE t[k] \in Chars
    BY <2>1
  <2> QED  BY <2>1, <2>2
<1>3. /\ Text(m, n) \in Seq(Chars) /\ Len(Text(m, n)) = n - m
      /\ \A k \in 1 .. n - m : Text(m, n)[k] = file[m + k - 1]
  BY TextFacts
<1> HIDE DEF t
<1>4. /\ u \in Seq(Chars) /\ Len(u) = n - m
      /\ \A k \in 1 .. n - m : u[k] = t[m - p + 1 + k - 1]
  <2>1. m - p + 1 \in Int /\ n - p \in Int
    BY <1>1
  <2>2. \A k \in m - p + 1 .. n - p : t[k] \in Chars
    BY <1>1, <1>2
  <2>3. /\ u \in Seq(Chars)
        /\ Len(u) = IF m - p + 1 <= n - p THEN n - p - (m - p + 1) + 1 ELSE 0
        /\ \A k \in 1 .. n - p - (m - p + 1) + 1 : u[k] = t[m - p + 1 + k - 1]
    BY <2>1, <2>2, SubSeqProperties
  <2>4. n - p - (m - p + 1) + 1 = n - m
    BY <1>1
  <2> HIDE DEF u
  <2> QED  BY <1>1, <2>3, <2>4
<1> HIDE DEF u
<1>5. ASSUME NEW k \in 1 .. n - m  PROVE u[k] = Text(m, n)[k]
  <2>1. m - p + 1 + k - 1 \in 1 .. q - p /\ p + (m - p + 1 + k - 1) - 1 = m + k - 1
    BY <1>1
  <2> QED  BY <1>2, <1>3, <1>4, <2>1
<1>6. u = Text(m, n)
  BY <1>3, <1>4, <1>5, SeqEqual
<1> QED  BY <1>6 DEF u, t

(* Stripped skips what AfterWhite skips.                                    *)
LEMMA StrippedText ==
  ASSUME file \in Seq(Chars), NEW p \in Places, NEW b \in Places, p <= b,
         At(b) # White
  PROVE  /\ AfterWhite(p) <= b
         /\ Stripped(Text(p, b)) = Text(AfterWhite(p), b)
<1> DEFINE s == AfterWhite(p)
           t == Text(p, b)
           first == {n \in DOMAIN t : t[n] # White}
<1>1. /\ s \in Places /\ p <= s /\ At(s) # White
      /\ \A r \in p .. s - 1 : At(r) = White
  <2>1. s \in p .. Len(file) + 1
    BY AfterWhiteFacts
  <2> HIDE DEF s
  <2>2. p <= s
    BY <2>1 DEF Places
  <2> QED  BY <2>2, AfterWhiteFacts DEF s
<1>2. /\ t \in Seq(Chars) /\ Len(t) = b - p
      /\ \A k \in 1 .. b - p : t[k] = file[p + k - 1]
  BY TextFacts
<1> HIDE DEF s, t
<1>3. p \in Nat /\ b \in Nat /\ s \in Nat /\ Len(file) \in Nat
  BY <1>1 DEF Places
<1>4. s <= b
  <2>1. ~(b \in p .. s - 1)
    BY <1>1
  <2> QED  BY <1>3, <2>1
<1>5. \A k \in 1 .. b - p : t[k] = At(p + k - 1)
  <2> SUFFICES ASSUME NEW k \in 1 .. b - p  PROVE t[k] = At(p + k - 1)
    OBVIOUS
  <2>1. p + k - 1 \in Places /\ p + k - 1 <= Len(file)
    BY <1>3 DEF Places
  <2> QED  BY <1>2, <2>1, PlaceFacts
<1>6. DOMAIN t = 1 .. b - p
  BY <1>2
<1>7. Stripped(t) = IF first = {} THEN <<>>
                    ELSE SubSeq(t, CHOOSE n \in first : \A m \in first : n <= m,
                                Len(t))
  BY DEF Stripped
<1>8. CASE s = b
  <2>1. ASSUME NEW n \in first  PROVE FALSE
    <3>1. p + n - 1 \in p .. s - 1
      BY <1>3, <1>6, <1>8
    <3> QED  BY <1>1, <1>5, <1>6, <3>1
  <2>2. Text(s, b) = <<>>
    BY <1>3, <1>8, SubSeqEmpty DEF Text
  <2>3. first = {}
    BY <2>1
  <2> QED  BY <1>4, <1>7, <2>2, <2>3 DEF s, t
<1>9. CASE s < b
  <2> DEFINE n0 == s - p + 1
  <2>1. n0 \in 1 .. b - p /\ p + n0 - 1 = s
    BY <1>1, <1>3, <1>9
  <2>2. n0 \in first
    <3>1. t[n0] = At(p + n0 - 1)
      BY <1>5, <2>1
    <3> QED  BY <1>1, <1>6, <2>1, <3>1
  <2>3. ASSUME NEW m \in first  PROVE n0 <= m
    <3>1. m \in 1 .. b - p /\ At(p + m - 1) # White
      BY <1>5, <1>6
    <3>2. ~(p + m - 1 \in p .. s - 1)
      BY <1>1, <3>1
    <3> QED  BY <1>3, <3>1, <3>2
  <2>4. ASSUME NEW m \in first, \A k \in first : m <= k  PROVE m = n0
    <3>1. m <= n0 /\ n0 <= m /\ m \in Nat
      BY <1>6, <2>2, <2>3, <2>4
    <3> QED  BY <1>3, <3>1
  <2> HIDE DEF first
  <2>5. (CHOOSE n \in first : \A m \in first : n <= m) = n0
    BY <2>2, <2>3, <2>4
  <2>6. Stripped(t) = SubSeq(t, n0, Len(t))
    BY <1>7, <2>2, <2>5
  <2>7. SubSeq(Text(p, b), s - p + 1, b - p) = Text(s, b)
    BY <1>1, <1>3, <1>4, SubText
  <2> QED  BY <1>2, <1>4, <2>6, <2>7 DEF s, t
<1> QED  BY <1>3, <1>4, <1>8, <1>9

(* WordOf finds the word that WordEnd ends.                                 *)
LEMMA WordOfText ==
  ASSUME file \in Seq(Chars), NEW s \in Places, NEW b \in Places, s <= b,
         At(b) \notin Letters, NEW max \in Nat
  PROVE  /\ WordEnd(s, max) <= b
         /\ WordOf(Text(s, b), max) = Text(s, WordEnd(s, max))
         /\ Len(Text(s, WordEnd(s, max))) = WordEnd(s, max) - s
<1> DEFINE e == WordEnd(s, max)
           t == Text(s, b)
           ends == {n \in 0 .. Len(t) :
                      n <= max /\ \A k \in 1 .. n : t[k] \in Letters}
           n0 == e - s
<1>1. /\ e \in s .. Len(file) + 1 /\ e \in Places /\ e <= s + max
      /\ \A r \in s .. e - 1 : At(r) \in Letters
      /\ e = s + max \/ At(e) \notin Letters
  BY WordEndFacts
<1>2. /\ t \in Seq(Chars) /\ Len(t) = b - s
      /\ \A k \in 1 .. b - s : t[k] = file[s + k - 1]
  BY TextFacts
<1> HIDE DEF e, t
<1>3. s \in Nat /\ b \in Nat /\ e \in Nat /\ s <= e /\ Len(file) \in Nat
  BY <1>1 DEF Places
<1>4. e <= b
  <2>1. ~(b \in s .. e - 1)
    BY <1>1
  <2> QED  BY <1>3, <2>1
<1>5. \A k \in 1 .. b - s : t[k] = At(s + k - 1)
  <2> SUFFICES ASSUME NEW k \in 1 .. b - s  PROVE t[k] = At(s + k - 1)
    OBVIOUS
  <2>1. s + k - 1 \in Places /\ s + k - 1 <= Len(file)
    BY <1>3 DEF Places
  <2> QED  BY <1>2, <2>1, PlaceFacts
<1>6. n0 \in ends
  <2>1. n0 \in 0 .. Len(t) /\ n0 <= max
    BY <1>1, <1>2, <1>3, <1>4
  <2>2. ASSUME NEW k \in 1 .. n0  PROVE t[k] \in Letters
    <3>1. k \in 1 .. b - s /\ s + k - 1 \in s .. e - 1
      BY <1>3, <1>4
    <3> QED  BY <1>1, <1>5, <3>1
  <2> QED  BY <2>1, <2>2
<1>7. ASSUME NEW m \in ends  PROVE m <= n0
  <2>1. m \in 0 .. b - s /\ m <= max /\ \A k \in 1 .. m : t[k] \in Letters
    BY <1>2
  <2>2. CASE e = s + max
    BY <1>3, <2>1, <2>2
  <2>3. CASE At(e) \notin Letters
    <3> SUFFICES ASSUME n0 < m  PROVE FALSE
      BY <1>3, <2>1
    <3>1. e - s + 1 \in 1 .. m /\ e - s + 1 \in 1 .. b - s /\ s + (e - s + 1) - 1 = e
      BY <1>3, <2>1
    <3>2. t[e - s + 1] \in Letters /\ t[e - s + 1] = At(s + (e - s + 1) - 1)
      BY <1>5, <2>1, <3>1
    <3> QED  BY <2>3, <3>1, <3>2
  <2> QED  BY <1>1, <2>2, <2>3
<1>8. ASSUME NEW m \in ends, \A k \in ends : k <= m  PROVE m = n0
  <2>1. m <= n0 /\ n0 <= m /\ m \in Nat
    BY <1>6, <1>7, <1>8
  <2> QED  BY <1>3, <2>1
<1>9. WordOf(t, max) = SubSeq(t, 1, CHOOSE n \in ends : \A m \in ends : m <= n)
  BY DEF WordOf
<1> HIDE DEF ends
<1>10. (CHOOSE n \in ends : \A m \in ends : m <= n) = n0
  BY <1>6, <1>7, <1>8
<1>11. SubSeq(Text(s, b), s - s + 1, e - s) = Text(s, e)
  BY <1>1, <1>3, <1>4, SubText
<1>12. s - s + 1 = 1
  BY <1>3
<1>13. Len(Text(s, e)) = e - s
  BY <1>1, <1>3, TextFacts
<1> QED  BY <1>4, <1>9, <1>10, <1>11, <1>12, <1>13 DEF e, t

KeyEnd(a) == WordEnd(AfterWhite(a), KEY_LEN)
ValueEnd(a) == WordEnd(AfterWhite(KeyEnd(a)), VALUE_LEN)

(* The key and the value of the line that begins at a. *)
LEMMA LineRead ==
  ASSUME file \in Seq(Chars), NEW a \in Places
  PROVE  LET b == EndOfLine(a)
         IN  /\ KeyEnd(a) \in Places /\ a <= KeyEnd(a) /\ KeyEnd(a) <= b
             /\ KeyOf(Text(a, b)) = Text(AfterWhite(a), KeyEnd(a))
             /\ AfterKey(Text(a, b)) = Text(KeyEnd(a), b)
             /\ ValueEnd(a) \in Places /\ a <= ValueEnd(a) /\ ValueEnd(a) <= b
             /\ ValueOf(Text(a, b)) = Text(AfterWhite(KeyEnd(a)), ValueEnd(a))
             /\ EndOfLine(ValueEnd(a)) = b
<1> DEFINE b == EndOfLine(a)
           s == AfterWhite(a)
           e == KeyEnd(a)
           s2 == AfterWhite(e)
           e2 == ValueEnd(a)
<1>1. /\ b \in Places /\ a <= b /\ At(b) \in {NewLine, EOF}
      /\ b \in a .. Len(file) + 1
      /\ \A r \in a .. b - 1 : At(r) \notin {NewLine, EOF}
  <2>1. b \in Places /\ b \in a .. Len(file) + 1
    BY LineFacts
  <2>2. /\ At(b) \in {NewLine, EOF}
        /\ \A r \in a .. b - 1 : At(r) \notin {NewLine, EOF}
    BY FirstFacts DEF EndOfLine
  <2> HIDE DEF b
  <2> QED  BY <2>1, <2>2 DEF Places
<1>2. At(b) # White /\ At(b) \notin Letters
  BY <1>1, Separators
<1>3. KEY_LEN \in Nat /\ VALUE_LEN \in Nat
  BY ConfigAssumption
<1>4. s \in Places /\ s <= b /\ Stripped(Text(a, b)) = Text(s, b) /\ s \in a .. Len(file) + 1
  BY <1>1, <1>2, StrippedText, AfterWhiteFacts
<1>5. /\ e \in Places /\ e <= b /\ e \in s .. Len(file) + 1
      /\ WordOf(Text(s, b), KEY_LEN) = Text(s, e) /\ Len(Text(s, e)) = e - s
  BY <1>1, <1>2, <1>3, <1>4, WordOfText, WordEndFacts DEF KeyEnd
<1>6. KeyOf(Text(a, b)) = Text(s, e)
  BY <1>4, <1>5 DEF KeyOf
<1>7. AfterKey(Text(a, b)) = Text(e, b)
  <2> HIDE DEF s, e, b
  <2>1. AfterKey(Text(a, b)) = SubSeq(Text(s, b), e - s + 1, Len(Text(s, b)))
    BY <1>4, <1>5, <1>6 DEF AfterKey
  <2>2. Len(Text(s, b)) = b - s
    BY <1>1, <1>4, TextFacts
  <2>3. SubSeq(Text(s, b), e - s + 1, b - s) = Text(e, b)
    <3>1. Len(file) \in Nat /\ s \in Nat /\ b \in Nat
      BY <1>1, <1>4 DEF Places
    <3>2. s <= e /\ b <= b
      BY <1>5, <3>1
    <3> QED  BY <1>1, <1>4, <1>5, <3>2, SubText
  <2> QED  BY <2>1, <2>2, <2>3
<1>8. /\ s2 \in Places /\ s2 <= b /\ Stripped(Text(e, b)) = Text(s2, b)
      /\ s2 \in e .. Len(file) + 1
  BY <1>1, <1>2, <1>5, StrippedText, AfterWhiteFacts
<1>9. /\ e2 \in Places /\ e2 <= b /\ e2 \in s2 .. Len(file) + 1
      /\ WordOf(Text(s2, b), VALUE_LEN) = Text(s2, e2)
  BY <1>1, <1>2, <1>3, <1>8, WordOfText, WordEndFacts DEF ValueEnd
<1>10. ValueOf(Text(a, b)) = Text(s2, e2)
  BY <1>7, <1>8, <1>9 DEF ValueOf
<1> HIDE DEF b, s, e, s2, e2
<1>11. a <= e /\ a <= e2
  BY <1>1, <1>4, <1>5, <1>8, <1>9 DEF Places
<1>12. EndOfLine(e2) = b
  <2>1. b \in e2 .. Len(file) + 1
    BY <1>1, <1>9 DEF Places
  <2>2. \A r \in e2 .. b - 1 : At(r) \notin {NewLine, EOF}
    BY <1>1, <1>9, <1>11 DEF Places
  <2> QED  BY <1>1, <1>9, <2>1, <2>2, FirstIs DEF EndOfLine
<1> QED
  BY <1>1, <1>5, <1>6, <1>7, <1>9, <1>10, <1>11, <1>12 DEF b, s, e, s2, e2

StartsLine(a) == a = 1 \/ file[a - 1] = NewLine

(* A line of the file is one from its first place to EndOfLine. *)
LEMMA LineEnds ==
  ASSUME file \in Seq(Chars), NEW l \in Lines
  PROVE  /\ l[1] \in Places /\ l[1] <= Len(file) /\ StartsLine(l[1])
         /\ l = <<l[1], EndOfLine(l[1])>>
<1> DEFINE a == l[1]
           b == l[2]
<1>1. /\ a \in 1 .. Len(file) /\ b \in 1 .. Len(file) + 1 /\ a <= b
      /\ l = <<a, b>> /\ StartsLine(a)
      /\ \A p \in a .. b - 1 : file[p] # NewLine
      /\ At(b) \in {NewLine, EOF}
  BY DEF Lines, StartsLine
<1> HIDE DEF a, b
<1>2. a \in Places /\ b \in Places /\ b \in a .. Len(file) + 1 /\ a <= Len(file)
  BY <1>1 DEF Places
<1>3. ASSUME NEW r \in a .. b - 1  PROVE At(r) \notin {NewLine, EOF}
  <2>1. r \in Places /\ r <= Len(file) /\ r # Len(file) + 1
    BY <1>2 DEF Places
  <2>2. At(r) = file[r] /\ At(r) # EOF
    BY <2>1, PlaceFacts
  <2> QED  BY <1>1, <2>2
<1>4. EndOfLine(a) = b
  BY <1>1, <1>2, <1>3, FirstIs DEF EndOfLine
<1> QED  BY <1>1, <1>2, <1>4 DEF a, b

(* No line begins within another one. *)
LEMMA NoLineWithin ==
  ASSUME file \in Seq(Chars), NEW a \in Places, NEW l \in Lines, a < l[1]
  PROVE  EndOfLine(a) < l[1]
<1> DEFINE b == EndOfLine(a)
<1>1. /\ b \in Places
      /\ \A r \in a .. b - 1 : At(r) # NewLine
  BY LineFacts
<1>2. l[1] \in Places /\ l[1] <= Len(file) /\ StartsLine(l[1])
  BY LineEnds
<1> HIDE DEF b
<1> SUFFICES ASSUME l[1] <= b  PROVE FALSE
  BY <1>1, <1>2 DEF b, Places
<1>3. /\ l[1] - 1 \in a .. b - 1 /\ l[1] - 1 \in Places /\ l[1] - 1 <= Len(file)
      /\ l[1] # 1
  BY <1>1, <1>2 DEF Places
<1>4. At(l[1] - 1) = NewLine
  BY <1>2, <1>3, PlaceFacts DEF StartsLine
<1> QED  BY <1>1, <1>3, <1>4

(* A line whose key does not end the file is one of Lines.                  *)
LEMMA LineIn ==
  ASSUME file \in Seq(Chars), NEW a \in Places, a <= Len(file), StartsLine(a),
         At(KeyEnd(a)) # EOF
  PROVE  <<a, EndOfLine(a)>> \in Lines
<1> DEFINE b == EndOfLine(a)
<1>1. /\ b \in Places /\ b \in a .. Len(file) + 1
      /\ At(b) = NewLine \/ b = Len(file) + 1
      /\ \A r \in a .. b - 1 : At(r) # NewLine
  BY LineFacts
<1>2. KeyEnd(a) \in Places /\ KeyEnd(a) <= b /\ AfterKey(Text(a, b)) = Text(KeyEnd(a), b)
  BY LineRead
<1> HIDE DEF b
<1>3. ASSUME NEW p \in a .. b - 1  PROVE file[p] # NewLine
  <2>1. p \in Places /\ p <= Len(file)
    BY <1>1 DEF Places
  <2> QED  BY <1>1, <2>1, PlaceFacts
<1>4. CASE At(b) = NewLine
  BY <1>1, <1>3, <1>4 DEF Lines, Places, StartsLine, b
<1>5. CASE b = Len(file) + 1
  <2>1. At(b) = EOF
    BY <1>1, <1>5, PlaceFacts
  <2>2. KeyEnd(a) < b
    BY <1>2, <1>5, <2>1 DEF Places
  <2>3. Len(Text(KeyEnd(a), b)) = b - KeyEnd(a) /\ Text(KeyEnd(a), b) \in Seq(Chars)
    BY <1>1, <1>2, TextFacts
  <2>4. Text(KeyEnd(a), b) # <<>>
    BY <1>1, <1>2, <2>2, <2>3 DEF Places
  <2> QED  BY <1>1, <1>2, <1>3, <2>1, <2>4 DEF Lines, Places, StartsLine, b
<1> QED  BY <1>1, <1>4, <1>5

-----------------------------------------------------------------------------
(* Between two lines, the fields are those of the lines before.            *)
Before(p) == {l \in Lines : l[1] < p}

With(f, L) == {l \in L : KeyOf(Text(l[1], l[2])) = f}

(* The fields in c are those of the lines in L. *)
Matches(L, c) ==
  \A f \in Fields :
    IF With(f, L) = {} THEN c[f] = Unset
    ELSE \E l \in With(f, L) : /\ \A k \in With(f, L) : k[1] <= l[1]
                               /\ MadeBy(l, f, c[f])

(* The array is what the lines in L have left of it.                       *)
Leaves(L, array) ==
  \A k \in 1 .. VALUE_LEN + 1 : LastWritten(L, k, array[k])

(* cfgKey is the key of the line at a, which the scanner is behind.        *)
InLine(a) ==
  /\ StartsLine(a)
  /\ pos = KeyEnd(a)
  /\ At(pos) # EOF
  /\ cfgKey = Text(AfterWhite(a), pos)
  /\ Matches(Before(a), conf)
  /\ Leaves(Before(a), cfgValue)

ScanInv ==
  /\ phase = "key" => /\ StartsLine(pos) \/ At(pos) = EOF
                      /\ Matches(Before(pos), conf)
                      /\ Leaves(Before(pos), cfgValue)
  /\ phase = "value" => \E a \in 1 .. Len(file) : InLine(a)
  /\ phase = "done" => Matches(Lines, conf)

(* What the invariant says after a step, in terms of the state before it.  *)
LEMMA InLineNext ==
  ASSUME NEW a, file' = file, conf' = conf, cfgValue' = cfgValue,
         StartsLine(a), pos' = KeyEnd(a),
         At(KeyEnd(a)) # EOF, cfgKey' = Text(AfterWhite(a), KeyEnd(a)),
         Matches(Before(a), conf), Leaves(Before(a), cfgValue)
  PROVE  InLine(a)'
<1>1. StartsLine(a)'
  BY DEF StartsLine
<1>2. AfterWhite(a)' = AfterWhite(a) /\ KeyEnd(a)' = KeyEnd(a)
  BY DEF KeyEnd, WordEnd, AfterWhite, First, At
<1>3. (At(pos) # EOF)'
  BY DEF At
<1>4. (cfgKey = Text(AfterWhite(a), pos))'
  BY <1>2 DEF Text
<1>5. Matches(Before(a), conf)' /\ Leaves(Before(a), cfgValue)'
  <2>1. Before(a)' = Before(a) /\ Lines' = Lines
    BY DEF Before, Lines, Text, At
  <2>2. Matches(Before(a), conf)'
    BY <2>1 DEF Matches, With, MadeBy, LastWritten, ValueIn, Text
  <2>3. Leaves(Before(a), cfgValue)'
    BY <2>1 DEF Leaves, LastWritten, ValueIn, Text
  <2> QED  BY <2>2, <2>3
<1> QED  BY <1>1, <1>2, <1>3, <1>4, <1>5 DEF InLine

(* Matches and Leaves depend on nothing but the file and their arguments.   *)
LEMMA MatchesNext ==
  ASSUME NEW p, file' = file, pos' = p
  PROVE  /\ Matches(Before(p), conf') => Matches(Before(pos), conf)'
         /\ Matches(Lines, conf') => Matches(Lines, conf)'
         /\ Leaves(Before(p), cfgValue') => Leaves(Before(pos), cfgValue)'
         /\ StartsLine(p) \/ At(p) = EOF => (StartsLine(pos) \/ At(pos) = EOF)'
<1>1. Before(pos)' = Before(p) /\ Lines' = Lines
  BY DEF Before, Lines, Text, At
<1>2. Matches(Before(p), conf') => Matches(Before(pos), conf)'
  BY <1>1 DEF Matches, With, MadeBy, LastWritten, ValueIn, Text
<1>3. Matches(Lines, conf') => Matches(Lines, conf)'
  BY <1>1 DEF Matches, With, MadeBy, LastWritten, ValueIn, Text
<1>4. Leaves(Before(p), cfgValue') => Leaves(Before(pos), cfgValue)'
  BY <1>1 DEF Leaves, LastWritten, ValueIn, Text
<1>5. StartsLine(p) \/ At(p) = EOF => (StartsLine(pos) \/ At(pos) = EOF)'
  BY DEF StartsLine, At
<1> QED  BY <1>2, <1>3, <1>4, <1>5

(* Before the first line, no field is set.                                  *)
LEMMA ScanInit == Init => ScanInv
<1> SUFFICES ASSUME Init  PROVE ScanInv
  OBVIOUS
<1>1. /\ pos = 1 /\ phase = "key" /\ conf = [f \in Fields |-> Unset]
      /\ cfgValue = [k \in 1 .. VALUE_LEN + 1 |-> Nul]
  BY DEF Init
<1>2. Before(1) = {}
  <2>1. ASSUME NEW l \in Lines  PROVE ~(l[1] < 1)
    BY DEF Lines
  <2> QED  BY <2>1 DEF Before
<1>3. Matches(Before(1), conf)
  BY <1>1, <1>2 DEF Matches, With
<1>4. Leaves(Before(1), cfgValue)
  BY <1>1, <1>2 DEF Leaves, LastWritten
<1> QED  BY <1>1, <1>3, <1>4 DEF ScanInv, StartsLine

(* NextCfgKey reads the key of the line it is at, or finds the end of the  *)
(* file instead: then no line has begun there or later.                    *)
LEMMA ScanKey ==
  ASSUME TypeOK, ScanInv, NextCfgKey
  PROVE  ScanInv'
<1>1. PICK a : a = pos
  OBVIOUS
<1> DEFINE s == AfterWhite(a)
           e == KeyEnd(a)
           b == EndOfLine(a)
<1>2. file \in Seq(Chars) /\ a \in Places /\ Len(file) \in Nat
  BY <1>1 DEF TypeOK, Places
<1>3. /\ phase = "key" /\ pos' = e /\ file' = file /\ conf' = conf
      /\ cfgValue' = cfgValue
      /\ cfgKey' = IF At(s) = EOF THEN cfgKey ELSE Text(s, e)
      /\ phase' = IF At(e) # EOF THEN "value" ELSE "done"
  BY <1>1 DEF NextCfgKey, KeyEnd, Found
<1>4. /\ StartsLine(a) \/ At(a) = EOF
      /\ Matches(Before(a), conf) /\ Leaves(Before(a), cfgValue)
  BY <1>1, <1>3 DEF ScanInv
<1>5. e \in Places /\ a <= e /\ e <= b /\ b \in Places
  BY <1>2, LineRead, LineFacts
<1>6. s \in Places /\ s \in a .. Len(file) + 1 /\ e \in s .. Len(file) + 1
  BY <1>2, ConfigAssumption, AfterWhiteFacts, WordEndFacts DEF KeyEnd
<1>7. CASE At(e) # EOF
  <2> HIDE DEF s, e, b
  <2>1. e # Len(file) + 1 /\ e <= Len(file)
    BY <1>2, <1>5, <1>7, PlaceFacts DEF Places
  <2>2. a \in 1 .. Len(file) /\ s # Len(file) + 1 /\ a # Len(file) + 1
    BY <1>2, <1>5, <1>6, <2>1 DEF Places
  <2>3. At(s) # EOF /\ At(a) # EOF
    BY <1>2, <1>6, <2>2, PlaceFacts
  <2>4. InLine(a)'
    BY <1>3, <1>4, <1>7, <2>3, InLineNext DEF s, e
  <2> QED  BY <1>3, <1>7, <2>2, <2>4 DEF ScanInv
<1>8. CASE At(e) = EOF
  <2>1. ASSUME NEW l \in Lines  PROVE l[1] < a
    <3>1. /\ l[1] \in Places /\ l[1] <= Len(file) /\ StartsLine(l[1])
          /\ l = <<l[1], EndOfLine(l[1])>>
      BY <1>2, LineEnds
    <3>2. e = Len(file) + 1 /\ b = Len(file) + 1
      BY <1>2, <1>5, <1>8, PlaceFacts DEF Places
    <3>3. CASE a < l[1]
      <4>1. b < l[1]
        BY <1>2, <3>3, NoLineWithin
      <4> QED  BY <1>2, <3>1, <3>2, <4>1 DEF Places
    <3>4. CASE a = l[1]
      <4>1. AfterKey(Text(a, b)) = Text(e, b)
        BY <1>2, LineRead
      <4>2. Text(e, b) = <<>>
        BY <1>2, <3>2, SubSeqEmpty DEF Text
      <4>3. l[2] = b /\ At(b) = EOF
        BY <1>8, <3>1, <3>2, <3>4
      <4>4. \/ At(l[2]) = NewLine
            \/ At(l[2]) = EOF /\ AfterKey(Text(l[1], l[2])) # <<>>
        BY DEF Lines
      <4> QED  BY <3>4, <4>1, <4>2, <4>3, <4>4, Separators
    <3> QED  BY <1>2, <3>1, <3>3, <3>4 DEF Places
  <2>2. Lines = Before(a)
    BY <2>1 DEF Before
  <2>3. Matches(Lines, conf)'
    BY <1>3, <1>4, <2>2, MatchesNext
  <2> QED  BY <1>3, <1>8, <2>3 DEF ScanInv
<1> QED  BY <1>7, <1>8

(* What a line leaves in the array: its value and Nul at the beginning,    *)
(* and behind them what the lines before have left.                        *)
LEMMA LeavesMore ==
  ASSUME NEW a \in Nat, NEW L, NEW l, l[1] = a, ValueIn(l) \in Seq(Letters),
         \A m \in L : m[1] <= a, Leaves(L, cfgValue)
  PROVE  Leaves(L \cup {l}, Written(ValueIn(l)))
<1> DEFINE M == L \cup {l}
           value == ValueIn(l)
           Long(X, k) == {m \in X : k <= Len(ValueIn(m)) + 1}
<1>1. ASSUME NEW k \in 1 .. VALUE_LEN + 1
      PROVE  LastWritten(M, k, Written(value)[k])
  <2>1. Written(value)[k] =
          IF k <= Len(value) THEN value[k]
          ELSE IF k = Len(value) + 1 THEN Nul ELSE cfgValue[k]
    BY DEF Written
  <2>2. Len(value) \in Nat
    OBVIOUS
  <2> HIDE DEF value
  <2>3. CASE k <= Len(value) + 1
    <3>1. l \in Long(M, k) /\ \A m \in Long(M, k) : m[1] <= l[1]
      BY <2>3 DEF value
    <3>2. Written(value)[k] = IF k <= Len(value) THEN value[k] ELSE Nul
      BY <2>1, <2>2, <2>3
    <3> QED  BY <3>1, <3>2 DEF LastWritten, value
  <2>4. CASE ~(k <= Len(value) + 1)
    <3>1. Long(M, k) = Long(L, k)
      BY <2>4 DEF value
    <3>2. Written(value)[k] = cfgValue[k]
      BY <2>1, <2>2, <2>4
    <3>3. LastWritten(L, k, cfgValue[k])
      BY DEF Leaves
    <3> QED  BY <3>1, <3>2, <3>3 DEF LastWritten
  <2> QED  BY <2>3, <2>4
<1> QED  BY <1>1 DEF Leaves

(* A line that is read sets the field of its key, and no other; and the    *)
(* array.                                                                  *)
LEMMA AddLine ==
  ASSUME TypeOK, NEW a \in Places, Matches(Before(a), conf),
         Leaves(Before(a), cfgValue),
         cfgKey = KeyOf(Text(a, EndOfLine(a))),
         ValueOf(Text(a, EndOfLine(a))) \in Seq(Letters),
         conf' = Assigned(ValueOf(Text(a, EndOfLine(a)))),
         cfgValue' = Written(ValueOf(Text(a, EndOfLine(a)))),
         NEW L, L = Before(a) \cup {<<a, EndOfLine(a)>>},
         {m \in Lines : m[1] <= a} = L
  PROVE  Matches(L, conf') /\ Leaves(L, cfgValue')
<1> DEFINE l == <<a, EndOfLine(a)>>
           value == ValueOf(Text(a, EndOfLine(a)))
<1>1. /\ l[1] = a /\ l[2] = EndOfLine(a) /\ a \in Nat /\ value = ValueIn(l)
      /\ Debug \in Fields
  BY ConfigAssumption DEF Places, ValueIn
<1>2. \A k \in Before(a) : k[1] <= a
  <2> SUFFICES ASSUME NEW k \in Before(a)  PROVE k[1] <= a
    OBVIOUS
  <2>1. k[1] \in Nat /\ k[1] < a
    BY DEF Before, Lines
  <2> QED  BY <1>1, <2>1
<1>a. Leaves(L, Written(value))
  <2>1. ValueIn(l) \in Seq(Letters)
    BY <1>1
  <2> HIDE DEF l, value
  <2>2. Leaves(Before(a) \cup {l}, Written(ValueIn(l)))
    BY <1>1, <1>2, <2>1, LeavesMore
  <2> QED  BY <1>1, <2>2 DEF l
<1>b. MadeBy(l, cfgKey, conf'[cfgKey]) \/ cfgKey \notin Fields
  <2>1. CASE cfgKey \in Fields \ {Debug}
    BY <1>1, <2>1 DEF Assigned, TypeOK, MadeBy
  <2>2. CASE cfgKey = Debug
    <3>1. \A k \in 1 .. DEBUG_NUM : conf'[Debug][k] = Written(value)[k]
      BY <1>1, <2>2 DEF Assigned, TypeOK
    <3>2. \A k \in 1 .. DEBUG_NUM : LastWritten(L, k, Written(value)[k])
      <4>1. \A k \in 1 .. DEBUG_NUM : k \in 1 .. VALUE_LEN + 1
        BY ConfigAssumption
      <4>2. \A k \in 1 .. VALUE_LEN + 1 : LastWritten(L, k, Written(value)[k])
        BY <1>a DEF Leaves
      <4> QED  BY ONLY <4>1, <4>2
    <3>3. {m \in Lines : m[1] <= l[1]} = L
      BY <1>1
    <3> HIDE DEF l, value
    <3> QED  BY <2>2, <3>1, <3>2, <3>3 DEF MadeBy
  <2> QED  BY <2>1, <2>2
<1>3. ASSUME NEW f \in Fields
      PROVE  IF With(f, L) = {} THEN conf'[f] = Unset
             ELSE \E m \in With(f, L) :
                    /\ \A k \in With(f, L) : k[1] <= m[1]
                    /\ MadeBy(m, f, conf'[f])
  <2>1. CASE f = cfgKey
    <3>1. l \in With(f, L)
      BY <1>1, <2>1 DEF With
    <3>2. \A k \in With(f, L) : k[1] <= l[1]
      BY <1>1, <1>2 DEF With
    <3>3. MadeBy(l, f, conf'[f])
      BY <1>b, <2>1
    <3> QED  BY <3>1, <3>2, <3>3
  <2>2. CASE f # cfgKey
    <3>1. With(f, L) = With(f, Before(a))
      BY <1>1, <2>2 DEF With
    <3>2. conf'[f] = conf[f]
      BY <1>1, <2>2 DEF Assigned, TypeOK
    <3> QED  BY <3>1, <3>2 DEF Matches
  <2> QED  BY <2>1, <2>2
<1>4. Matches(L, conf')
  BY <1>3 DEF Matches
<1> QED  BY <1>4, <1>a

(* NextCfgValue reads the value, and comes to the next line.               *)
LEMMA ScanValue ==
  ASSUME TypeOK, ScanInv, NextCfgValue
  PROVE  ScanInv'
<1>1. PICK a \in 1 .. Len(file) : InLine(a)
  BY DEF ScanInv, NextCfgValue
<1> DEFINE e == KeyEnd(a)
           e2 == ValueEnd(a)
           b == EndOfLine(a)
           next == NextLine(e2)
<1>2. file \in Seq(Chars) /\ Len(file) \in Nat /\ a \in Places /\ a <= Len(file)
  BY DEF TypeOK, Places
<1>3. /\ StartsLine(a) /\ pos = e /\ At(e) # EOF /\ Matches(Before(a), conf)
      /\ cfgKey = Text(AfterWhite(a), e) /\ Leaves(Before(a), cfgValue)
  BY <1>1 DEF InLine
<1>4. /\ phase' = "key" /\ file' = file /\ pos' = next
      /\ conf' = Assigned(Text(AfterWhite(e), e2))
      /\ cfgValue' = Written(Text(AfterWhite(e), e2))
  BY <1>3 DEF NextCfgValue, ValueEnd
<1>5. /\ KeyOf(Text(a, b)) = Text(AfterWhite(a), e)
      /\ ValueOf(Text(a, b)) = Text(AfterWhite(e), e2)
      /\ e2 \in Places /\ EndOfLine(e2) = b
  BY <1>2, LineRead
<1>6. /\ next \in Places
      /\ \/ next = b /\ next = Len(file) + 1
         \/ next = b + 1 /\ b <= Len(file) /\ file[b] = NewLine
  BY <1>2, <1>5, LineFacts
<1>7. b \in Places /\ b \in a .. Len(file) + 1
  BY <1>2, LineFacts
<1>8. <<a, b>> \in Lines
  BY <1>2, <1>3, LineIn
<1>a. Text(AfterWhite(e), e2) \in Seq(Letters)
  <2>1. e \in Places /\ VALUE_LEN \in Nat
    BY <1>2, ConfigAssumption, LineRead
  <2>2. AfterWhite(e) \in Places
    BY <1>2, <2>1, AfterWhiteFacts
  <2> QED  BY <1>2, <2>1, <2>2, WordIsText DEF ValueEnd
<1> HIDE DEF e, e2, b, next
<1>9. Before(next) = Before(a) \cup {<<a, b>>}
  <2>1. a < next
    BY <1>2, <1>6, <1>7 DEF Places
  <2>2. ASSUME NEW l \in Lines, l[1] < next, ~(l[1] < a)  PROVE l = <<a, b>>
    <3>1. l[1] \in Places /\ l[1] <= Len(file) /\ l = <<l[1], EndOfLine(l[1])>>
      BY <1>2, LineEnds
    <3>2. CASE l[1] = a
      BY <3>1, <3>2 DEF b
    <3>3. CASE a < l[1]
      <4>1. b < l[1]
        BY <1>2, <3>3, NoLineWithin DEF b
      <4> QED  BY <1>2, <1>6, <1>7, <2>2, <3>1, <4>1 DEF Places
    <3> QED  BY <1>2, <2>2, <3>1, <3>2, <3>3 DEF Places
  <2>3. ASSUME NEW l \in Lines, l[1] < a  PROVE l[1] < next
    BY <1>2, <1>6, <2>1, <2>3 DEF Places, Lines
  <2>4. <<a, b>> \in Before(next)
    BY <1>8, <2>1 DEF Before
  <2>5. Before(next) \subseteq Before(a) \cup {<<a, b>>}
    BY <2>2 DEF Before
  <2>6. Before(a) \subseteq Before(next)
    BY <2>3 DEF Before
  <2> QED  BY <2>4, <2>5, <2>6
<1>b. {m \in Lines : m[1] <= a} = Before(next)
  <2>1. ASSUME NEW m \in Lines, m[1] <= a
        PROVE  m \in Before(a) \cup {<<a, b>>}
    <3>1. m[1] \in Places /\ m = <<m[1], EndOfLine(m[1])>>
      BY <1>2, LineEnds
    <3>2. CASE m[1] = a
      BY <3>1, <3>2 DEF b
    <3>3. CASE m[1] # a
      BY <1>2, <2>1, <3>1, <3>3 DEF Before, Places
    <3> QED  BY <3>2, <3>3
  <2>2. ASSUME NEW m \in Before(a) \cup {<<a, b>>}
        PROVE  m \in Lines /\ m[1] <= a
    <3>1. CASE m \in Before(a)
      <4>1. m \in Lines /\ m[1] < a /\ m[1] \in Places
        BY <1>2, <3>1, LineEnds DEF Before
      <4> QED  BY <1>2, <4>1 DEF Places
    <3>2. CASE m = <<a, b>>
      BY <1>2, <1>8, <3>2 DEF Places
    <3> QED  BY <2>2, <3>1, <3>2
  <2> QED  BY <1>9, <2>1, <2>2
<1>10. Matches(Before(next), conf') /\ Leaves(Before(next), cfgValue')
  BY <1>2, <1>3, <1>4, <1>5, <1>9, <1>a, <1>b, AddLine DEF b
<1>11. StartsLine(next) \/ At(next) = EOF
  <2>1. CASE next = Len(file) + 1
    BY <1>2, <1>6, <2>1, PlaceFacts
  <2>2. CASE next = b + 1 /\ file[b] = NewLine
    <3>1. next - 1 = b
      BY <1>2, <1>7, <2>2 DEF Places
    <3> QED  BY <2>2, <3>1 DEF StartsLine
  <2> QED  BY <1>6, <2>1, <2>2
<1>12. /\ Matches(Before(pos), conf)' /\ Leaves(Before(pos), cfgValue)'
       /\ (StartsLine(pos) \/ At(pos) = EOF)'
  BY <1>4, <1>10, <1>11, MatchesNext
<1> QED  BY <1>4, <1>12 DEF ScanInv

(* Every action keeps the invariant of the scanner.                         *)
LEMMA ScanNext == TypeOK /\ ScanInv /\ [Next]_vars => ScanInv'
<1> SUFFICES ASSUME TypeOK, ScanInv, [Next]_vars  PROVE ScanInv'
  OBVIOUS
<1>1. CASE UNCHANGED vars
  <2>1. PICK p : p = pos
    OBVIOUS
  <2>2. /\ file' = file /\ pos' = p /\ phase' = phase /\ cfgKey' = cfgKey
        /\ conf' = conf /\ cfgValue' = cfgValue
    BY <1>1, <2>1 DEF vars
  <2>3. CASE phase = "key"
    BY <2>1, <2>2, <2>3, MatchesNext DEF ScanInv
  <2>4. CASE phase = "value"
    <3>1. PICK a \in 1 .. Len(file) : InLine(a)
      BY <2>4 DEF ScanInv
    <3>2. InLine(a)'
      BY <2>1, <2>2, <3>1, InLineNext DEF InLine
    <3> QED  BY <2>2, <2>4, <3>2 DEF ScanInv
  <2>5. CASE phase = "done"
    BY <2>2, <2>5, MatchesNext DEF ScanInv
  <2> QED  BY <2>2, <2>3, <2>4, <2>5 DEF ScanInv
<1> QED  BY <1>1, ScanKey, ScanValue DEF Next, Terminated

(* The scanner is where the lines have it, with what they have set so far.  *)
THEOREM ConfigScanInv == Spec => []ScanInv
<1>1. TypeOK /\ ScanInv /\ [Next]_vars => ScanInv'
  BY ScanNext
<1> QED  BY <1>1, ScanInit, ConfigTypeOK, PTL DEF Spec

(* ConfigParse asks for a key only where a line begins, or at the end of   *)
(* the file (mConfig.c:33, 60-67): a comment, a long key or value, a line  *)
(* without a value, a last line without an end never shift it.             *)
THEOREM ConfigKeysStartLines == Spec => []KeysStartLines
<1>1. ScanInv => KeysStartLines
  BY DEF ScanInv, KeysStartLines, StartsLine
<1> QED  BY <1>1, ConfigScanInv, PTL

(* In the end each field has the value of the last line with its key, and  *)
(* debugCfg the first DEBUG_NUM characters of the array that the values of *)
(* all lines up to that one were written to (mConfig.c:103-145), for every *)
(* file.                                                                   *)
THEOREM ConfigMatches == Spec => []ConfigMatchesFile
<1>1. ScanInv => ConfigMatchesFile
  BY DEF ScanInv, ConfigMatchesFile, Matches, With
<1> QED  BY <1>1, ConfigScanInv, PTL

-----------------------------------------------------------------------------
(* What is left to do: a character that is not read yet counts twice, as a *)
(* line that is over leads to one more key.                                *)
Remaining ==
  2 * (Len(file) + 1 - pos)
    + (CASE phase = "key" -> 2 [] phase = "value" -> 1 [] phase = "done" -> 0)

(* A value is asked for only before the end of the file (Found).           *)
LEMMA ValueBeforeEnd == ScanInv /\ phase = "value" => At(pos) # EOF
BY DEF ScanInv, InLine

(* A step, from a state that the scanner can be in.                         *)
LEMMA StepDescends ==
  ASSUME TypeOK, ScanInv, NextCfgKey \/ NextCfgValue
  PROVE  Remaining \in Nat /\ Remaining' \in Nat /\ Remaining' < Remaining
<1>1. /\ file \in Seq(Chars) /\ pos \in Places /\ Len(file) \in Nat
      /\ KEY_LEN \in Nat /\ VALUE_LEN \in Nat
  BY ConfigAssumption DEF TypeOK, Places
<1>2. AfterWhite(pos) \in Places /\ pos <= AfterWhite(pos)
  BY <1>1, AfterWhiteFacts DEF Places
<1>3. CASE NextCfgKey
  <2>1. PICK end : end = WordEnd(AfterWhite(pos), KEY_LEN)
    OBVIOUS
  <2>2. end \in Places /\ AfterWhite(pos) <= end
    BY <1>1, <1>2, <2>1, WordEndFacts DEF Places
  <2>3. /\ phase = "key" /\ phase' \in {"value", "done"}
        /\ pos' = end /\ file' = file
    BY <1>3, <2>1 DEF NextCfgKey
  <2>4. Remaining = 2 * (Len(file) + 1 - pos) + 2
    BY <2>3 DEF Remaining
  <2>5. \/ Remaining' = 2 * (Len(file) + 1 - end) + 1
        \/ Remaining' = 2 * (Len(file) + 1 - end) + 0
    BY <2>3 DEF Remaining
  <2>6. /\ pos \in Int /\ end \in Int /\ 1 <= pos
        /\ pos <= end /\ end <= Len(file) + 1
    BY <1>1, <1>2, <2>2 DEF Places
  <2> QED  BY ONLY <1>1, <2>4, <2>5, <2>6
<1>4. CASE NextCfgValue
  <2>1. PICK end : end = WordEnd(AfterWhite(pos), VALUE_LEN)
    OBVIOUS
  <2>2. end \in Places /\ AfterWhite(pos) <= end
    BY <1>1, <1>2, <2>1, WordEndFacts DEF Places
  <2>3. phase = "value" /\ phase' = "key" /\ pos' = NextLine(end) /\ file' = file
    BY <1>4, <2>1 DEF NextCfgValue
  <2>4. pos <= Len(file)
    <3>1. At(pos) # EOF
      BY <2>3, ValueBeforeEnd
    <3> QED  BY <1>1, <3>1, PlaceFacts DEF Places
  <2>5. NextLine(end) \in Places /\ pos < NextLine(end)
    <3>1. /\ EndOfLine(end) \in end .. Len(file) + 1 /\ NextLine(end) \in Places
          /\ \/ NextLine(end) = Len(file) + 1
             \/ NextLine(end) = EndOfLine(end) + 1
      BY <1>1, <2>2, LineFacts
    <3> QED  BY <1>1, <1>2, <2>2, <2>4, <3>1 DEF Places
  <2>6. Remaining = 2 * (Len(file) + 1 - pos) + 1
    BY <2>3 DEF Remaining
  <2>7. Remaining' = 2 * (Len(file) + 1 - NextLine(end)) + 2
    BY <2>3 DEF Remaining
  <2>8. /\ pos \in Int /\ NextLine(end) \in Int /\ 1 <= pos
        /\ pos < NextLine(end) /\ NextLine(end) <= Len(file) + 1
    BY <1>1, <2>5 DEF Places
  <2> QED  BY ONLY <1>1, <2>6, <2>7, <2>8
<1> QED  BY <1>3, <1>4

(* Every call of NextCfgKey and NextCfgValue brings ConfigParse nearer to  *)
(* its end, for every file, the ungetc() of what ended a word included     *)
(* (mConfig.c:33,60-67): it calls them at most twice for each character    *)
(* and two times more. What is left for TLC is that it does call them.     *)
THEOREM ConfigDescends ==
  Spec => [][NextCfgKey \/ NextCfgValue
               => /\ Remaining \in Nat /\ Remaining' \in Nat
                  /\ Remaining' < Remaining]_vars
<1>1. TypeOK /\ ScanInv =>
        (NextCfgKey \/ NextCfgValue
           => /\ Remaining \in Nat /\ Remaining' \in Nat
              /\ Remaining' < Remaining)
  BY StepDescends
<1> QED  BY <1>1, ConfigTypeOK, ConfigScanInv, PTL
=============================================================================
