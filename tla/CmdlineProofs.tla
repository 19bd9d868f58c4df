--------------------------- MODULE CmdlineProofs ---------------------------
(***************************************************************************)
(* What config_from_cmdline makes of any command line, proved from the     *)
(* bottom up: inet_pton, for any text; url_parser, for any argument; the   *)
(* invariant of config_from_cmdline over them; and, the other way round,   *)
(* that whatever the usage text allows is read as what it means.           *)
(*                                                                         *)
(* inet_pton and counting are recursive, and the induction that their      *)
(* facts need is over a set of numbers (NumbersInduction): it follows from *)
(* the well-foundedness of the finite subsets of Nat.                      *)
(***************************************************************************)
EXTENDS Usage, FiniteSetTheorems, TLAPS

-----------------------------------------------------------------------------
(* Sequences, and induction.                                                *)

\* One sequence behind another.
LEMMA Joined ==
  ASSUME NEW S, NEW x \in Seq(S), NEW y \in Seq(S)
  PROVE  /\ x \o y \in Seq(S) /\ Len(x \o y) = Len(x) + Len(y)
         /\ \A i \in 1..Len(x) : (x \o y)[i] = x[i]
         /\ \A j \in 1..Len(y) : (x \o y)[Len(x) + j] = y[j]
<1>1. x \o y \in Seq(S) /\ Len(x \o y) = Len(x) + Len(y)
  OBVIOUS
<1>2. \A i \in 1..Len(x) : (x \o y)[i] = x[i]
  OBVIOUS
<1>3. ASSUME NEW j \in 1..Len(y) PROVE (x \o y)[Len(x) + j] = y[j]
  <2> DEFINE i == Len(x) + j
  <2>1. i \in Len(x) + 1..Len(x) + Len(y) /\ i - Len(x) = j
    OBVIOUS
  <2> HIDE DEF i
  <2>2. (x \o y)[i] = y[i - Len(x)]
    BY <2>1
  <2> QED
    BY <2>1, <2>2 DEF i
<1> QED
  BY <1>1, <1>2, <1>3

LEMMA JoinedIs ==
  ASSUME NEW S, NEW x \in Seq(S), NEW y \in Seq(S), NEW z, z = x \o y
  PROVE  /\ z \in Seq(S) /\ Len(z) = Len(x) + Len(y)
         /\ \A i \in 1..Len(x) : z[i] = x[i]
         /\ \A j \in 1..Len(y) : z[Len(x) + j] = y[j]
<1>1. /\ x \o y \in Seq(S) /\ Len(x \o y) = Len(x) + Len(y)
      /\ \A i \in 1..Len(x) : (x \o y)[i] = x[i]
      /\ \A j \in 1..Len(y) : (x \o y)[Len(x) + j] = y[j]
  BY Joined
<1> QED
  BY <1>1, Zenon

LEMMA LeastNumber ==
  ASSUME NEW T \in SUBSET Nat, T # {}
  PROVE  \E n \in T : \A m \in T : n <= m
<1> DEFINE Segments == {0..n : n \in T}
<1>1. Segments \subseteq FiniteSubsetsOf(Nat)
  <2> SUFFICES ASSUME NEW n \in T PROVE 0..n \in FiniteSubsetsOf(Nat)
    OBVIOUS
  <2>1. IsFiniteSet(0..n)
    BY FS_Interval
  <2> QED
    BY <2>1 DEF FiniteSubsetsOf
<1>2. Segments # {}
  OBVIOUS
<1>3. PICK X \in Segments : \A Y \in Segments : ~ (<<Y, X>> \in StrictSubsetOrdering(Nat))
  <2> HIDE DEF Segments
  <2> QED
    BY <1>1, <1>2, FS_StrictSubsetOrderingWellFounded, WFMin
<1>4. PICK n \in T : X = 0..n
  OBVIOUS
<1>5. ASSUME NEW m \in T, m < n PROVE FALSE
  <2>1. 0..m \subseteq X /\ 0..m # X
    BY <1>4, <1>5
  <2>2. 0..m \in Segments /\ 0..m \subseteq Nat /\ X \subseteq Nat
    BY <1>4
  <2> QED
    BY <2>1, <2>2, <1>3 DEF StrictSubsetOrdering
<1> QED
  BY <1>5

\* Induction, over a set of numbers in the place of a predicate.
LEMMA NumbersInduction ==
  ASSUME NEW T, 0 \in T, \A n \in Nat : n \in T => n + 1 \in T
  PROVE  Nat \subseteq T
<1> SUFFICES ASSUME NEW n \in Nat, n \notin T PROVE FALSE
  OBVIOUS
<1>1. PICK m \in Nat \ T : \A k \in Nat \ T : m <= k
  BY LeastNumber
<1>2. m - 1 \in Nat /\ m - 1 \notin Nat \ T
  BY <1>1
<1> QED
  BY <1>1, <1>2

-----------------------------------------------------------------------------
(* The run of inet_pton over a text.                                        *)

IsRun(n, g) == DOMAIN g = 0..n /\ g = [k \in 0..n |-> g[k]]

Unfolds(p, n, g) ==
  /\ IsRun(n, g)
  /\ g[0] = {Start}
  /\ \A k \in 1..n : g[k] = After(g[k - 1], p[k])

Recurs(p, n, g) == g = [k \in 0..n |-> IF k = 0 THEN {Start} ELSE After(g[k - 1], p[k])]

LEMMA UnfoldsFcn ==
  ASSUME NEW p, NEW n \in Nat, NEW g
  PROVE  Unfolds(p, n, g) <=> Recurs(p, n, g)
<1> DEFINE r == [k \in 0..n |-> IF k = 0 THEN {Start} ELSE After(g[k - 1], p[k])]
<1>1. /\ IsRun(n, r) /\ r[0] = {Start}
      /\ \A k \in 1..n : r[k] = After(g[k - 1], p[k])
  BY DEF IsRun
<1> HIDE DEF r
<1>2. g = r => Unfolds(p, n, g)
  BY <1>1 DEF Unfolds
<1>3. ASSUME Unfolds(p, n, g) PROVE g = r
  <2>1. ASSUME NEW k \in 0..n PROVE g[k] = r[k]
    <3>1. k = 0 \/ k \in 1..n
      OBVIOUS
    <3> QED
      BY <1>1, <1>3, <3>1 DEF Unfolds
  <2> QED
    BY <1>1, <1>3, <2>1 DEF Unfolds, IsRun
<1> QED
  BY <1>2, <1>3 DEF r, Recurs

LEMMA RunsExist ==
  ASSUME NEW p, NEW n \in Nat
  PROVE  \E g : Unfolds(p, n, g)
<1> DEFINE T == {m \in Nat : \E g : Unfolds(p, m, g)}
<1>1. 0 \in T
  <2>1. Unfolds(p, 0, [k \in 0..0 |-> {Start}])
    BY DEF Unfolds, IsRun
  <2> QED
    BY <2>1
<1>2. ASSUME NEW m \in Nat, m \in T PROVE m + 1 \in T
  <2>1. PICK g : Unfolds(p, m, g)
    BY <1>2
  <2> DEFINE h == [k \in 0..m + 1 |-> IF k <= m THEN g[k] ELSE After(g[m], p[m + 1])]
  <2>2. \A k \in 0..m : h[k] = g[k]
    OBVIOUS
  <2>3. h[m + 1] = After(h[m], p[m + 1])
    BY <2>2
  <2>4. IsRun(m + 1, h)
    BY DEF IsRun
  <2> HIDE DEF h
  <2>5. h[0] = {Start}
    BY <2>1, <2>2 DEF Unfolds
  <2>6. ASSUME NEW k \in 1..m + 1 PROVE h[k] = After(h[k - 1], p[k])
    <3>1. CASE k = m + 1
      BY <2>3, <3>1
    <3>2. CASE k \in 1..m
      <4>1. g[k] = After(g[k - 1], p[k]) /\ k \in 0..m /\ k - 1 \in 0..m
        BY <2>1, <3>2 DEF Unfolds
      <4> QED
        BY <2>2, <4>1
    <3> QED
      BY <3>1, <3>2
  <2>7. Unfolds(p, m + 1, h)
    BY <2>4, <2>5, <2>6 DEF Unfolds
  <2> QED
    BY <2>7
<1> HIDE DEF T
<1>3. Nat \subseteq T
  BY <1>1, <1>2, NumbersInduction
<1> QED
  BY <1>3 DEF T

LEMMA TraceUnfolds ==
  ASSUME NEW text \in Text
  PROVE  Unfolds(Append(text, "end"), Len(text) + 1, Trace(text))
<1> DEFINE p == Append(text, "end")
           P(g) == Recurs(p, Len(p), g)
<1>1. Trace(text) = CHOOSE g : P(g)
  BY DEF Trace, Recurs
<1>2. Len(p) = Len(text) + 1 /\ Len(p) \in Nat
  BY DEF Text
<1>3. \E g : P(g)
  BY <1>2, RunsExist, UnfoldsFcn
<1>4. P(Trace(text))
  <2> HIDE DEF P
  <2> QED
    BY <1>1, <1>3
<1> QED
  BY <1>2, <1>4, UnfoldsFcn

-----------------------------------------------------------------------------
(* Counting colons.                                                         *)

LEMMA ColonsCount ==
  ASSUME NEW text, NEW n \in Nat
  PROVE  /\ Colons(text, 0) = 0
         /\ Colons(text, n) \in Nat
         /\ text[n + 1] = ":" => Colons(text, n + 1) = Colons(text, n) + 1
         /\ text[n + 1] # ":" => Colons(text, n + 1) = Colons(text, n)
<1> DEFINE S(m) == {i \in 1..m : text[i] = ":"}
<1>1. \A m : Colons(text, m) = Cardinality(S(m))
  BY DEF Colons
<1>2. ASSUME NEW m \in Nat PROVE IsFiniteSet(S(m))
  <2>1. S(m) \subseteq 1..m /\ IsFiniteSet(1..m)
    BY FS_Interval
  <2> HIDE DEF S
  <2> QED
    BY <2>1, FS_Subset
<1>3. S(0) = {}
  OBVIOUS
<1>4. text[n + 1] = ":" => S(n + 1) = S(n) \union {n + 1}
  OBVIOUS
<1>5. text[n + 1] # ":" => S(n + 1) = S(n)
  OBVIOUS
<1>6. n + 1 \notin S(n)
  OBVIOUS
<1> HIDE DEF S
<1>7. Cardinality(S(n)) \in Nat
  BY <1>2, FS_CardinalityType
<1> QED
  BY <1>1, <1>2, <1>3, <1>4, <1>5, <1>6, <1>7, FS_EmptySet, FS_AddElement

LEMMA ColonsMonotone ==
  ASSUME NEW text, NEW n \in Nat, NEW i \in 0..n
  PROVE  Colons(text, i) <= Colons(text, n)
<1> DEFINE S(m) == {k \in 1..m : text[k] = ":"}
<1>1. S(i) \subseteq S(n) /\ IsFiniteSet(S(n))
  <2>1. S(i) \subseteq S(n) /\ S(n) \subseteq 1..n /\ IsFiniteSet(1..n)
    BY FS_Interval
  <2> HIDE DEF S
  <2> QED
    BY <2>1, FS_Subset
<1> HIDE DEF S
<1>2. Cardinality(S(i)) <= Cardinality(S(n))
  BY <1>1, FS_Subset
<1> QED
  BY <1>2 DEF S, Colons

\* The first place of some.
LEMMA FirstIsLeast ==
  ASSUME NEW places \in SUBSET (Nat \ {0})
  PROVE  /\ First(places) = 0 <=> places = {}
         /\ places # {} => First(places) \in places /\ \A j \in places : First(places) <= j
<1>1. CASE places = {}
  BY <1>1 DEF First
<1>2. CASE places # {}
  <2>1. \E i \in places : \A j \in places : i <= j
    BY <1>2, LeastNumber
  <2> QED
    BY <1>2, <2>1 DEF First
<1> QED
  BY <1>1, <1>2

\* The "::" is the first one.
LEMMA DoubleColonIsFirst ==
  ASSUME NEW text \in Text
  PROVE  /\ DoubleColon(text) \in 0..Len(text)
         /\ DoubleColon(text) # 0 =>
              /\ DoubleColon(text) < Len(text)
              /\ text[DoubleColon(text)] = ":" /\ text[DoubleColon(text) + 1] = ":"
         /\ \A i \in 1..Len(text) - 1 :
              text[i] = ":" /\ text[i + 1] = ":" => DoubleColon(text) \in 1..i
<1> DEFINE places == {i \in 1..Len(text) - 1 : text[i] = ":" /\ text[i + 1] = ":"}
<1>1. DoubleColon(text) = First(places)
  BY DEF DoubleColon
<1>2. places \in SUBSET (Nat \ {0}) /\ Len(text) \in Nat
  BY DEF Text
<1>3. /\ First(places) = 0 <=> places = {}
      /\ places # {} => First(places) \in places /\ \A j \in places : First(places) <= j
  <2> HIDE DEF places
  <2> QED
    BY <1>2, FirstIsLeast
<1>4. CASE places = {}
  BY <1>1, <1>2, <1>3, <1>4
<1>5. CASE places # {}
  <2>1. First(places) \in places /\ \A j \in places : First(places) <= j
    BY <1>3, <1>5
  <2>2. \A i \in 1..Len(text) - 1 : text[i] = ":" /\ text[i + 1] = ":" => i \in places
    OBVIOUS
  <2>3. /\ First(places) \in 1..Len(text) - 1
        /\ text[First(places)] = ":" /\ text[First(places) + 1] = ":"
    BY <2>1
  <2> HIDE DEF places
  <2> QED
    BY <1>1, <1>2, <2>1, <2>2, <2>3
<1> QED
  BY <1>4, <1>5

-----------------------------------------------------------------------------
(* One character more.                                                      *)

Machine(state, front, back, word) ==
  [state |-> state, front |-> front, back |-> back, word |-> word]

Reading == {"fword", "fcolon", "bword"}
Lost(s) == s.state \in {"failed", "scope", "spins"}

\* A character is a word, a delimiter or the end.
LEMMA Kinds ==
  /\ \A c \in Word : c \notin Delimiter /\ c # "end"
  /\ ":" \in Delimiter /\ "end" \notin Delimiter
  /\ \A c \in Delimiter : c \notin Word
<1>1. Word \intersect Delimiter = {} /\ "end" \notin Word
  BY AddressAssumption
<1>2. ":" \in Delimiter /\ "end" \notin Delimiter
  BY DEF Delimiter
<1> QED
  BY <1>1, <1>2, Zenon

LEMMA StaysLost == ASSUME NEW s, Lost(s), NEW c PROVE Lost(Step(s, c))
BY DEF Lost, Step, InScope, Fail

LEMMA WordStep ==
  ASSUME NEW state \in Reading, NEW front, NEW back, NEW word, NEW c \in Word
  PROVE  LET s == Step(Machine(state, front, back, word), c) IN
         /\ Hex[c] = None => Lost(s)
         /\ Hex[c] # None =>
              s = Machine(IF state = "bword" THEN "bword" ELSE "fword", front, back, The(Hex[c]))
<1>1. c # ":"
  BY Kinds
<1> QED
  BY <1>1 DEF Reading, Lost, Step, InWord, Digits, Fail, Machine

LEMMA SecondColonStep ==
  ASSUME NEW front, NEW back, NEW word
  PROVE  Step(Machine("fcolon", front, back, word), ":") = Machine("bword", front, back, word)
BY DEF Step, Machine

LEMMA EndOfWordStep ==
  ASSUME NEW state \in Reading, NEW front, NEW back, NEW word,
         NEW c \in {":", "end"}, state = "fcolon" => c = "end"
  PROVE  LET s == Step(Machine(state, front, back, word), c)
             next == IF c = "end" THEN "done" ELSE IF state = "bword" THEN "bword" ELSE "fcolon" IN
         /\ Len(front) + Len(back) = 8 => Lost(s)
         /\ Len(front) + Len(back) # 8 =>
              s = IF state = "bword" THEN Machine(next, front, Append(back, word), Zero)
                  ELSE Machine(next, Append(front, word), back, Zero)
<1>1. c \notin Word
  BY Kinds
<1>2. state \in {"fword", "bword"} => Step(Machine(state, front, back, word), c) =
                                      EndOfWord(Machine(state, front, back, word), c)
  BY <1>1 DEF Step, InWord, Machine
<1>3. state = "fcolon" => Step(Machine(state, front, back, word), c) =
                          EndOfWord(Machine("fword", front, back, word), c)
  BY <1>1 DEF Step, InWord, Machine
<1>4. ASSUME NEW t \in {"fword", "bword"}
      PROVE  LET s == EndOfWord(Machine(t, front, back, word), c)
                 next == IF c = "end" THEN "done" ELSE IF t = "bword" THEN "bword" ELSE "fcolon" IN
             /\ Len(front) + Len(back) = 8 => Lost(s)
             /\ Len(front) + Len(back) # 8 =>
                  s = IF t = "bword" THEN Machine(next, front, Append(back, word), Zero)
                      ELSE Machine(next, Append(front, word), back, Zero)
  <2> DEFINE m == Machine(t, front, back, word)
  <2>1. m.front = front /\ m.back = back /\ m.state = t /\ m.word = word
    BY DEF Machine
  <2>2. Full(m) <=> Len(front) + Len(back) = 8
    BY <2>1 DEF Full, Groups
  <2>3. Lost(Fail(m))
    BY DEF Fail, Lost, Machine
  <2>4. CASE c = ":"
    <3>1. EndOfWord(m, c) = IF Full(m) THEN Fail(m) ELSE
            [Store(m) EXCEPT !.state = IF m.state = "bword" THEN "bword" ELSE "fcolon"]
      BY <2>4 DEF EndOfWord
    <3> QED
      BY <2>1, <2>2, <2>3, <2>4, <3>1 DEF Store, Machine
  <2>5. CASE c = "end"
    <3>1. EndOfWord(m, c) = IF Full(m) THEN Fail(m) ELSE [Store(m) EXCEPT !.state = "done"]
      BY <2>5 DEF EndOfWord
    <3> QED
      BY <2>1, <2>2, <2>3, <2>5, <3>1 DEF Store, Machine
  <2> QED
    BY <2>4, <2>5
<1> QED
  BY <1>2, <1>3, <1>4 DEF Reading

LEMMA OtherStep ==
  ASSUME NEW state \in Reading, NEW front, NEW back, NEW word, NEW c \in Delimiter \ {":"}
  PROVE  Lost(Step(Machine(state, front, back, word), c))
<1>1. c \notin Word /\ c # "end"
  BY Kinds
<1> QED
  BY <1>1 DEF Reading, Delimiter, Lost, Step, InWord, EndOfWord, Store, Full, Fail, Machine

-----------------------------------------------------------------------------
(* What the groups are that the run has collected.                          *)

GroupValue == {Zero} \union UNION {Hex[w] : w \in Word}

\* v is what stands between the j-th colon and the next one.
Segment(text, n, v, j) ==
  /\ \A i \in 1..n : text[i] \in Word /\ Colons(text, i) = j => Hex[text[i]] = {v}
  /\ v = Zero \/ \E i \in 1..n : text[i] \in Word /\ Colons(text, i) = j

HexOrColon(text, i) == text[i] = ":" \/ (text[i] \in Word /\ Hex[text[i]] # None)

\* The segment between the two colons of the "::" is in neither.
Collected(text, n, front, back) ==
  /\ \A g \in 1..Len(front) : Segment(text, n, front[g], g - 1)
  /\ \A b \in 1..Len(back) : Segment(text, n, back[b], Len(front) + b)

InFront(text, n, state, front, back, word) ==
  /\ DoubleColon(text) = 0 \/ DoubleColon(text) >= n
  /\ Len(front) = Colons(text, n) /\ back = <<>>
  /\ state = "fcolon" <=> n > 0 /\ text[n] = ":"
  /\ state = "fcolon" => word = Zero

InBack(text, n, front, back) ==
  /\ DoubleColon(text) \in 1..n - 1
  /\ Len(front) = Colons(text, DoubleColon(text))
  /\ Len(front) + Len(back) + 1 = Colons(text, n)

Along(text, n, state, front, back, word) ==
  /\ state \in Reading
  /\ front \in Seq(GroupValue) /\ back \in Seq(GroupValue) /\ word \in GroupValue
  /\ Len(front) + Len(back) <= 8
  /\ \A i \in 1..n : HexOrColon(text, i)
  /\ Collected(text, n, front, back)
  /\ Segment(text, n, word, Colons(text, n))
  /\ IF state = "bword" THEN InBack(text, n, front, back)
                        ELSE InFront(text, n, state, front, back, word)

LEMMA OptionIsOne ==
  ASSUME NEW w \in Word, Hex[w] # None
  PROVE  Hex[w] = {The(Hex[w])} /\ The(Hex[w]) \in GroupValue
<1>1. AtMostOne(Hex[w])
  BY AddressAssumption
<1>2. The(Hex[w]) \in Hex[w]
  BY DEF The, None
<1> QED
  BY <1>1, <1>2 DEF AtMostOne, GroupValue

LEMMA SegmentGrows ==
  ASSUME NEW text, NEW n \in Nat, NEW v, NEW j, Segment(text, n, v, j),
         text[n + 1] \in Word => Colons(text, n + 1) # j
  PROVE  Segment(text, n + 1, v, j)
BY DEF Segment

LEMMA SegmentEmpty ==
  ASSUME NEW text, NEW n \in Nat, text[n + 1] = ":"
  PROVE  Segment(text, n + 1, Zero, Colons(text, n + 1))
<1> SUFFICES ASSUME NEW i \in 1..n + 1, text[i] \in Word, Colons(text, i) = Colons(text, n + 1)
             PROVE  FALSE
  BY DEF Segment
<1>1. i \in 0..n
  BY Kinds
<1>2. Colons(text, i) <= Colons(text, n) /\ Colons(text, n + 1) = Colons(text, n) + 1
      /\ Colons(text, n) \in Nat
  BY <1>1, ColonsMonotone, ColonsCount
<1> QED
  BY <1>2

\* Two words have a colon between them.
LEMMA SegmentWord ==
  ASSUME NEW text \in Text, Separated(text), NEW n \in Nat, n < Len(text),
         \A i \in 1..n : HexOrColon(text, i), text[n + 1] \in Word, NEW v, Hex[text[n + 1]] = {v}
  PROVE  Segment(text, n + 1, v, Colons(text, n + 1))
<1>1. ASSUME NEW i \in 1..n, text[i] \in Word, Colons(text, i) = Colons(text, n + 1)
      PROVE  FALSE
  <2>1. text[i + 1] \notin Word
    BY <1>1 DEF Separated, Text
  <2>2. i + 1 \in 1..n
    BY <1>1, <2>1
  <2>3. text[i + 1] = ":"
    BY <2>1, <2>2 DEF HexOrColon
  <2>4. Colons(text, i + 1) = Colons(text, i) + 1 /\ Colons(text, i) \in Nat
    BY <1>1, <2>3, ColonsCount
  <2>5. Colons(text, i + 1) <= Colons(text, n + 1)
    BY <2>2, ColonsMonotone
  <2> QED
    BY <1>1, <2>4, <2>5
<1> QED
  BY <1>1 DEF Segment

LEMMA CollectedGrows ==
  ASSUME NEW text, NEW n \in Nat, NEW front \in Seq(GroupValue), NEW back \in Seq(GroupValue),
         Collected(text, n, front, back), Len(front) <= Colons(text, n),
         back = <<>> \/ Len(front) + Len(back) < Colons(text, n)
  PROVE  Collected(text, n + 1, front, back)
<1>1. Colons(text, n) \in Nat
  BY ColonsCount
<1>2. text[n + 1] \in Word => Colons(text, n + 1) = Colons(text, n)
  BY Kinds, ColonsCount
<1>3. ASSUME NEW g \in 1..Len(front) PROVE Segment(text, n + 1, front[g], g - 1)
  <2>1. Segment(text, n, front[g], g - 1) /\ g - 1 # Colons(text, n)
    BY <1>1 DEF Collected
  <2> QED
    BY <1>2, <2>1, SegmentGrows
<1>4. ASSUME NEW b \in 1..Len(back) PROVE Segment(text, n + 1, back[b], Len(front) + b)
  <2>1. Segment(text, n, back[b], Len(front) + b) /\ Len(front) + b # Colons(text, n)
    BY <1>1 DEF Collected
  <2> QED
    BY <1>2, <2>1, SegmentGrows
<1> QED
  BY <1>3, <1>4 DEF Collected

LEMMA CollectedPastColon ==
  ASSUME NEW text, NEW n \in Nat, NEW front, NEW back,
         Collected(text, n, front, back), text[n + 1] = ":"
  PROVE  Collected(text, n + 1, front, back)
<1>1. text[n + 1] \notin Word
  BY Kinds
<1> QED
  BY <1>1, SegmentGrows DEF Collected

LEMMA CollectedMore ==
  ASSUME NEW text, NEW n \in Nat, NEW front \in Seq(GroupValue), NEW back \in Seq(GroupValue),
         NEW word \in GroupValue,
         Collected(text, n, front, back), Segment(text, n, word, Colons(text, n))
  PROVE  /\ Len(front) = Colons(text, n) /\ back = <<>> =>
              Collected(text, n, Append(front, word), back)
         /\ Len(front) + Len(back) + 1 = Colons(text, n) =>
              Collected(text, n, front, Append(back, word))
<1>1. Colons(text, n) \in Nat
  BY ColonsCount
<1>2. ASSUME Len(front) = Colons(text, n), back = <<>>
      PROVE  Collected(text, n, Append(front, word), back)
  <2> SUFFICES ASSUME NEW g \in 1..Len(Append(front, word))
               PROVE  Segment(text, n, Append(front, word)[g], g - 1)
    BY <1>2 DEF Collected
  <2>1. CASE g \in 1..Len(front)
    BY <2>1 DEF Collected
  <2>2. CASE g = Len(front) + 1
    BY <1>1, <1>2, <2>2
  <2> QED
    BY <2>1, <2>2
<1>3. ASSUME Len(front) + Len(back) + 1 = Colons(text, n)
      PROVE  Collected(text, n, front, Append(back, word))
  <2> SUFFICES ASSUME NEW b \in 1..Len(Append(back, word))
               PROVE  Segment(text, n, Append(back, word)[b], Len(front) + b)
    BY DEF Collected
  <2>1. CASE b \in 1..Len(back)
    BY <2>1 DEF Collected
  <2>2. CASE b = Len(back) + 1
    BY <1>1, <1>3, <2>2
  <2> QED
    BY <2>1, <2>2
<1> QED
  BY <1>2, <1>3

-----------------------------------------------------------------------------
(* The texts that inet_pton accepts.                                        *)

Regular(text) ==
  /\ \A i \in 1..Len(text) : HexOrColon(text, i)
  /\ Colons(text, Len(text)) <= IF DoubleColon(text) = 0 THEN 7 ELSE 8

\* Where n characters have led.
Follows(text, n, s) ==
  \/ \E state, front, back, word :
       s = Machine(state, front, back, word) /\ Along(text, n, state, front, back, word)
  \/ Lost(s) /\ ~Regular(text)

LEMMA AlongWord ==
  ASSUME NEW text \in Text, Separated(text), NEW n \in Nat, n < Len(text),
         NEW state, NEW front, NEW back, NEW word, Along(text, n, state, front, back, word),
         text[n + 1] \in Word, Hex[text[n + 1]] # None
  PROVE  Along(text, n + 1, IF state = "bword" THEN "bword" ELSE "fword", front, back,
               The(Hex[text[n + 1]]))
<1> DEFINE v == The(Hex[text[n + 1]])
<1>1. Hex[text[n + 1]] = {v} /\ v \in GroupValue
  BY OptionIsOne
<1> HIDE DEF v
<1>2. text[n + 1] # ":"
  BY Kinds
<1>3. Colons(text, n + 1) = Colons(text, n) /\ Colons(text, n) \in Nat
  BY <1>2, ColonsCount
<1>4. \A i \in 1..n + 1 : HexOrColon(text, i)
  BY DEF Along, HexOrColon
<1>5. Segment(text, n + 1, v, Colons(text, n + 1))
  BY <1>1, SegmentWord DEF Along
<1>6. CASE state = "bword"
  <2>1. InBack(text, n, front, back)
    BY <1>6 DEF Along
  <2>2. /\ Colons(text, DoubleColon(text)) \in Nat /\ DoubleColon(text) \in Nat
        /\ Len(front) \in Nat /\ Len(back) \in Nat
    BY <2>1, ColonsCount DEF InBack, Along
  <2>3. Collected(text, n + 1, front, back)
    BY <1>3, <2>1, <2>2, CollectedGrows DEF Along, InBack
  <2>4. InBack(text, n + 1, front, back)
    BY <1>3, <2>1, <2>2 DEF InBack
  <2> QED
    BY <1>1, <1>4, <1>5, <1>6, <2>3, <2>4 DEF Along, v
<1>7. CASE state # "bword"
  <2>1. InFront(text, n, state, front, back, word)
    BY <1>7 DEF Along
  <2>2. Collected(text, n + 1, front, back)
    <3>1. /\ front \in Seq(GroupValue) /\ back \in Seq(GroupValue)
          /\ Collected(text, n, front, back)
          /\ Len(front) <= Colons(text, n) /\ back = <<>>
      BY <1>3, <2>1 DEF Along, InFront
    <3> QED
      BY <3>1, CollectedGrows
  <2>3. DoubleColon(text) # 0 => DoubleColon(text) # n
    BY <1>2, DoubleColonIsFirst
  <2>4. DoubleColon(text) = 0 \/ DoubleColon(text) >= n + 1
    BY <2>1, <2>3, DoubleColonIsFirst DEF InFront
  <2>5. InFront(text, n + 1, "fword", front, back, v)
    BY <1>2, <1>3, <2>1, <2>4 DEF InFront
  <2> QED
    BY <1>1, <1>4, <1>5, <1>7, <2>2, <2>5 DEF Along, v, Reading
<1> QED
  BY <1>6, <1>7

LEMMA AlongSecondColon ==
  ASSUME NEW text \in Text, NEW n \in Nat, n < Len(text), NEW front, NEW back, NEW word,
         Along(text, n, "fcolon", front, back, word), text[n + 1] = ":"
  PROVE  Along(text, n + 1, "bword", front, back, word)
<1>1. InFront(text, n, "fcolon", front, back, word)
  BY DEF Along
<1>2. Colons(text, n + 1) = Colons(text, n) + 1 /\ Colons(text, n) \in Nat
  BY ColonsCount
<1>3. Collected(text, n + 1, front, back)
  BY CollectedPastColon DEF Along
<1>4. DoubleColon(text) = n
  <2>1. n \in 1..Len(text) - 1 /\ text[n] = ":"
    BY <1>1 DEF InFront, Text
  <2> QED
    BY <1>1, <2>1, DoubleColonIsFirst DEF InFront
<1>5. InBack(text, n + 1, front, back)
  <2>1. n > 0
    BY <1>1 DEF InFront
  <2>2. Len(back) = 0
    BY <1>1 DEF InFront
  <2> QED
    BY <1>1, <1>2, <1>4, <2>1, <2>2 DEF InFront, InBack
<1>6. Segment(text, n + 1, word, Colons(text, n + 1))
  BY <1>1, SegmentEmpty DEF InFront
<1>7. \A i \in 1..n + 1 : HexOrColon(text, i)
  BY DEF Along, HexOrColon
<1> QED
  BY <1>3, <1>5, <1>6, <1>7 DEF Along, Reading

\* A word ends at a colon.
LEMMA AlongColon ==
  ASSUME NEW text \in Text, NEW n \in Nat, n < Len(text), NEW state, NEW front, NEW back, NEW word,
         Along(text, n, state, front, back, word), state # "fcolon", text[n + 1] = ":",
         Len(front) + Len(back) # 8
  PROVE  IF state = "bword" THEN Along(text, n + 1, "bword", front, Append(back, word), Zero)
         ELSE Along(text, n + 1, "fcolon", Append(front, word), back, Zero)
<1>1. Colons(text, n + 1) = Colons(text, n) + 1 /\ Colons(text, n) \in Nat
  BY ColonsCount
<1>2. Segment(text, n + 1, Zero, Colons(text, n + 1))
  BY SegmentEmpty
<1>3. \A i \in 1..n + 1 : HexOrColon(text, i)
  BY DEF Along, HexOrColon
<1>4. /\ front \in Seq(GroupValue) /\ back \in Seq(GroupValue) /\ word \in GroupValue
      /\ Zero \in GroupValue
      /\ Append(front, word) \in Seq(GroupValue) /\ Append(back, word) \in Seq(GroupValue)
      /\ Len(Append(front, word)) = Len(front) + 1 /\ Len(Append(back, word)) = Len(back) + 1
      /\ Len(front) \in Nat /\ Len(back) \in Nat /\ Len(front) + Len(back) < 8
  BY DEF Along, GroupValue
<1>5. CASE state = "bword"
  <2>1. InBack(text, n, front, back)
    BY <1>5 DEF Along
  <2>2. Colons(text, DoubleColon(text)) \in Nat /\ DoubleColon(text) \in Nat
    BY <2>1, ColonsCount DEF InBack
  <2>3. Collected(text, n, front, Append(back, word))
    BY <1>4, <2>1, CollectedMore DEF Along, InBack
  <2>4. Collected(text, n + 1, front, Append(back, word))
    BY <1>1, <1>4, <2>3, CollectedPastColon
  <2>5. InBack(text, n + 1, front, Append(back, word))
    <3>1. DoubleColon(text) \in 1..n + 1 - 1
      BY <2>1, <2>2 DEF InBack
    <3>2. Len(front) + Len(Append(back, word)) + 1 = Colons(text, n + 1)
      BY <1>1, <1>4, <2>1 DEF InBack
    <3> QED
      BY <2>1, <3>1, <3>2 DEF InBack
  <2> QED
    BY <1>2, <1>3, <1>4, <1>5, <2>4, <2>5 DEF Along, Reading
<1>6. CASE state # "bword"
  <2>1. InFront(text, n, state, front, back, word)
    BY <1>6 DEF Along
  <2>2. Collected(text, n, Append(front, word), back)
    BY <1>4, <2>1, CollectedMore DEF Along, InFront
  <2>3. Collected(text, n + 1, Append(front, word), back)
    BY <1>1, <1>4, <2>2, CollectedPastColon
  <2>4. DoubleColon(text) = 0 \/ DoubleColon(text) >= n + 1
    <3>1. DoubleColon(text) = n /\ n # 0 => text[n] = ":"
      BY DoubleColonIsFirst
    <3> QED
      BY <2>1, <3>1, DoubleColonIsFirst DEF InFront, Along, Reading
  <2>5. InFront(text, n + 1, "fcolon", Append(front, word), back, Zero)
    BY <1>1, <1>4, <2>1, <2>4 DEF InFront
  <2> QED
    BY <1>2, <1>3, <1>4, <1>6, <2>3, <2>5 DEF Along, Reading
<1> QED
  BY <1>5, <1>6

LEMMA FullIsIrregular ==
  ASSUME NEW text \in Text, NEW n \in 0..Len(text), NEW state, NEW front, NEW back, NEW word,
         Along(text, n, state, front, back, word), Len(front) + Len(back) = 8,
         n = Len(text) \/ text[n + 1] = ":"
  PROVE  ~Regular(text)
<1>1. /\ n \in Nat /\ Colons(text, n) \in Nat /\ Colons(text, Len(text)) \in Nat
      /\ n < Len(text) => Colons(text, n) + 1 <= Colons(text, Len(text))
  <2>1. Len(text) \in Nat /\ n \in Nat
    BY DEF Text
  <2>2. n < Len(text) => Colons(text, n + 1) = Colons(text, n) + 1
    BY <2>1, ColonsCount
  <2>3. n < Len(text) => Colons(text, n + 1) <= Colons(text, Len(text))
    BY <2>1, ColonsMonotone
  <2> QED
    BY <2>1, <2>2, <2>3, ColonsCount
<1>2. CASE state = "bword"
  <2>1. Colons(text, n) = 9
    BY <1>1, <1>2 DEF Along, InBack
  <2> QED
    BY <1>1, <2>1 DEF Regular
<1>3. CASE state # "bword"
  <2>1. /\ Colons(text, n) = 8 /\ (DoubleColon(text) = 0 \/ DoubleColon(text) >= n)
    <3>1. InFront(text, n, state, front, back, word) /\ Len(front) \in Nat
      BY <1>3 DEF Along
    <3>2. Len(back) = 0
      BY <3>1 DEF InFront
    <3> QED
      BY <1>1, <3>1, <3>2 DEF InFront
  <2>2. n = Len(text) => DoubleColon(text) = 0
    BY <2>1, DoubleColonIsFirst DEF Text
  <2> QED
    BY <1>1, <2>1, <2>2 DEF Regular
<1> QED
  BY <1>2, <1>3

LEMMA FollowsStep ==
  ASSUME NEW text \in Text, Separated(text), NEW n \in Nat, n < Len(text), NEW s,
         Follows(text, n, s)
  PROVE  Follows(text, n + 1, Step(s, text[n + 1]))
<1> DEFINE c == text[n + 1]
<1>0. c \in Word \/ c = ":" \/ c \in Delimiter \ {":"}
  BY DEF Text
<1>1. CASE Lost(s) /\ ~Regular(text)
  BY <1>1, StaysLost DEF Follows
<1>2. ASSUME NEW state, NEW front, NEW back, NEW word,
             s = Machine(state, front, back, word), Along(text, n, state, front, back, word)
      PROVE  Follows(text, n + 1, Step(s, c))
  <2>0. state \in Reading /\ n + 1 \in 1..Len(text)
    BY <1>2 DEF Along, Text
  <2>1. CASE c \in Word /\ Hex[c] # None
    <3>1. Step(s, c) =
            Machine(IF state = "bword" THEN "bword" ELSE "fword", front, back, The(Hex[c]))
      BY <1>2, <2>0, <2>1, WordStep
    <3>2. Along(text, n + 1, IF state = "bword" THEN "bword" ELSE "fword", front, back, The(Hex[c]))
      BY <1>2, <2>1, AlongWord
    <3> QED
      BY <3>1, <3>2 DEF Follows
  <2>2. CASE c \in Word /\ Hex[c] = None
    <3>1. Lost(Step(s, c))
      BY <1>2, <2>0, <2>2, WordStep
    <3>2. ~HexOrColon(text, n + 1)
      BY <2>2, Kinds DEF HexOrColon
    <3> QED
      BY <2>0, <3>1, <3>2 DEF Follows, Regular
  <2>3. CASE c = ":" /\ state = "fcolon"
    <3>1. Step(s, c) = Machine("bword", front, back, word)
      BY <1>2, <2>3, SecondColonStep
    <3>2. Along(text, n + 1, "bword", front, back, word)
      BY <1>2, <2>3, AlongSecondColon
    <3> QED
      BY <3>1, <3>2 DEF Follows
  <2>4. CASE c = ":" /\ state # "fcolon" /\ Len(front) + Len(back) = 8
    <3>1. Lost(Step(s, c))
      BY <1>2, <2>0, <2>4, EndOfWordStep
    <3>2. ~Regular(text)
      BY <1>2, <2>0, <2>4, FullIsIrregular
    <3> QED
      BY <3>1, <3>2 DEF Follows
  <2>5. CASE c = ":" /\ state # "fcolon" /\ Len(front) + Len(back) # 8
    <3>1. Step(s, c) = IF state = "bword" THEN Machine("bword", front, Append(back, word), Zero)
                       ELSE Machine("fcolon", Append(front, word), back, Zero)
      <4>1. c # "end"
        BY <2>5
      <4> QED
        BY <1>2, <2>0, <2>5, <4>1, EndOfWordStep
    <3>2. IF state = "bword" THEN Along(text, n + 1, "bword", front, Append(back, word), Zero)
          ELSE Along(text, n + 1, "fcolon", Append(front, word), back, Zero)
      BY <1>2, <2>5, AlongColon
    <3> QED
      BY <3>1, <3>2 DEF Follows
  <2>6. CASE c \in Delimiter \ {":"}
    <3>1. Lost(Step(s, c))
      BY <1>2, <2>0, <2>6, OtherStep
    <3>2. ~HexOrColon(text, n + 1)
      BY <2>6, Kinds DEF HexOrColon
    <3> QED
      BY <2>0, <3>1, <3>2 DEF Follows, Regular
  <2> QED
    BY <1>0, <2>1, <2>2, <2>3, <2>4, <2>5, <2>6
<1> QED
  BY <1>1, <1>2 DEF Follows

LEMMA AlongStart == ASSUME NEW text \in Text PROVE Follows(text, 0, Start)
<1>1. Start = Machine("fword", <<>>, <<>>, Zero)
  BY DEF Start, Machine
<1>2. DoubleColon(text) = 0 \/ DoubleColon(text) >= 0
  BY DoubleColonIsFirst DEF Text
<1>3. Colons(text, 0) = 0
  BY ColonsCount
<1>4. Along(text, 0, "fword", <<>>, <<>>, Zero)
  BY <1>2, <1>3 DEF Along, Reading, GroupValue, Collected, Segment, InFront
<1> QED
  BY <1>1, <1>4 DEF Follows

\* What the run is in after n characters of the text.
LEMMA TraceFollows ==
  ASSUME NEW text \in Text, Separated(text), NEW n \in 0..Len(text)
  PROVE  \E s : Trace(text)[n] = {s} /\ Follows(text, n, s)
<1> DEFINE T == {k \in Nat : k > Len(text) \/ \E s : Trace(text)[k] = {s} /\ Follows(text, k, s)}
<1>0. Len(text) \in Nat /\ Unfolds(Append(text, "end"), Len(text) + 1, Trace(text))
  BY TraceUnfolds DEF Text
<1>1. 0 \in T
  BY <1>0, AlongStart DEF Unfolds
<1>2. ASSUME NEW k \in Nat, k \in T PROVE k + 1 \in T
  <2>1. CASE k + 1 > Len(text)
    BY <2>1
  <2>2. CASE k < Len(text)
    <3>1. PICK s : Trace(text)[k] = {s} /\ Follows(text, k, s)
      BY <1>0, <1>2, <2>2
    <3>2. Append(text, "end")[k + 1] = text[k + 1]
      BY <2>2 DEF Text
    <3>3. Trace(text)[k + 1] = After(Trace(text)[k], text[k + 1])
      <4>1. k + 1 \in 1..Len(text) + 1 /\ k + 1 - 1 = k
        BY <1>0, <2>2
      <4> QED
        BY <1>0, <3>2, <4>1 DEF Unfolds
    <3>4. Trace(text)[k + 1] = {Step(s, text[k + 1])}
      BY <3>1, <3>3 DEF After
    <3>5. Follows(text, k + 1, Step(s, text[k + 1]))
      BY <2>2, <3>1, FollowsStep
    <3> QED
      BY <3>4, <3>5
  <2> QED
    BY <1>0, <2>1, <2>2
<1> HIDE DEF T
<1>3. Nat \subseteq T
  BY <1>1, <1>2, NumbersInduction
<1> QED
  BY <1>0, <1>3 DEF T

-----------------------------------------------------------------------------
(* The end of the text, and what is made of the groups.                     *)

Ended(text, front, back) ==
  /\ front \in Seq(GroupValue) /\ back \in Seq(GroupValue) /\ Len(front) + Len(back) <= 8
  /\ Collected(text, Len(text), front, back)
  /\ IF DoubleColon(text) = 0
     THEN Len(front) = Colons(text, Len(text)) + 1 /\ back = <<>>
     ELSE /\ Len(front) = Colons(text, DoubleColon(text))
          /\ Len(front) + Len(back) = Colons(text, Len(text))

LEMMA FilledIs ==
  ASSUME NEW front \in Seq(GroupValue), NEW back \in Seq(GroupValue), NEW state, NEW word,
         Len(front) + Len(back) <= 8,
         NEW groups, groups = Filled(Machine(state, front, back, word))
  PROVE  /\ groups \in Seq(GroupValue) /\ Len(groups) = 8
         /\ \A g \in 1..Len(front) : groups[g] = front[g]
         /\ \A g \in Len(front) + 1..8 - Len(back) : groups[g] = Zero
         /\ \A b \in 1..Len(back) : groups[8 - Len(back) + b] = back[b]
<1> DEFINE zeros == [i \in 1..8 - Len(front) - Len(back) |-> Zero]
<1>1. /\ zeros \in Seq(GroupValue) /\ Len(zeros) = 8 - Len(front) - Len(back)
      /\ \A i \in 1..8 - Len(front) - Len(back) : zeros[i] = Zero
  BY DEF GroupValue
<1>2. groups = (front \o zeros) \o back
  BY DEF Filled, Machine, Groups
<1> HIDE DEF zeros
<1> DEFINE fz == front \o zeros
<1>3. /\ fz \in Seq(GroupValue) /\ Len(fz) = 8 - Len(back)
      /\ \A g \in 1..Len(front) : fz[g] = front[g]
      /\ \A g \in Len(front) + 1..8 - Len(back) : fz[g] = Zero
  <2>1. /\ fz \in Seq(GroupValue) /\ Len(fz) = Len(front) + Len(zeros)
        /\ \A g \in 1..Len(front) : fz[g] = front[g]
        /\ \A i \in 1..Len(zeros) : fz[Len(front) + i] = zeros[i]
    BY <1>1, Joined
  <2> HIDE DEF fz
  <2>2. Len(front) + Len(zeros) = 8 - Len(back)
    BY <1>1
  <2>3. ASSUME NEW g \in Len(front) + 1..8 - Len(back) PROVE fz[g] = Zero
    <3> DEFINE i == g - Len(front)
    <3>1. i \in 1..8 - Len(front) - Len(back) /\ Len(front) + i = g
      OBVIOUS
    <3> HIDE DEF i
    <3> QED
      BY <1>1, <2>1, <3>1
  <2> QED
    BY <2>1, <2>2, <2>3
<1> HIDE DEF fz
<1>4. /\ groups \in Seq(GroupValue) /\ Len(groups) = Len(fz) + Len(back)
      /\ \A g \in 1..Len(fz) : groups[g] = fz[g]
      /\ \A b \in 1..Len(back) : groups[Len(fz) + b] = back[b]
  <2>1. groups = fz \o back
    BY <1>2 DEF fz
  <2> QED
    BY <1>3, <2>1, Joined, SMTT(30)
<1>5. Len(fz) + Len(back) = 8
  BY <1>3
<1>6. \A b \in 1..Len(back) : groups[8 - Len(back) + b] = back[b]
  BY <1>3, <1>4
<1>7. /\ \A g \in 1..Len(front) : g \in 1..8 - Len(back)
      /\ \A g \in Len(front) + 1..8 - Len(back) : g \in 1..8 - Len(back)
  OBVIOUS
<1> QED
  BY <1>3, <1>4, <1>5, <1>6, <1>7

LEMMA EndedSpells ==
  ASSUME NEW text \in Text, NEW front, NEW back, NEW state, NEW word, Ended(text, front, back),
         \A i \in 1..Len(text) : HexOrColon(text, i)
  PROVE  SpellsAddress(text, Filled(Machine(state, front, back, word)))
<1> DEFINE groups == Filled(Machine(state, front, back, word))
           d == DoubleColon(text)
           C(n) == Colons(text, n)
<1>1. /\ groups \in Seq(GroupValue) /\ Len(groups) = 8
      /\ \A g \in 1..Len(front) : groups[g] = front[g]
      /\ \A g \in Len(front) + 1..8 - Len(back) : groups[g] = Zero
      /\ \A b \in 1..Len(back) : groups[8 - Len(back) + b] = back[b]
  <2>1. front \in Seq(GroupValue) /\ back \in Seq(GroupValue) /\ Len(front) + Len(back) <= 8
    BY DEF Ended
  <2>2. ASSUME NEW gs, gs = Filled(Machine(state, front, back, word))
        PROVE  /\ gs \in Seq(GroupValue) /\ Len(gs) = 8
               /\ \A g \in 1..Len(front) : gs[g] = front[g]
               /\ \A g \in Len(front) + 1..8 - Len(back) : gs[g] = Zero
               /\ \A b \in 1..Len(back) : gs[8 - Len(back) + b] = back[b]
    <3> HIDE DEF groups, d, C
    <3> QED
      BY <2>1, <2>2, FilledIs
  <2> QED
    BY <2>2, Zenon
<1>2. /\ Len(text) \in Nat /\ Len(front) \in Nat /\ Len(back) \in Nat
      /\ DOMAIN text = 1..Len(text) /\ Len(front) + Len(back) <= 8
  BY DEF Text, Ended
<1>3. \A i \in 0..Len(text) : C(i) \in Nat /\ C(i) <= C(Len(text))
  BY <1>2, ColonsCount, ColonsMonotone
<1>4. /\ d \in 0..Len(text) /\ (d # 0 => d < Len(text) /\ text[d] = ":" /\ text[d + 1] = ":")
  BY DoubleColonIsFirst
<1>5. ASSUME NEW i \in 1..Len(text), d # 0, i < d PROVE C(i) < C(d)
  <2>1. C(d) = C(d - 1) + 1
    <3>1. d - 1 \in Nat /\ d - 1 + 1 = d
      BY <1>4, <1>5
    <3> QED
      BY <1>4, <1>5, <3>1, ColonsCount
  <2>2. C(i) <= C(d - 1)
    BY <1>4, <1>5, ColonsMonotone
  <2>3. C(d - 1) \in Nat /\ C(i) \in Nat
    BY <1>2, <1>3, <1>4, <1>5
  <2> HIDE DEF C, d
  <2> QED
    BY <2>1, <2>2, <2>3
<1>6. ASSUME NEW i \in 1..Len(text), d # 0, i >= d PROVE C(i) >= C(d)
  BY <1>4, <1>6, ColonsMonotone
<1>7. ASSUME NEW i \in 1..Len(text), d # 0, text[i] \in Word, i >= d PROVE C(i) > C(d)
  <2>1. i # d /\ i # d + 1
    BY <1>4, <1>7, Kinds
  <2>2. C(d + 1) = C(d) + 1
    BY <1>4, <1>7, ColonsCount
  <2>3. C(d + 1) <= C(i)
    BY <1>4, <1>7, <2>1, ColonsMonotone
  <2> QED
    BY <1>2, <1>3, <1>4, <2>2, <2>3
<1>8. /\ \A g \in 1..Len(front) : Segment(text, Len(text), front[g], g - 1)
      /\ \A b \in 1..Len(back) : Segment(text, Len(text), back[b], Len(front) + b)
  BY DEF Ended, Collected
<1>9. IF d = 0 THEN Len(front) = C(Len(text)) + 1 /\ Len(back) = 0
      ELSE Len(front) = C(d) /\ Len(front) + Len(back) = C(Len(text))
  BY DEF Ended
<1>10. \A i : GroupAt(text, i) = IF d \in 1..i THEN 8 - (C(Len(text)) - C(i)) ELSE 1 + C(i)
  BY DEF GroupAt
<1> HIDE DEF groups, d, C
<1>11. ASSUME NEW i \in 1..Len(text), text[i] \in Word
       PROVE  GroupAt(text, i) \in 1..8 /\ Hex[text[i]] = {groups[GroupAt(text, i)]}
  <2>1. CASE d \in 1..i
    <3>1. C(i) - Len(front) \in 1..Len(back)
      BY <1>2, <1>3, <1>7, <1>9, <1>11, <2>1
    <3>2. Hex[text[i]] = {back[C(i) - Len(front)]}
      <4>1. Segment(text, Len(text), back[C(i) - Len(front)], C(i))
        BY <1>2, <1>3, <1>8, <3>1
      <4> QED
        BY <1>11, <4>1 DEF Segment, C
    <3>3. GroupAt(text, i) = 8 - Len(back) + (C(i) - Len(front))
      BY <1>2, <1>3, <1>9, <1>10, <2>1
    <3>4. groups[8 - Len(back) + (C(i) - Len(front))] = back[C(i) - Len(front)]
      BY <1>1, <3>1
    <3>5. GroupAt(text, i) \in 1..8
      <4>1. Len(back) \in 0..8
        <5>1. \A m, n \in Nat : m + n <= 8 => n \in 0..8
          OBVIOUS
        <5> QED
          BY <1>2, <5>1, Zenon
      <4>2. \A m \in 0..8 : \A k \in 1..m : 8 - m + k \in 1..8
        OBVIOUS
      <4> QED
        BY <3>1, <3>3, <4>1, <4>2
    <3> QED
      BY <3>2, <3>3, <3>4, <3>5
  <2>2. CASE d \notin 1..i
    <3>1. C(i) + 1 \in 1..Len(front)
      <4>1. C(i) \in Nat /\ C(i) <= C(Len(text)) /\ C(Len(text)) \in Nat /\ Len(front) \in Nat
        BY <1>2, <1>3
      <4>2. CASE d = 0
        BY <1>9, <4>1, <4>2
      <4>3. CASE d # 0
        <5>1. i < d
          BY <1>4, <2>2, <4>3
        <5>2. C(i) < C(d) /\ Len(front) = C(d)
          BY <1>5, <1>9, <4>3, <5>1
        <5> QED
          BY <4>1, <5>2
      <4> QED
        BY <4>2, <4>3
    <3>2. Hex[text[i]] = {front[C(i) + 1]}
      <4>1. Segment(text, Len(text), front[C(i) + 1], C(i))
        BY <1>2, <1>3, <1>8, <3>1
      <4> QED
        BY <1>11, <4>1 DEF Segment, C
    <3>3. GroupAt(text, i) = C(i) + 1
      BY <1>3, <1>10, <2>2
    <3>4. C(i) + 1 \in 1..8
      BY <1>2, <3>1
    <3>5. groups[C(i) + 1] = front[C(i) + 1]
      BY <1>1, <3>1
    <3> QED
      BY <3>2, <3>3, <3>4, <3>5
  <2> QED
    BY <2>1, <2>2
<1>12. ASSUME NEW g \in 1..8, groups[g] # Zero
       PROVE  \E i \in 1..Len(text) : text[i] \in Word /\ GroupAt(text, i) = g
  <2>1. CASE g \in 1..Len(front)
    <3>1. PICK i \in 1..Len(text) : text[i] \in Word /\ C(i) = g - 1
      BY <1>1, <1>8, <1>12, <2>1 DEF Segment, C
    <3>2. d \notin 1..i
      BY <1>2, <1>3, <1>4, <1>6, <1>9, <2>1, <3>1
    <3> QED
      BY <1>10, <3>1, <3>2
  <2>2. CASE g \in 9 - Len(back)..8
    <3> DEFINE b == g - (8 - Len(back))
    <3>1. b \in 1..Len(back) /\ groups[g] = back[b]
      <4>1. b \in 1..Len(back) /\ g = 8 - Len(back) + b
        BY <1>2, <2>2
      <4> HIDE DEF b
      <4> QED
        BY <1>1, <4>1
    <3>2. PICK i \in 1..Len(text) : text[i] \in Word /\ C(i) = Len(front) + b
      BY <1>8, <1>12, <3>1 DEF Segment, C
    <3>3. d \in 1..i
      BY <1>2, <1>3, <1>4, <1>5, <1>9, <3>1, <3>2
    <3> QED
      BY <1>2, <1>3, <1>9, <1>10, <3>1, <3>2, <3>3
  <2> QED
    BY <1>1, <1>2, <1>12, <2>1, <2>2
<1> QED
  BY <1>1, <1>2, <1>11, <1>12 DEF SpellsAddress, HexOrColon, groups

LEMMA EndStep ==
  ASSUME NEW text \in Text, NEW state, NEW front, NEW back, NEW word,
         Along(text, Len(text), state, front, back, word), Len(front) + Len(back) # 8
  PROVE  LET f == IF state = "bword" THEN front ELSE Append(front, word)
             b == IF state = "bword" THEN Append(back, word) ELSE back IN
         /\ Step(Machine(state, front, back, word), "end") = Machine("done", f, b, Zero)
         /\ Ended(text, f, b) /\ Regular(text)
<1>1. /\ state \in Reading /\ front \in Seq(GroupValue) /\ back \in Seq(GroupValue)
      /\ word \in GroupValue /\ Len(front) + Len(back) < 8
      /\ \A i \in 1..Len(text) : HexOrColon(text, i)
      /\ Collected(text, Len(text), front, back)
      /\ Segment(text, Len(text), word, Colons(text, Len(text)))
  BY DEF Along
<1>2. Len(text) \in Nat /\ Colons(text, Len(text)) \in Nat
  BY ColonsCount DEF Text
<1>3. /\ Append(front, word) \in Seq(GroupValue) /\ Append(back, word) \in Seq(GroupValue)
      /\ Len(Append(front, word)) = Len(front) + 1 /\ Len(Append(back, word)) = Len(back) + 1
  BY <1>1
<1>4. CASE state = "bword"
  <2>1. InBack(text, Len(text), front, back)
    BY <1>4 DEF Along
  <2>2. Colons(text, DoubleColon(text)) \in Nat /\ DoubleColon(text) # 0
    BY <2>1, ColonsCount DEF InBack
  <2>3. Ended(text, front, Append(back, word))
    BY <1>1, <1>2, <1>3, <2>1, <2>2, CollectedMore DEF Ended, InBack
  <2>4. Regular(text)
    BY <1>1, <1>2, <2>1, <2>2 DEF Regular, InBack
  <2>5. Step(Machine(state, front, back, word), "end") =
          Machine("done", front, Append(back, word), Zero)
    BY <1>1, <1>4, EndOfWordStep
  <2> QED
    BY <1>4, <2>3, <2>4, <2>5
<1>5. CASE state # "bword"
  <2>1. InFront(text, Len(text), state, front, back, word)
    BY <1>5 DEF Along
  <2>2. DoubleColon(text) = 0
    BY <1>2, <2>1, DoubleColonIsFirst DEF InFront
  <2>3. Ended(text, Append(front, word), back)
    <3>1. Len(front) = Colons(text, Len(text)) /\ back = <<>> /\ Len(back) = 0
      BY <2>1 DEF InFront
    <3>2. Collected(text, Len(text), Append(front, word), back)
      BY <1>1, <1>2, <3>1, CollectedMore
    <3> QED
      BY <1>1, <1>2, <1>3, <2>2, <3>1, <3>2 DEF Ended
  <2>4. Regular(text)
    BY <1>1, <1>2, <2>1, <2>2 DEF Regular, InFront
  <2>5. Step(Machine(state, front, back, word), "end") =
          Machine("done", Append(front, word), back, Zero)
    BY <1>1, <1>5, EndOfWordStep
  <2> QED
    BY <1>5, <2>3, <2>4, <2>5
<1> QED
  BY <1>4, <1>5

\* inet_pton accepts the regular texts and makes of them what they spell.
LEMMA InetPtonIs ==
  ASSUME NEW text \in Text, Separated(text)
  PROVE  \/ ~Regular(text) /\ Lost(InetPton[text])
         \/ /\ Regular(text) /\ InetPton[text].state = "done"
            /\ Filled(InetPton[text]) \in Seq(GroupValue)
            /\ SpellsAddress(text, Filled(InetPton[text]))
<1>1. Len(text) \in Nat /\ Len(text) \in 0..Len(text)
      /\ Unfolds(Append(text, "end"), Len(text) + 1, Trace(text))
      /\ Append(text, "end")[Len(text) + 1] = "end"
  BY TraceUnfolds DEF Text
<1>2. PICK s : Trace(text)[Len(text)] = {s} /\ Follows(text, Len(text), s)
  BY <1>1, TraceFollows
<1>3. InetPton[text] = Step(s, "end")
  <2>1. Trace(text)[Len(text) + 1] = After(Trace(text)[Len(text)], "end")
    <3>1. Len(text) + 1 \in 1..Len(text) + 1 /\ Len(text) + 1 - 1 = Len(text)
      BY <1>1
    <3> QED
      BY <1>1, <3>1 DEF Unfolds
  <2>2. After({s}, "end") = {Step(s, "end")}
    BY DEF After
  <2>3. InetPton[text] = The(Trace(text)[Len(text) + 1])
    BY DEF InetPton
  <2> QED
    BY <1>2, <2>1, <2>2, <2>3 DEF The
<1>4. CASE Lost(s) /\ ~Regular(text)
  BY <1>3, <1>4, StaysLost
<1>5. ASSUME NEW state, NEW front, NEW back, NEW word,
             s = Machine(state, front, back, word),
             Along(text, Len(text), state, front, back, word)
      PROVE  \/ ~Regular(text) /\ Lost(InetPton[text])
             \/ /\ Regular(text) /\ InetPton[text].state = "done"
                /\ Filled(InetPton[text]) \in Seq(GroupValue)
                /\ SpellsAddress(text, Filled(InetPton[text]))
  <2>1. CASE Len(front) + Len(back) = 8
    <3>1. ~Regular(text)
      BY <1>1, <1>5, <2>1, FullIsIrregular
    <3>2. Lost(Step(s, "end"))
      BY <1>5, <2>1, EndOfWordStep DEF Along
    <3> QED
      BY <1>3, <3>1, <3>2
  <2>2. CASE Len(front) + Len(back) # 8
    <3>1. PICK f, b : /\ Step(s, "end") = Machine("done", f, b, Zero)
                      /\ Ended(text, f, b) /\ Regular(text)
      BY <1>5, <2>2, EndStep
    <3>2. SpellsAddress(text, Filled(Machine("done", f, b, Zero)))
      BY <3>1, EndedSpells DEF Regular
    <3>3. Filled(Machine("done", f, b, Zero)) \in Seq(GroupValue)
      BY <3>1, FilledIs DEF Ended
    <3>4. Machine("done", f, b, Zero).state = "done"
      BY DEF Machine
    <3> QED
      BY <1>3, <3>1, <3>2, <3>3, <3>4
  <2> QED
    BY <2>1, <2>2
<1> QED
  BY <1>2, <1>4, <1>5 DEF Follows

\* A text spells one address at most.
LEMMA SpellsOne ==
  ASSUME NEW S, NEW text \in Text, NEW x \in Seq(S), NEW y \in Seq(S),
         SpellsAddress(text, x), SpellsAddress(text, y)
  PROVE  x = y
<1>1. ASSUME NEW g \in 1..8 PROVE x[g] = y[g]
  <2>1. CASE \E i \in DOMAIN text : text[i] \in Word /\ GroupAt(text, i) = g
    <3>1. PICK i \in DOMAIN text : text[i] \in Word /\ GroupAt(text, i) = g
      BY <2>1
    <3>2. text[i] # ":"
      BY <3>1, Kinds
    <3>3. Hex[text[i]] = {x[g]} /\ Hex[text[i]] = {y[g]}
      BY <3>1, <3>2 DEF SpellsAddress
    <3> QED
      BY <3>3
  <2>2. CASE ~\E i \in DOMAIN text : text[i] \in Word /\ GroupAt(text, i) = g
    BY <2>2 DEF SpellsAddress
  <2> QED
    BY <2>1, <2>2
<1>2. Len(x) = 8 /\ Len(y) = 8
  BY DEF SpellsAddress
<1> QED
  BY <1>1, <1>2

\* inet_pton (inet_pton.cpp:36-151) with from_string_ipv6 above it, for any
\* text in which words are apart: what it accepts are the regular texts, and
\* the address it makes is the one and only that the text spells.  Where it
\* does not return the text is not an address.
THEOREM AddressesParsed ==
  ASSUME NEW text \in Text, Separated(text), text # <<>>
  PROVE  /\ FromStringV6(text) # None <=> Regular(text)
         /\ Spins(text) => ~Regular(text)
         /\ \A groups \in FromStringV6(text) :
              /\ groups \in Seq(GroupValue) /\ SpellsAddress(text, groups)
              /\ \A other \in Seq(GroupValue) : SpellsAddress(text, other) => other = groups
<1>1. CASE ~Regular(text) /\ Lost(InetPton[text])
  BY <1>1 DEF FromStringV6, Lost, None
<1>2. CASE /\ Regular(text) /\ InetPton[text].state = "done"
           /\ Filled(InetPton[text]) \in Seq(GroupValue)
           /\ SpellsAddress(text, Filled(InetPton[text]))
  <2>1. FromStringV6(text) = {Filled(InetPton[text])} /\ ~Spins(text)
    BY <1>2 DEF FromStringV6, Spins
  <2>2. \A other \in Seq(GroupValue) :
          SpellsAddress(text, other) => other = Filled(InetPton[text])
    BY <1>2, SpellsOne
  <2> QED
    BY <1>2, <2>1, <2>2 DEF None
<1> QED
  BY <1>1, <1>2, InetPtonIs

-----------------------------------------------------------------------------
(* Parts of texts.                                                          *)

LEMMA Part ==
  ASSUME NEW text \in Text, NEW m \in 1..Len(text) + 1, NEW n \in m - 1..Len(text)
  PROVE  /\ SubSeq(text, m, n) \in Text /\ Len(SubSeq(text, m, n)) = n - m + 1
         /\ \A i \in 1..n - m + 1 : SubSeq(text, m, n)[i] = text[m + i - 1]
         /\ Separated(text) => Separated(SubSeq(text, m, n))
<1>1. Len(text) \in Nat
  BY DEF Text
<1>2. /\ SubSeq(text, m, n) \in Text /\ Len(SubSeq(text, m, n)) = n - m + 1
      /\ \A i \in 1..n - m + 1 : SubSeq(text, m, n)[i] = text[m + i - 1]
  BY <1>1 DEF Text
<1>3. ASSUME Separated(text), NEW i \in 1..n - m, SubSeq(text, m, n)[i] \in Word
      PROVE  SubSeq(text, m, n)[i + 1] \notin Word
  <2>1. SubSeq(text, m, n)[i] = text[m + i - 1] /\ SubSeq(text, m, n)[i + 1] = text[m + i - 1 + 1]
    <3> DEFINE part == SubSeq(text, m, n)
    <3>1. \A k \in 1..n - m + 1 : part[k] = text[m + k - 1]
      BY <1>2
    <3>2. i \in 1..n - m + 1 /\ i + 1 \in 1..n - m + 1 /\ m + (i + 1) - 1 = m + i - 1 + 1
      BY <1>1
    <3> HIDE DEF part
    <3>3. part[i] = text[m + i - 1] /\ part[i + 1] = text[m + (i + 1) - 1]
      BY <3>1, <3>2, Zenon
    <3> QED
      BY <3>2, <3>3 DEF part
  <2>2. m + i - 1 \in 1..Len(text) - 1
    BY <1>1
  <2> QED
    BY <1>3, <2>1, <2>2 DEF Separated
<1> QED
  BY <1>1, <1>2, <1>3 DEF Separated

LEMMA SameText ==
  ASSUME NEW x \in Text, NEW y \in Text, Len(x) = Len(y), \A i \in 1..Len(x) : x[i] = y[i]
  PROVE  x = y
BY DEF Text

\* A part of a part.
LEMMA PartOfPart ==
  ASSUME NEW text \in Text, NEW m \in 1..Len(text) + 1, NEW n \in m - 1..Len(text),
         NEW k \in 1..n - m + 2, NEW l \in k - 1..n - m + 1
  PROVE  SubSeq(SubSeq(text, m, n), k, l) = SubSeq(text, m + k - 1, m + l - 1)
<1>1. Len(text) \in Nat
  BY DEF Text
<1>2. /\ SubSeq(text, m, n) \in Text /\ Len(SubSeq(text, m, n)) = n - m + 1
      /\ \A i \in 1..n - m + 1 : SubSeq(text, m, n)[i] = text[m + i - 1]
  BY Part
<1> DEFINE x == SubSeq(SubSeq(text, m, n), k, l)
           y == SubSeq(text, m + k - 1, m + l - 1)
<1>3. x \in Text /\ Len(x) = l - k + 1 /\ \A i \in 1..l - k + 1 : x[i] = text[m + k - 1 + i - 1]
  <2>1. /\ x \in Text /\ Len(x) = l - k + 1
        /\ \A i \in 1..l - k + 1 : x[i] = SubSeq(text, m, n)[k + i - 1]
    <3> DEFINE part == SubSeq(text, m, n)
    <3>1. part \in Text /\ k \in 1..Len(part) + 1 /\ l \in k - 1..Len(part)
      BY <1>1, <1>2
    <3> HIDE DEF part
    <3>2. /\ SubSeq(part, k, l) \in Text /\ Len(SubSeq(part, k, l)) = l - k + 1
          /\ \A i \in 1..l - k + 1 : SubSeq(part, k, l)[i] = part[k + i - 1]
      BY <3>1, Part
    <3> QED
      BY <3>2 DEF part
  <2>2. \A i \in 1..l - k + 1 : k + i - 1 \in 1..n - m + 1 /\ m + (k + i - 1) - 1 = m + k - 1 + i - 1
    BY <1>1
  <2>3. ASSUME NEW i \in 1..l - k + 1 PROVE x[i] = text[m + k - 1 + i - 1]
    <3>1. x[i] = SubSeq(text, m, n)[k + i - 1]
      BY <2>1
    <3>2. SubSeq(text, m, n)[k + i - 1] = text[m + (k + i - 1) - 1]
      BY <1>2, <2>2
    <3> QED
      BY <2>2, <3>1, <3>2
  <2> HIDE DEF x
  <2> QED
    BY <2>1, <2>3
<1>4. y \in Text /\ Len(y) = l - k + 1 /\ \A i \in 1..l - k + 1 : y[i] = text[m + k - 1 + i - 1]
  <2>1. m + k - 1 \in 1..Len(text) + 1 /\ m + l - 1 \in (m + k - 1) - 1..Len(text)
        /\ (m + l - 1) - (m + k - 1) + 1 = l - k + 1
    BY <1>1
  <2> QED
    BY <2>1, Part
<1> HIDE DEF x, y
<1>5. x = y
  <2>1. \A i \in 1..Len(x) : x[i] = y[i]
    BY <1>3, <1>4
  <2> QED
    BY <1>3, <1>4, <2>1, SameText
<1> QED
  BY <1>5 DEF x, y

LEMMA PartOfTail ==
  ASSUME NEW text \in Text, NEW a \in 0..Len(text),
         NEW k \in 1..Len(text) - a + 1, NEW l \in k - 1..Len(text) - a
  PROVE  SubSeq(From(text, a + 1), k, l) = SubSeq(text, a + k, a + l)
<1>1. Len(text) \in Nat
  BY DEF Text
<1>2. /\ a + 1 \in 1..Len(text) + 1 /\ Len(text) \in (a + 1) - 1..Len(text)
      /\ k \in 1..Len(text) - (a + 1) + 2 /\ l \in k - 1..Len(text) - (a + 1) + 1
  BY <1>1
<1>3. SubSeq(SubSeq(text, a + 1, Len(text)), k, l) = SubSeq(text, (a + 1) + k - 1, (a + 1) + l - 1)
  BY <1>2, PartOfPart
<1>4. (a + 1) + k - 1 = a + k /\ (a + 1) + l - 1 = a + l
  BY <1>1
<1> QED
  BY <1>3, <1>4 DEF From

\* A text around one of its characters.
LEMMA Cut ==
  ASSUME NEW text \in Text, NEW k \in 1..Len(text)
  PROVE text = SubSeq(text, 1, k - 1) \o <<text[k]>> \o SubSeq(text, k + 1, Len(text))
<1> DEFINE x == SubSeq(text, 1, k - 1)
           y == SubSeq(text, k + 1, Len(text))
<1>1. Len(text) \in Nat
  BY DEF Text
<1>2. x \in Text /\ Len(x) = k - 1 /\ \A i \in 1..k - 1 : x[i] = text[i]
  BY <1>1, SMT DEF Text
<1>3. y \in Text /\ Len(y) = Len(text) - k /\ \A i \in 1..Len(text) - k : y[i] = text[i + k]
  BY <1>1, SMT DEF Text
<1>4. text[k] \in Word \union Delimiter
  BY DEF Text
<1> HIDE DEF x, y
<1> DEFINE z == x \o <<text[k]>> \o y
<1>5. z \in Text /\ Len(z) = Len(text)
  <2>1. <<text[k]>> \in Text /\ Len(<<text[k]>>) = 1
    BY <1>4 DEF Text
  <2>2. \A s, t \in Text : s \o t \in Text /\ Len(s \o t) = Len(s) + Len(t)
    BY DEF Text
  <2> QED
    BY <1>1, <1>2, <1>3, <2>1, <2>2
<1>6. \A i \in 1..Len(text) : z[i] = text[i]
  BY <1>1, <1>2, <1>3, <1>4, SMT DEF Text
<1> HIDE DEF z
<1> QED
  BY <1>5, <1>6, SameText DEF x, y, z

LEMMA FirstPart ==
  ASSUME NEW text \in Text, NEW n \in 0..Len(text)
  PROVE  /\ SubSeq(text, 1, n) \in Text /\ Len(SubSeq(text, 1, n)) = n
         /\ \A i \in 1..n : SubSeq(text, 1, n)[i] = text[i]
<1>1. Len(text) \in Nat
  BY DEF Text
<1> QED
  BY <1>1 DEF Text

LEMMA FindIs ==
  ASSUME NEW text \in Text, NEW c, NEW x \in Nat \ {0}
  PROVE  /\ Find(text, c, x) = 0 =>
              \A i \in x..Len(text) : text[i] # c
         /\ Find(text, c, x) # 0 =>
              /\ Find(text, c, x) \in x..Len(text) /\ text[Find(text, c, x)] = c
              /\ \A i \in x..Find(text, c, x) - 1 : text[i] # c
         /\ Find(text, c, x) \in Nat
<1> DEFINE places == {i \in x..Len(text) : text[i] = c}
<1>1. Len(text) \in Nat /\ places \in SUBSET (Nat \ {0})
  BY DEF Text
<1>2. Find(text, c, x) = First(places)
  BY DEF Find
<1>3. /\ First(places) = 0 <=> places = {}
      /\ places # {} => First(places) \in places /\ \A j \in places : First(places) <= j
  <2> HIDE DEF places
  <2> QED
    BY <1>1, FirstIsLeast
<1>4. CASE places = {}
  BY <1>2, <1>3, <1>4
<1>5. CASE places # {}
  <2>1. First(places) \in places /\ \A j \in places : First(places) <= j
    BY <1>3, <1>5
  <2>2. First(places) \in x..Len(text) /\ text[First(places)] = c
    BY <2>1
  <2>3. \A i \in x..First(places) - 1 : text[i] # c
    <3> SUFFICES ASSUME NEW i \in x..First(places) - 1, text[i] = c PROVE FALSE
      OBVIOUS
    <3> DEFINE f == First(places)
    <3>1. i \in places
      BY <1>1, <2>2
    <3>2. f <= i /\ f \in Nat /\ i \in Nat /\ i <= f - 1
      BY <2>1, <2>2, <3>1
    <3> HIDE DEF f
    <3> QED
      BY <3>2
  <2> HIDE DEF places
  <2> QED
    BY <1>1, <1>2, <2>2, <2>3
<1> QED
  BY <1>4, <1>5

-----------------------------------------------------------------------------
(* The parts of an argument spell what is made of them.                     *)

\* What a host says of a destination.
HostSaid(d, h) ==
  /\ d.hostname = IF h.kind = "name" THEN h.value ELSE <<>>
  /\ h.kind # "name" => d.ip = h.value

LEMMA BracketedSpelled ==
  ASSUME NEW text \in Text, Separated(text), StartsWith(text, "["), NEW d,
         Bracketed(text).result = "ok", HostSaid(d, Bracketed(text).host)
  PROVE  /\ Bracketed(text).length \in 1..Len(text)
         /\ SpellsHost(SubSeq(text, 1, Bracketed(text).length), d)
<1> DEFINE close == Find(text, "]", 2)
           raw == SubSeq(text, 2, close - 1)
<1>1. close # 0 /\ FromStringV6(raw) # None /\ ~Spins(raw)
      /\ Bracketed(text) = HostIs(Host("v6", The(FromStringV6(raw))), close)
  BY FindIs DEF Bracketed, HostFails
<1>2. /\ close \in 2..Len(text) /\ text[close] = "]" /\ text[1] = "[" /\ Len(text) \in Nat
  BY <1>1, FindIs DEF StartsWith, Text
<1> HIDE DEF close
<1>3. /\ raw \in Text /\ Separated(raw) /\ Len(raw) = close - 2
  BY <1>2, Part
<1>4. raw # <<>> /\ InetPton[raw].state = "done" /\ FromStringV6(raw) = {Filled(InetPton[raw])}
  BY <1>1 DEF FromStringV6
<1>5. /\ Filled(InetPton[raw]) \in Seq(GroupValue) /\ SpellsAddress(raw, Filled(InetPton[raw]))
  BY <1>3, <1>4, InetPtonIs DEF Lost
<1>6. Bracketed(text).length = close /\ d.hostname = <<>> /\ d.ip = Filled(InetPton[raw])
  <2>1. The(FromStringV6(raw)) = Filled(InetPton[raw])
    BY <1>4 DEF The
  <2> QED
    BY <1>1, <2>1 DEF HostIs, Host, HostSaid
<1> DEFINE whole == SubSeq(text, 1, close)
<1>7. /\ Len(whole) = close /\ whole[1] = "[" /\ whole[close] = "]"
      /\ SubSeq(whole, 2, close - 1) = raw
  <2>1. /\ Len(whole) = close /\ \A i \in 1..close : whole[i] = text[i]
    <3>1. 1 \in 1..Len(text) + 1 /\ close \in 1 - 1..Len(text) /\ close - 1 + 1 = close
      BY <1>2
    <3>2. \A i \in 1..close : 1 + i - 1 = i
      BY <1>2
    <3> QED
      BY <3>1, <3>2, Part
  <2>2. SubSeq(whole, 2, close - 1) = SubSeq(text, 1 + 2 - 1, 1 + (close - 1) - 1)
    BY <1>2, PartOfPart
  <2> QED
    BY <1>2, <2>1, <2>2
<1>8. Len(whole) > 2
  BY <1>2, <1>3, <1>4, <1>7 DEF Text
<1>9. Len(d.ip) = 8
  BY <1>5, <1>6 DEF SpellsAddress
<1> HIDE DEF whole, raw
<1>10. SpellsHost(whole, d)
  <2>1. ~UsingHostname(d) /\ Len(d.ip) # 1
    BY <1>6, <1>9 DEF UsingHostname
  <2>2. SpellsAddress(SubSeq(whole, 2, Len(whole) - 1), d.ip)
    BY <1>5, <1>6, <1>7
  <2>3. Len(whole) > 2 /\ whole[1] = "[" /\ whole[Len(whole)] = "]"
    BY <1>7, <1>8
  <2> QED
    BY <2>1, <2>2, <2>3 DEF SpellsHost
<1> QED
  BY <1>2, <1>6, <1>10 DEF whole

LEMMA QuadIsOne ==
  ASSUME NEW w \in Word, Quad[w] # None
  PROVE  Quad[w] = {The(Quad[w])} /\ Len(The(Quad[w])) = 1
<1>1. AtMostOne(Quad[w]) /\ \A a \in Quad[w] : Len(a) = 1
  BY AddressAssumption
<1>2. The(Quad[w]) \in Quad[w]
  BY DEF The, None
<1> QED
  BY <1>1, <1>2 DEF AtMostOne

LEMMA PlainSpelled ==
  ASSUME NEW text \in Text, NEW d,
         Plain(text).result = "ok", HostSaid(d, Plain(text).host)
  PROVE  /\ Plain(text).length \in 1..Len(text)
         /\ SpellsHost(SubSeq(text, 1, Plain(text).length), d)
<1> DEFINE n == IF Find(text, ":", 1) # 0 THEN Find(text, ":", 1) - 1
                ELSE IF Find(text, "/", 1) # 0 THEN Find(text, "/", 1) - 1
                ELSE Len(text)
           raw == SubSeq(text, 1, n)
<1>1. n \in 0..Len(text) /\ Len(text) \in Nat
  BY FindIs DEF Text
<1>2. Plain(text) = IF FromStringV4(raw) # None THEN HostIs(Host("v4", The(FromStringV4(raw))), n)
                    ELSE IF raw = <<>> THEN HostFails("bad") ELSE HostIs(Host("name", raw), n)
  BY DEF Plain
<1> HIDE DEF n
<1>3. raw \in Text /\ Len(raw) = n
  BY <1>1, Part
<1> HIDE DEF raw
<1>4. raw # <<>> => n \in 1..Len(text)
  BY <1>1, <1>3 DEF Text
<1>5. CASE FromStringV4(raw) # None
  <2>1. raw # <<>> /\ raw[1] \in Word /\ Quad[raw[1]] # None /\ FromStringV4(raw) = Quad[raw[1]]
    BY <1>5 DEF FromStringV4
  <2>2. Quad[raw[1]] = {The(Quad[raw[1]])} /\ Len(The(Quad[raw[1]])) = 1
    BY <2>1, QuadIsOne
  <2>3. Plain(text).length = n /\ d.hostname = <<>> /\ d.ip = The(Quad[raw[1]])
    BY <1>2, <1>5, <2>1 DEF HostIs, Host, HostSaid
  <2> QED
    BY <1>4, <2>1, <2>2, <2>3 DEF SpellsHost, UsingHostname, raw
<1>6. CASE FromStringV4(raw) = None
  <2>1. raw # <<>> /\ Plain(text) = HostIs(Host("name", raw), n)
    BY <1>2, <1>6 DEF HostFails
  <2>2. Plain(text).length = n /\ d.hostname = raw
    BY <2>1 DEF HostIs, Host, HostSaid
  <2> QED
    BY <1>4, <2>1, <2>2 DEF SpellsHost, UsingHostname, raw
<1> QED
  BY <1>5, <1>6

LEMMA HostSpelled ==
  ASSUME NEW text \in Text, Separated(text), NEW d,
         ParseHost[text].result = "ok", HostSaid(d, ParseHost[text].host)
  PROVE  /\ ParseHost[text].length \in 1..Len(text)
         /\ SpellsHost(SubSeq(text, 1, ParseHost[text].length), d)
<1>1. ParseHost[text] = IF StartsWith(text, "[") THEN Bracketed(text) ELSE Plain(text)
  BY DEF ParseHost
<1> QED
  BY <1>1, BracketedSpelled, PlainSpelled

LEMMA PortSpelled ==
  ASSUME NEW text \in Text, NEW p, p = PortAndPath[text],
         p.result = "ok", p.port # None, p.path = <<>>
  PROVE  /\ Len(text) >= 1 /\ text[1] = ":"
         /\ SpellsPort(SubSeq(text, 2, Len(text)), The(p.port))
<1>1. p = IF StartsWith(text, ":")
          THEN [result |-> IF Port(text) = None THEN "bad" ELSE "ok",
                port |-> Port(text), path |-> From(text, PathStart(text))]
          ELSE [result |-> "ok", port |-> None, path |-> text]
  BY DEF PortAndPath
<1>2. StartsWith(text, ":") /\ p.port = Port(text) /\ From(text, PathStart(text)) = <<>>
  BY <1>1
<1>3. Len(text) >= 1 /\ text[1] = ":" /\ Len(text) \in Nat
  BY <1>2 DEF StartsWith, Text
<1>4. PathStart(text) = Len(text) + 1
  <2> SUFFICES ASSUME Find(text, "/", 1) # 0 PROVE FALSE
    BY DEF PathStart
  <2>1. Find(text, "/", 1) \in 1..Len(text) /\ PathStart(text) = Find(text, "/", 1)
    BY FindIs DEF PathStart
  <2>2. Len(From(text, PathStart(text))) = Len(text) - PathStart(text) + 1
    BY <1>3, <2>1, Part DEF From
  <2> QED
    BY <1>2, <1>3, <2>1, <2>2
<1> DEFINE raw == SubSeq(text, 2, Len(text))
<1>5. Port(text) = {n \in Number(raw) : n <= MaxUint16}
  BY <1>3, <1>4 DEF Port
<1>6. raw \in Text
  BY <1>3, Part
<1> HIDE DEF raw
<1> DEFINE n == The(p.port)
<1>7. n \in Number(raw) /\ n <= MaxUint16
  <2>1. n \in p.port
    BY DEF The, None
  <2> QED
    BY <1>2, <1>5, <2>1
<1> HIDE DEF n
<1>8. CASE raw = <<>>
  BY <1>3, <1>7, <1>8 DEF Number, SpellsPort, raw, n
<1>9. CASE raw # <<>>
  <2>1. Len(raw) = 1 /\ raw[1] \in Word /\ n \in Dec[raw[1]]
    BY <1>7, <1>9 DEF Number, None
  <2>2. raw = <<raw[1]>>
    BY <1>6, <2>1 DEF Text
  <2>3. Dec[raw[1]] = {n}
    <3>1. AtMostOne(Dec[raw[1]])
      BY <2>1, AddressAssumption
    <3> QED
      BY <2>1, <3>1 DEF AtMostOne
  <2> QED
    BY <1>3, <1>7, <2>1, <2>2, <2>3 DEF SpellsPort, raw, n
<1> QED
  BY <1>8, <1>9

LEMMA FindColon ==
  ASSUME NEW text \in Text
  PROVE  LET c == Find(text, ":", 1) IN
         /\ c \in Nat /\ (c # 0 => c \in 1..Len(text) /\ text[c] = ":")
         /\ (c = 0 => \A i \in 1..Len(text) : text[i] # ":")
BY FindIs

\* The user name and the password that Behind takes from what stands in front
\* of the "@".
UserIn(a, front, c) == IF a = 0 THEN None ELSE {IF c = 0 THEN front ELSE SubSeq(front, 1, c - 1)}
PassIn(front, c) == IF c = 0 THEN None ELSE {From(front, c + 1)}

LEMMA CredsSpelled ==
  ASSUME NEW text \in Text, NEW a, a = Find(text, "@", 1), NEW front, front = SubSeq(text, 1, a - 1),
         NEW c, c = Find(front, ":", 1), NEW u,
         u.user = UserIn(a, front, c), u.pass = PassIn(front, c)
  PROVE  a \in 0..Len(text) /\ SpellsCreds(SubSeq(text, 1, a), Credentials(u))
<1>1. /\ a \in 0..Len(text) /\ Len(text) \in Nat /\ (a # 0 => text[a] = "@")
  BY FindIs DEF Text
<1>2. CASE a = 0
  <2>1. SubSeq(text, 1, a) = <<>>
    BY <1>2 DEF Text
  <2>2. Credentials(u) = NoCreds
    BY <1>2 DEF Credentials, UserIn
  <2> QED
    BY <1>1, <2>1, <2>2 DEF SpellsCreds
<1>3. CASE a # 0
  <2> DEFINE part == SubSeq(text, 1, a)
  <2>1. /\ front \in Text /\ Len(front) = a - 1 /\ part \in Text /\ Len(part) = a
        /\ \A i \in 1..a : part[i] = text[i]
        /\ \A i \in 1..a - 1 : front[i] = text[i]
    BY <1>1, <1>3, FirstPart
  <2> HIDE DEF part
  <2>2. part[a] = "@"
    BY <1>1, <1>3, <2>1
  <2>3. /\ c \in Nat /\ (c # 0 => c \in 1..a - 1 /\ front[c] = ":")
        /\ (c = 0 => \A i \in 1..a - 1 : front[i] # ":")
    BY <2>1, FindColon
  <2>4. CASE c = 0
    <3>1. Credentials(u) = NoCreds
      BY <2>4 DEF Credentials, PassIn
    <3>2. DOMAIN part = 1..a
      BY <2>1 DEF Text
    <3>3. ASSUME NEW i \in DOMAIN part PROVE part[i] # ":"
      <4>1. CASE i = a
        BY <2>2, <4>1
      <4>2. CASE i \in 1..a - 1
        BY <1>1, <2>1, <2>3, <2>4, <4>2
      <4> QED
        BY <1>1, <3>2, <4>1, <4>2
    <3> QED
      BY <1>1, <2>1, <2>2, <3>1, <3>3 DEF SpellsCreds, part
  <2>5. CASE c # 0
    <3> DEFINE name == SubSeq(front, 1, c - 1)
               word == SubSeq(front, c + 1, a - 1)
    <3>1. Credentials(u) = [username |-> name, password |-> word]
      <4>1. u.user = {name} /\ u.pass = {word}
        BY <1>3, <2>1, <2>5 DEF From, UserIn, PassIn
      <4> HIDE DEF name, word
      <4> QED
        BY <4>1 DEF Credentials, The, None
    <3>2. front = name \o <<":">> \o word
      <4>1. c \in 1..Len(front) /\ front[c] = ":" /\ Len(front) = a - 1
        BY <2>1, <2>3, <2>5
      <4>2. front = SubSeq(front, 1, c - 1) \o <<front[c]>> \o SubSeq(front, c + 1, Len(front))
        BY <2>1, <4>1, Cut
      <4> QED
        BY <4>1, <4>2
    <3>3. part = front \o <<"@">>
      <4>1. SubSeq(part, 1, a - 1) = front
        <5>1. /\ SubSeq(part, 1, a - 1) \in Text /\ Len(SubSeq(part, 1, a - 1)) = a - 1
              /\ \A i \in 1..a - 1 : SubSeq(part, 1, a - 1)[i] = part[i]
          BY <1>1, <1>3, <2>1, FirstPart
        <5>2. \A i \in 1..a - 1 : part[i] = text[i]
          BY <1>1, <2>1
        <5> DEFINE x == SubSeq(part, 1, a - 1)
        <5> HIDE DEF x
        <5>3. x = front
          BY <2>1, <5>1, <5>2, SameText DEF x
        <5> QED
          BY <5>3 DEF x
      <4>2. SubSeq(part, a + 1, a) = <<>>
        BY <1>1, <2>1 DEF Text
      <4>3. part = SubSeq(part, 1, a - 1) \o <<part[a]>> \o SubSeq(part, a + 1, a)
        <5>1. a \in 1..Len(part)
          BY <1>1, <1>3, <2>1
        <5>2. part = SubSeq(part, 1, a - 1) \o <<part[a]>> \o SubSeq(part, a + 1, Len(part))
          BY <2>1, <5>1, Cut
        <5> QED
          BY <2>1, <5>2
      <4>4. <<"@">> \in Text /\ front \o <<"@">> \in Text
        BY <2>1 DEF Text, Delimiter
      <4>5. front \o <<"@">> \o <<>> = front \o <<"@">>
        BY <4>4 DEF Text
      <4> QED
        BY <2>2, <4>1, <4>2, <4>3, <4>5
    <3> HIDE DEF name, word
    <3>4. part = Credentials(u).username \o <<":">> \o Credentials(u).password \o <<"@">>
      BY <3>1, <3>2, <3>3
    <3> QED
      BY <1>1, <3>4 DEF SpellsCreds, part
  <2> QED
    BY <2>3, <2>4, <2>5
<1> QED
  BY <1>2, <1>3

\* An argument that is accepted for the port that it has and the path that it
\* has not.
Complete(u) == u.result = "ok" /\ u.path = <<>> /\ u.port # None

LEMMA BehindSpelled ==
  ASSUME NEW text \in Text, Separated(text), NEW u, u = Behind[text], Complete(u),
         NEW d, HostSaid(d, u.host), d.port = The(u.port)
  PROVE  \E i \in 0..Len(text), k \in 0..Len(text) :
           /\ i < k /\ text[k] = ":"
           /\ SpellsCreds(SubSeq(text, 1, i), Credentials(u))
           /\ SpellsHost(SubSeq(text, i + 1, k - 1), d)
           /\ SpellsPort(SubSeq(text, k + 1, Len(text)), d.port)
<1> DEFINE a == Find(text, "@", 1)
           creds0 == SubSeq(text, 1, a - 1)
           c == Find(creds0, ":", 1)
           h == ParseHost[From(text, a + 1)]
           p == PortAndPath[From(text, a + h.length + 1)]
<1>1. u = IF h.result # "ok" THEN NoUrl(h.result)
          ELSE IF p.result # "ok" THEN NoUrl(p.result)
          ELSE Url("ok", None,
                   UserIn(a, creds0, c), PassIn(creds0, c), h.host, p.port, p.path)
  BY DEF Behind, UserIn, PassIn
<1> HIDE DEF a, creds0, c, h, p
<1>2. /\ h.result = "ok" /\ p.result = "ok"
      /\ u.user = UserIn(a, creds0, c) /\ u.pass = PassIn(creds0, c)
      /\ u.host = h.host /\ u.port = p.port /\ u.path = p.path
  <2>1. h.result = "ok"
    BY <1>1 DEF NoUrl, Url, Complete
  <2>2. p.result = "ok"
    BY <1>1, <2>1 DEF NoUrl, Url, Complete
  <2> QED
    BY <1>1, <2>1, <2>2 DEF Url
<1>3. a \in 0..Len(text) /\ SpellsCreds(SubSeq(text, 1, a), Credentials(u))
  <2>1. a = Find(text, "@", 1) /\ creds0 = SubSeq(text, 1, a - 1) /\ c = Find(creds0, ":", 1)
    BY DEF a, creds0, c
  <2> QED
    BY <1>2, <2>1, CredsSpelled, Zenon
<1>4. Len(text) \in Nat
  BY DEF Text
<1> DEFINE rest == From(text, a + 1)
<1>5. /\ rest \in Text /\ Separated(rest) /\ Len(rest) = Len(text) - a
  <2>1. a + 1 \in 1..Len(text) + 1 /\ Len(text) \in a + 1 - 1..Len(text)
    BY <1>3, <1>4
  <2>2. rest = SubSeq(text, a + 1, Len(text)) /\ Len(text) - (a + 1) + 1 = Len(text) - a
    BY <1>3, <1>4 DEF From
  <2> HIDE DEF rest
  <2> QED
    BY <2>1, <2>2, Part
<1>6. /\ h.length \in 1..Len(rest) /\ SpellsHost(SubSeq(rest, 1, h.length), d)
  BY <1>2, <1>5, HostSpelled DEF h
<1>7. SubSeq(rest, 1, h.length) = SubSeq(text, a + 1, a + h.length)
  <2>1. 1 \in 1..Len(text) - a + 1 /\ h.length \in 1 - 1..Len(text) - a
    <3>1. Len(rest) = Len(text) - a /\ h.length \in 1..Len(rest)
      BY <1>5, <1>6
    <3> HIDE DEF rest
    <3> QED
      BY <1>3, <1>4, <3>1
  <2> QED
    BY <1>3, <2>1, PartOfTail
<1> HIDE DEF rest
<1> DEFINE k == a + h.length + 1
           tail == From(text, k)
<1>8. k \in 1..Len(text) + 1 /\ a < k /\ k - 1 = a + h.length
  BY <1>3, <1>4, <1>5, <1>6
<1>9. p = PortAndPath[tail]
  BY DEF p
<1> HIDE DEF k
<1>10. tail \in Text /\ Len(tail) = Len(text) - k + 1
       /\ \A i \in 1..Len(text) - k + 1 : tail[i] = text[k + i - 1]
  BY <1>4, <1>8, Part DEF From
<1> HIDE DEF tail
<1>11. /\ Len(tail) >= 1 /\ tail[1] = ":"
       /\ SpellsPort(SubSeq(tail, 2, Len(tail)), d.port)
  BY <1>2, <1>9, <1>10, PortSpelled DEF Complete
<1>12. k \in 1..Len(text) /\ text[k] = ":"
  BY <1>4, <1>8, <1>10, <1>11
<1>13. SubSeq(tail, 2, Len(tail)) = SubSeq(text, k + 1, Len(text))
  <2>1. k - 1 \in 0..Len(text) /\ 2 \in 1..Len(text) - (k - 1) + 1
        /\ Len(tail) \in 2 - 1..Len(text) - (k - 1)
    BY <1>4, <1>10, <1>11, <1>12
  <2>2. SubSeq(From(text, k - 1 + 1), 2, Len(tail)) = SubSeq(text, k - 1 + 2, k - 1 + Len(tail))
    BY <2>1, PartOfTail
  <2>3. k - 1 + 1 = k /\ k - 1 + 2 = k + 1 /\ k - 1 + Len(tail) = Len(text)
    BY <1>4, <1>10, <1>12
  <2> QED
    BY <2>2, <2>3 DEF tail
<1>14. SpellsHost(SubSeq(text, a + 1, k - 1), d)
  BY <1>6, <1>7, <1>8
<1>15. a \in 0..Len(text) /\ k \in 0..Len(text) /\ a < k
  BY <1>3, <1>4, <1>8, <1>12
<1> QED
  BY <1>3, <1>11, <1>12, <1>13, <1>14, <1>15

LEMMA TwoParts ==
  ASSUME NEW text \in Text, NEW n \in 0..Len(text), NEW k \in 0..n
  PROVE  SubSeq(text, 1, n) = SubSeq(text, 1, k) \o SubSeq(text, k + 1, n)
<1> DEFINE x == SubSeq(text, 1, k)
           y == SubSeq(text, k + 1, n)
           w == SubSeq(text, 1, n)
<1>1. Len(text) \in Nat
  BY DEF Text
<1>2. x \in Text /\ Len(x) = k /\ \A i \in 1..k : x[i] = text[i]
  BY <1>1, FirstPart
<1>3. y \in Text /\ Len(y) = n - k /\ \A i \in 1..n - k : y[i] = text[k + i]
  BY <1>1 DEF Text
<1>4. w \in Text /\ Len(w) = n /\ \A i \in 1..n : w[i] = text[i]
  BY <1>1, FirstPart
<1> HIDE DEF x, y, w
<1>5. x \o y \in Text /\ Len(x \o y) = n
  BY <1>1, <1>2, <1>3 DEF Text
<1>6. ASSUME NEW i \in 1..n PROVE (x \o y)[i] = w[i]
  <2>1. w[i] = text[i]
    BY <1>4
  <2>2. CASE i \in 1..k
    <3>1. (x \o y)[i] = x[i]
      BY <1>2, <1>3, <2>2 DEF Text
    <3> QED
      BY <1>2, <2>1, <2>2, <3>1
  <2>3. CASE i \notin 1..k
    <3>1. i - k \in 1..n - k /\ k + (i - k) = i /\ i \in k + 1..k + (n - k)
      BY <1>1, <2>3
    <3>2. (x \o y)[i] = y[i - k]
      BY <1>2, <1>3, <3>1 DEF Text
    <3>3. y[i - k] = text[k + (i - k)]
      BY <1>3, <3>1
    <3> QED
      BY <2>1, <3>1, <3>2, <3>3
  <2> QED
    BY <2>2, <2>3
<1>7. x \o y = w
  BY <1>4, <1>5, <1>6, SameText
<1> QED
  BY <1>7 DEF x, y, w

LEMMA SchemeIs ==
  ASSUME NEW text \in Text, NEW s, s = FindScheme(text)
  PROVE  /\ s \in Nat
         /\ s # 0 => s \in 1..Len(text) - 2 /\ SubSeq(text, s, s + 2) = <<":", "/", "/">>
<1> DEFINE places == {i \in 1..Len(text) - 2 : SubSeq(text, i, i + 2) = <<":", "/", "/">>}
<1>1. places \in SUBSET (Nat \ {0})
  BY DEF Text
<1>2. s = First(places)
  BY DEF FindScheme
<1>3. s # 0 => s \in places
  <2> HIDE DEF places
  <2> QED
    BY <1>1, <1>2, FirstIsLeast
<1>4. s = 0 \/ s \in places
  BY <1>3
<1> QED
  BY <1>1, <1>4

LEMMA BehindIsUrl ==
  ASSUME NEW text \in Text
  PROVE  \E result, user, pass, host0, port, path :
           Behind[text] = Url(result, None, user, pass, host0, port, path)
<1> DEFINE a == Find(text, "@", 1)
           front == SubSeq(text, 1, a - 1)
           c == Find(front, ":", 1)
           h == ParseHost[From(text, a + 1)]
           p == PortAndPath[From(text, a + h.length + 1)]
           user == IF a = 0 THEN None ELSE {IF c = 0 THEN front ELSE SubSeq(front, 1, c - 1)}
           pass == IF c = 0 THEN None ELSE {From(front, c + 1)}
<1>1. Behind[text] = IF h.result # "ok" THEN NoUrl(h.result)
                     ELSE IF p.result # "ok" THEN NoUrl(p.result)
                     ELSE Url("ok", None, user, pass, h.host, p.port, p.path)
  BY DEF Behind
<1> HIDE DEF a, front, c, h, p, user, pass
<1> QED
  BY <1>1 DEF NoUrl

\* Whatever is accepted says what it is made of, from beginning to end.
LEMMA ParseSpelled ==
  ASSUME NEW text \in Text, Separated(text), NEW u, u = Parse[text], Complete(u),
         NEW d, SaidBy(d, u)
  PROVE  Spells(text, IF u.scheme = None THEN <<>> ELSE The(u.scheme), Credentials(u), d)
<1> DEFINE s == FindScheme(text)
<1>1. s \in Nat /\ (s # 0 => s \in 1..Len(text) - 2 /\ SubSeq(text, s, s + 2) = <<":", "/", "/">>)
  BY SchemeIs
<1>2. u = CASE s = 0 -> Behind[text]
            [] s = 1 -> NoUrl("bad")
            [] s > 1 -> [Behind[From(text, s + 3)] EXCEPT !.scheme = {SubSeq(text, 1, s - 1)}]
  BY DEF Parse
<1> HIDE DEF s
<1>3. s # 1
  BY <1>2 DEF NoUrl, Url, Complete
<1>4. Len(text) \in Nat
  BY DEF Text
<1>5. HostSaid(d, u.host) /\ d.port = The(u.port)
  BY DEF SaidBy, HostSaid
<1>6. CASE s = 0
  <2>1. u = Behind[text]
    BY <1>2, <1>6
  <2>2. u.scheme = None
    <3>1. PICK result, user, pass, host0, port, path :
            Behind[text] = Url(result, None, user, pass, host0, port, path)
      BY BehindIsUrl
    <3> QED
      BY <2>1, <3>1 DEF Url
  <2>3. PICK i \in 0..Len(text), k \in 0..Len(text) :
          /\ i < k /\ text[k] = ":"
          /\ SpellsCreds(SubSeq(text, 1, i), Credentials(u))
          /\ SpellsHost(SubSeq(text, i + 1, k - 1), d)
          /\ SpellsPort(SubSeq(text, k + 1, Len(text)), d.port)
    BY <1>5, <2>1, BehindSpelled
  <2>4. SubSeq(text, 1, 0) = <<>>
    BY DEF Text
  <2> QED
    BY <2>2, <2>3, <2>4 DEF Spells
<1>7. CASE s > 1
  <2> DEFINE type == SubSeq(text, 1, s - 1)
             rest == From(text, s + 3)
             head == s + 2
             v == Behind[rest]
  <2>1. u = [v EXCEPT !.scheme = {type}]
    BY <1>2, <1>7
  <2>3. u.scheme = {type} /\ u.result = v.result /\ u.user = v.user /\ u.pass = v.pass
        /\ u.host = v.host /\ u.port = v.port /\ u.path = v.path
    <3>1. PICK result, user, pass, host0, port, path :
            v = Url(result, None, user, pass, host0, port, path)
      <4>1. rest \in Text
        BY <1>1, <1>4, <1>7, Part DEF From
      <4> HIDE DEF rest
      <4> QED
        BY <4>1, BehindIsUrl
    <3> HIDE DEF v, type
    <3> QED
      BY <2>1, <3>1 DEF Url
  <2>4. Complete(v) /\ Credentials(v) = Credentials(u) /\ HostSaid(d, v.host) /\ d.port = The(v.port)
    <3> HIDE DEF v
    <3> QED
      BY <1>5, <2>3 DEF Complete, Credentials
  <2>5. s \in 1..Len(text) - 2 /\ SubSeq(text, s, s + 2) = <<":", "/", "/">>
    BY <1>1, <1>7
  <2>6. type \in Text /\ Len(type) = s - 1 /\ type # <<>>
    BY <1>4, <1>7, <2>5, FirstPart DEF Text
  <2>7. SubSeq(text, 1, head) = type \o <<":", "/", "/">>
    <3>1. head \in 0..Len(text) /\ s - 1 \in 0..head /\ s - 1 + 1 = s
      BY <1>1, <1>4, <1>7, <2>5
    <3>2. SubSeq(text, 1, head) = SubSeq(text, 1, s - 1) \o SubSeq(text, s - 1 + 1, head)
      BY <3>1, TwoParts
    <3> QED
      BY <2>5, <3>1, <3>2
  <2>8. rest \in Text /\ Separated(rest) /\ Len(rest) = Len(text) - head
        /\ \A i \in 1..Len(text) - head : rest[i] = text[head + i]
    <3>1. head + 1 \in 1..Len(text) + 1 /\ Len(text) \in head + 1 - 1..Len(text)
      BY <1>4, <1>7, <2>5
    <3>2. rest = SubSeq(text, head + 1, Len(text)) /\ Len(text) - (head + 1) + 1 = Len(text) - head
      BY <1>4, <1>7, <2>5 DEF From
    <3>3. \A i \in Int : head + 1 + i - 1 = head + i
      BY <1>7, <2>5
    <3> HIDE DEF rest, head
    <3>4. /\ SubSeq(text, head + 1, Len(text)) \in Text
          /\ Len(SubSeq(text, head + 1, Len(text))) = Len(text) - (head + 1) + 1
          /\ \A i \in 1..Len(text) - (head + 1) + 1 :
               SubSeq(text, head + 1, Len(text))[i] = text[head + 1 + i - 1]
          /\ Separated(SubSeq(text, head + 1, Len(text)))
      BY <3>1, Part
    <3>5. ASSUME NEW i \in 1..Len(text) - head PROVE rest[i] = text[head + i]
      <4>1. \A j \in 1..Len(text) - (head + 1) + 1 :
              SubSeq(text, head + 1, Len(text))[j] = text[head + 1 + j - 1]
        BY <3>4
      <4>2. i \in 1..Len(text) - (head + 1) + 1 /\ i \in Int
        BY <3>2
      <4>3. SubSeq(text, head + 1, Len(text))[i] = text[head + 1 + i - 1]
        BY <4>1, <4>2, Zenon
      <4>4. head + 1 + i - 1 = head + i
        BY <3>3, <4>2
      <4> QED
        BY <3>2, <4>3, <4>4
    <3> QED
      BY <3>2, <3>4, <3>5
  <2> HIDE DEF type
  <2>9. PICK i \in 0..Len(rest), k \in 0..Len(rest) :
          /\ i < k /\ rest[k] = ":"
          /\ SpellsCreds(SubSeq(rest, 1, i), Credentials(v))
          /\ SpellsHost(SubSeq(rest, i + 1, k - 1), d)
          /\ SpellsPort(SubSeq(rest, k + 1, Len(rest)), d.port)
    BY <2>4, <2>8, BehindSpelled
  <2>10. /\ head \in 0..Len(text) /\ head + i \in head..Len(text) /\ head + k \in head..Len(text)
         /\ head + i < head + k /\ text[head + k] = ":"
    <3>1. head \in 0..Len(text)
      BY <1>4, <1>7, <2>5
    <3>2. Len(rest) = Len(text) - head
      BY <2>8
    <3>3. \A j \in 1..Len(text) - head : rest[j] = text[head + j]
      BY <2>8
    <3> HIDE DEF head, rest
    <3>4. k \in 1..Len(text) - head /\ i \in 0..Len(text) - head
      BY <1>4, <2>9, <3>1, <3>2
    <3>5. text[head + k] = ":"
      BY <2>9, <3>3, <3>4
    <3>6. i < k
      BY <2>9
    <3>7. /\ head + i \in head..Len(text) /\ head + k \in head..Len(text)
          /\ head + i < head + k
      BY <1>4, <3>1, <3>4, <3>6
    <3> QED
      BY <3>1, <3>5, <3>7
  <2>11. /\ SubSeq(rest, 1, i) = SubSeq(text, head + 1, head + i)
         /\ SubSeq(rest, i + 1, k - 1) = SubSeq(text, head + i + 1, head + k - 1)
         /\ SubSeq(rest, k + 1, Len(rest)) = SubSeq(text, head + k + 1, Len(text))
    <3>0. head \in 0..Len(text) /\ rest = From(text, head + 1) /\ Len(rest) = Len(text) - head
      <4>1. s + 3 = head + 1
        BY <1>7, <2>5
      <4> QED
        BY <2>8, <2>10, <4>1
    <3> HIDE DEF head, rest
    <3>1. /\ 1 \in 1..Len(text) - head + 1 /\ i \in 1 - 1..Len(text) - head
          /\ i + 1 \in 1..Len(text) - head + 1 /\ k - 1 \in i + 1 - 1..Len(text) - head
          /\ k + 1 \in 1..Len(text) - head + 1 /\ Len(rest) \in k + 1 - 1..Len(text) - head
      BY <1>4, <2>9, <3>0
    <3>6. \A x \in 1..Len(text) - head + 1 : \A y \in x - 1..Len(text) - head :
            SubSeq(rest, x, y) = SubSeq(text, head + x, head + y)
      BY <3>0, PartOfTail
    <3>2. SubSeq(rest, 1, i) = SubSeq(text, head + 1, head + i)
      BY <3>1, <3>6, Zenon
    <3>3. SubSeq(rest, i + 1, k - 1) = SubSeq(text, head + (i + 1), head + (k - 1))
      <4> DEFINE x == i + 1
                 y == k - 1
      <4>1. x \in 1..Len(text) - head + 1 /\ y \in x - 1..Len(text) - head
        BY <3>1
      <4> HIDE DEF x, y
      <4>2. SubSeq(rest, x, y) = SubSeq(text, head + x, head + y)
        BY <3>6, <4>1
      <4> QED
        BY <4>2 DEF x, y
    <3>4. SubSeq(rest, k + 1, Len(rest)) = SubSeq(text, head + (k + 1), head + Len(rest))
      <4> DEFINE x == k + 1
                 y == Len(rest)
      <4>1. x \in 1..Len(text) - head + 1 /\ y \in x - 1..Len(text) - head
        BY <3>1
      <4> HIDE DEF x, y
      <4>2. SubSeq(rest, x, y) = SubSeq(text, head + x, head + y)
        BY <3>6, <4>1
      <4> QED
        BY <4>2 DEF x, y
    <3>5. /\ head + (i + 1) = head + i + 1 /\ head + (k - 1) = head + k - 1
          /\ head + (k + 1) = head + k + 1 /\ head + Len(rest) = Len(text)
      BY <1>4, <2>9, <3>0
    <3> QED
      BY <3>2, <3>3, <3>4, <3>5
  <2>12. The(u.scheme) = type /\ u.scheme # None /\ Len(type) + 3 = head
    BY <1>7, <2>3, <2>5, <2>6 DEF The, None
  <2> HIDE DEF head, rest, v
  <2>13. Spells(text, type, Credentials(u), d)
    <3>1. SpellsCreds(SubSeq(text, head + 1, head + i), Credentials(u))
      BY <2>4, <2>9, <2>11
    <3>2. SpellsHost(SubSeq(text, head + i + 1, head + k - 1), d)
      BY <2>9, <2>11
    <3>3. SpellsPort(SubSeq(text, head + k + 1, Len(text)), d.port)
      BY <2>9, <2>11
    <3>4. \E x, y \in head..Len(text) :
            /\ x < y /\ text[y] = ":"
            /\ SpellsCreds(SubSeq(text, head + 1, x), Credentials(u))
            /\ SpellsHost(SubSeq(text, x + 1, y - 1), d)
            /\ SpellsPort(SubSeq(text, y + 1, Len(text)), d.port)
      BY <2>10, <3>1, <3>2, <3>3
    <3>5. type # <<>>
      BY <2>6
    <3> QED
      BY <2>7, <2>12, <3>4, <3>5 DEF Spells
  <2> QED
    BY <2>12, <2>13
<1> QED
  BY <1>1, <1>3, <1>6, <1>7

-----------------------------------------------------------------------------
(* config_from_cmdline: the inductive invariant.                            *)

\* A record of these fields and no others, whatever is in them.
CfgIsRecord ==
  cfg = [type |-> cfg.type, listen |-> cfg.listen, destination |-> cfg.destination,
         server |-> cfg.server, chain |-> cfg.chain]

ChainIsSeq == \E S : cfg.chain \in Seq(S)

\* What is known of fv[1] and fv[2] once they have been passed.
TypeIsFirst == at > 1 => fv[1] \in {Tunnel, Proxy} /\ ~TooFew /\ cfg.type = fv[1][1]
ListenIsSecond == at > 2 => \E u \in {Parse[fv[2]]} : SaidBy(cfg.listen, u)
DestinationIsThird ==
  at > 3 /\ cfg.type = "tunnel" => \E u \in {Parse[fv[3]]} : SaidBy(cfg.destination, u)

Entered == IF at > 1 /\ at > Chain0 THEN at - Chain0 ELSE 0

ChainSoFar ==
  /\ Len(cfg.chain) = Entered
  /\ \A i \in 1..Len(cfg.chain) : EntryIs(cfg.chain[i], fv[Chain0 + i - 1])

AllLookedAt == status = "running" => at > 1 /\ at >= Chain0 /\ at = Len(fv) + 1

\* The inductive invariant.
CmdInv ==
  /\ TypeOK /\ CfgIsRecord /\ ChainIsSeq
  /\ TypeIsFirst /\ ListenIsSecond /\ DestinationIsThird
  /\ ChainSoFar /\ AllLookedAt

-----------------------------------------------------------------------------

LEMMA ArgumentsAreSeq ==
  ASSUME \E k \in DOMAIN Lines : line \in Lines[k]
  PROVE  fv \in Seq(Text) /\ Len(fv) \in Nat
BY CmdlineAssumption DEF fv

LEMMA AppendOne ==
  ASSUME NEW S, NEW s \in Seq(S), NEW e
  PROVE  /\ Append(s, e) \in Seq(S \union {e})
         /\ Len(Append(s, e)) = Len(s) + 1
         /\ \A i \in 1..Len(s) : Append(s, e)[i] = s[i]
         /\ Append(s, e)[Len(s) + 1] = e
<1>1. s \in Seq(S \union {e})
  OBVIOUS
<1> QED
  BY <1>1

LEMMA InitInv == Init => CmdInv
<1> SUFFICES ASSUME Init PROVE CmdInv
  OBVIOUS
<1>1. fv \in Seq(Text) /\ Len(fv) \in Nat
  BY ArgumentsAreSeq DEF Init
<1>2. TypeOK
  BY <1>1 DEF Init, TypeOK, NoConfig
<1>3. CfgIsRecord
  BY DEF Init, CfgIsRecord, NoConfig
<1>4. cfg.chain = <<>> /\ at = 1 /\ status = "reading"
  BY DEF Init, NoConfig
<1>5. ChainIsSeq
  <2>1. <<>> \in Seq({})
    OBVIOUS
  <2> QED
    BY <1>4, <2>1 DEF ChainIsSeq
<1>6. TypeIsFirst /\ ListenIsSecond /\ DestinationIsThird
  BY <1>4 DEF TypeIsFirst, ListenIsSecond, DestinationIsThird
<1>7. ChainSoFar
  BY <1>4 DEF ChainSoFar, Entered
<1>8. AllLookedAt
  BY <1>4 DEF AllLookedAt
<1> QED
  BY <1>2, <1>3, <1>5, <1>6, <1>7, <1>8 DEF CmdInv

\* Giving up changes the status alone.
LEMMA RefuseInv ==
  ASSUME CmdInv, NEW how \in {"error", "usage"}, Refuse(how)
  PROVE  CmdInv'
<1>1. TypeOK'
  BY DEF CmdInv, TypeOK, Refuse, fv
<1>2. CfgIsRecord' /\ ChainIsSeq'
  BY DEF CmdInv, CfgIsRecord, ChainIsSeq, Refuse
<1>3. TypeIsFirst' /\ ListenIsSecond' /\ DestinationIsThird' /\ ChainSoFar'
  BY DEF CmdInv, TypeIsFirst, ListenIsSecond, DestinationIsThird, ChainSoFar, Entered, Chain0,
         TooFew, fv, Refuse
<1>4. AllLookedAt'
  BY DEF AllLookedAt, Refuse
<1> QED
  BY <1>1, <1>2, <1>3, <1>4 DEF CmdInv

LEMMA InTypeInv == ASSUME CmdInv, InType PROVE CmdInv'
<1>1. fv \in Seq(Text) /\ Len(fv) \in Nat /\ fv' = fv
  BY ArgumentsAreSeq DEF CmdInv, TypeOK, InType, fv
<1>2. /\ at = 1 /\ at' = 2 /\ line' = line
      /\ status = "reading" /\ status' = "reading"
      /\ ~TooFew /\ fv[1] \in {Tunnel, Proxy}
  BY DEF InType
<1>3. cfg' = [type |-> fv[1][1], listen |-> cfg.listen, destination |-> cfg.destination,
              server |-> cfg.server, chain |-> cfg.chain]
  BY DEF InType, CmdInv, CfgIsRecord
<1>4. fv[1][1] \in {"tunnel", "proxy"}
  BY <1>2 DEF Tunnel, Proxy
<1>5. TypeOK'
  <2>1. 2 <= Len(fv) + 1
    BY <1>1, <1>2 DEF TooFew
  <2>2. DOMAIN cfg' = DOMAIN NoConfig
    BY <1>3 DEF NoConfig
  <2> QED
    BY <1>1, <1>2, <1>3, <1>4, <2>1, <2>2 DEF TypeOK, CmdInv
<1>6. CfgIsRecord' /\ ChainIsSeq'
  BY <1>3 DEF CfgIsRecord, ChainIsSeq, CmdInv
<1>7. TypeIsFirst'
  BY <1>1, <1>2, <1>3 DEF TypeIsFirst, TooFew
<1>8. ListenIsSecond' /\ DestinationIsThird'
  BY <1>2 DEF ListenIsSecond, DestinationIsThird
<1>9. ChainSoFar'
  <2>1. Len(cfg.chain) = 0
    BY <1>2 DEF CmdInv, ChainSoFar, Entered
  <2>2. Entered' = 0
    BY <1>1, <1>2 DEF Entered, Chain0
  <2> QED
    BY <1>3, <2>1, <2>2 DEF ChainSoFar
<1>10. AllLookedAt'
  BY <1>2 DEF AllLookedAt
<1> QED
  BY <1>5, <1>6, <1>7, <1>8, <1>9, <1>10 DEF CmdInv

\* An argument that stands in front of the chain: the entries stay none.
LEMMA BeforeChain ==
  ASSUME CmdInv, at > 1, at < Chain0, at' = at + 1, line' = line, cfg'.chain = cfg.chain
  PROVE  ChainSoFar'
<1>1. Chain0 \in {3, 4} /\ Chain0' = Chain0 /\ at \in Nat
  BY DEF Chain0, fv, CmdInv, TypeOK
<1>2. Len(cfg.chain) = 0
  BY <1>1 DEF CmdInv, ChainSoFar, Entered
<1>3. Entered' = 0
  BY <1>1 DEF Entered
<1> QED
  BY <1>2, <1>3 DEF ChainSoFar

LEMMA EndpointSaid == \A u : IsEndpoint(u) => SaidBy(Endpoint(u), u)
BY DEF IsEndpoint, Endpoint, SaidBy

LEMMA DestinationSaid == \A u, old : SaidBy(Destination(u, old), u)
BY DEF Destination, SaidBy

LEMMA TunInInv == ASSUME CmdInv, TunIn PROVE CmdInv'
<1>0. /\ fv \in Seq(Text) /\ Len(fv) \in Nat
      /\ at = 2 /\ fv[1] = Tunnel /\ status = "reading"
  BY ArgumentsAreSeq DEF CmdInv, TypeOK, TunIn
<1>1. CASE Refuse("error")
  BY <1>1, RefuseInv
<1>2. ASSUME NEW u, u = Parse[fv[at]], IsEndpoint(u), cfg' = [cfg EXCEPT !.listen = Endpoint(u)],
             at' = 3, UNCHANGED <<line, status, host, proxy_type_str, creds>>
      PROVE  CmdInv'
  <2>1. cfg' = [type |-> cfg.type, listen |-> Endpoint(u), destination |-> cfg.destination,
                server |-> cfg.server, chain |-> cfg.chain]
    BY <1>2 DEF CmdInv, CfgIsRecord
  <2>2. fv' = fv /\ line' = line /\ status' = status
    BY <1>2 DEF fv
  <2>3. TypeOK'
    <3>1. 3 <= Len(fv) + 1
      BY <1>0 DEF CmdInv, TypeIsFirst, TooFew
    <3>2. DOMAIN cfg' = DOMAIN NoConfig
      BY <2>1 DEF NoConfig
    <3> QED
      BY <1>2, <2>1, <2>2, <3>1, <3>2 DEF TypeOK, CmdInv
  <2>4. CfgIsRecord' /\ ChainIsSeq'
    BY <2>1 DEF CfgIsRecord, ChainIsSeq, CmdInv
  <2>5. TypeIsFirst'
    BY <1>0, <2>1, <2>2 DEF TypeIsFirst, TooFew, CmdInv
  <2>6. ListenIsSecond'
    <3>1. SaidBy(cfg'.listen, u)
      BY <1>2, <2>1, EndpointSaid
    <3> QED
      BY <1>0, <1>2, <2>2, <3>1 DEF ListenIsSecond
  <2>7. DestinationIsThird'
    BY <1>2 DEF DestinationIsThird
  <2>8. ChainSoFar'
    <3>1. at < Chain0 /\ at' = at + 1
      BY <1>0, <1>2 DEF Chain0
    <3> QED
      BY <1>0, <2>1, <2>2, <3>1, BeforeChain
  <2>9. AllLookedAt'
    BY <1>0, <2>2 DEF AllLookedAt
  <2> QED
    BY <2>3, <2>4, <2>5, <2>6, <2>7, <2>8, <2>9 DEF CmdInv
<1> QED
  BY <1>1, <1>2 DEF TunIn

LEMMA TunOutInv == ASSUME CmdInv, TunOut PROVE CmdInv'
<1>0. /\ fv \in Seq(Text) /\ Len(fv) \in Nat
      /\ at = 3 /\ fv[1] = Tunnel /\ status = "reading"
  BY ArgumentsAreSeq DEF CmdInv, TypeOK, TunOut
<1>1. CASE Refuse("error")
  BY <1>1, RefuseInv
<1>2. ASSUME NEW u, u = Parse[fv[at]],
             cfg' = [cfg EXCEPT !.destination = Destination(u, @)],
             at' = 4, UNCHANGED <<line, status, host, proxy_type_str, creds>>
      PROVE  CmdInv'
  <2>1. cfg' = [type |-> cfg.type, listen |-> cfg.listen,
                destination |-> Destination(u, cfg.destination),
                server |-> cfg.server, chain |-> cfg.chain]
    BY <1>2 DEF CmdInv, CfgIsRecord
  <2>2. fv' = fv /\ line' = line /\ status' = status
    BY <1>2 DEF fv
  <2>3. TypeOK'
    <3>1. 4 <= Len(fv) + 1
      BY <1>0 DEF CmdInv, TypeIsFirst, TooFew
    <3>2. DOMAIN cfg' = DOMAIN NoConfig
      BY <2>1 DEF NoConfig
    <3> QED
      BY <1>2, <2>1, <2>2, <3>1, <3>2 DEF TypeOK, CmdInv
  <2>4. CfgIsRecord' /\ ChainIsSeq'
    BY <2>1 DEF CfgIsRecord, ChainIsSeq, CmdInv
  <2>5. TypeIsFirst'
    BY <1>0, <2>1, <2>2 DEF TypeIsFirst, TooFew, CmdInv
  <2>6. ListenIsSecond'
    BY <1>0, <2>1, <2>2 DEF ListenIsSecond, CmdInv
  <2>7. DestinationIsThird'
    <3>1. SaidBy(cfg'.destination, u)
      BY <2>1, DestinationSaid
    <3> QED
      BY <1>0, <1>2, <2>2, <3>1 DEF DestinationIsThird
  <2>8. ChainSoFar'
    <3>1. at < Chain0 /\ at' = at + 1
      BY <1>0, <1>2 DEF Chain0
    <3> QED
      BY <1>0, <2>1, <2>2, <3>1, BeforeChain
  <2>9. AllLookedAt'
    BY <1>0, <2>2 DEF AllLookedAt
  <2> QED
    BY <2>3, <2>4, <2>5, <2>6, <2>7, <2>8, <2>9 DEF CmdInv
<1> QED
  BY <1>1, <1>2 DEF TunOut

LEMMA InProxyInv == ASSUME CmdInv, InProxy PROVE CmdInv'
<1>0. /\ fv \in Seq(Text) /\ Len(fv) \in Nat
      /\ at = 2 /\ fv[1] = Proxy /\ status = "reading"
  BY ArgumentsAreSeq DEF CmdInv, TypeOK, InProxy
<1>1. CASE Refuse("error")
  BY <1>1, RefuseInv
<1>2. ASSUME NEW u, u = Parse[fv[at]],
             host' = Destination(u, host),
             cfg' = [cfg EXCEPT !.server = proxy_type_str', !.listen = host'],
             at' = 3, UNCHANGED <<line, status, creds>>
      PROVE  CmdInv'
  <2>1. cfg' = [type |-> cfg.type, listen |-> host', destination |-> cfg.destination,
                server |-> proxy_type_str', chain |-> cfg.chain]
    BY <1>2 DEF CmdInv, CfgIsRecord
  <2>2. fv' = fv /\ line' = line /\ status' = status
    BY <1>2 DEF fv
  <2>3. TypeOK'
    <3>1. 3 <= Len(fv) + 1
      BY <1>0 DEF CmdInv, TypeIsFirst, TooFew, Tunnel, Proxy
    <3>2. DOMAIN cfg' = DOMAIN NoConfig
      BY <2>1 DEF NoConfig
    <3> QED
      BY <1>2, <2>1, <2>2, <3>1, <3>2 DEF TypeOK, CmdInv
  <2>4. CfgIsRecord' /\ ChainIsSeq'
    BY <2>1 DEF CfgIsRecord, ChainIsSeq, CmdInv
  <2>5. TypeIsFirst'
    BY <1>0, <2>1, <2>2 DEF TypeIsFirst, TooFew, CmdInv
  <2>6. ListenIsSecond'
    <3>1. SaidBy(cfg'.listen, u)
      BY <1>2, <2>1, DestinationSaid
    <3> QED
      BY <1>0, <1>2, <2>2, <3>1 DEF ListenIsSecond
  <2>7. DestinationIsThird'
    BY <1>2 DEF DestinationIsThird
  <2>8. ChainSoFar'
    <3>1. at < Chain0 /\ at' = at + 1
      BY <1>0, <1>2 DEF Chain0
    <3> QED
      BY <1>0, <2>1, <2>2, <3>1, BeforeChain
  <2>9. AllLookedAt'
    BY <1>0, <2>2 DEF AllLookedAt
  <2> QED
    BY <2>3, <2>4, <2>5, <2>6, <2>7, <2>8, <2>9 DEF CmdInv
<1> QED
  BY <1>1, <1>2 DEF InProxy

\* The entry that the argument makes of itself, whatever was there before.
LEMMA EntrySaid ==
  ASSUME NEW text, NEW u, u = Parse[text], NEW old
  PROVE  EntryIs([type |-> The(u.scheme), address |-> Destination(u, old),
                  creds |-> Credentials(u)], text)
BY DestinationSaid DEF EntryIs

LEMMA ChainInv == ASSUME CmdInv, Chain PROVE CmdInv'
<1>0. /\ fv \in Seq(Text) /\ Len(fv) \in Nat
      /\ at > 1 /\ at >= Chain0 /\ at <= Len(fv) /\ status = "reading"
      /\ at \in Nat /\ Chain0 \in {3, 4}
  BY ArgumentsAreSeq DEF CmdInv, TypeOK, Chain, Chain0
<1>1. CASE Refuse("error")
  BY <1>1, RefuseInv
<1>2. ASSUME NEW u, u = Parse[fv[at]],
             host' = Destination(u, host), proxy_type_str' = The(u.scheme), TakeCredentials(u),
             cfg' = [cfg EXCEPT !.chain = Append(@,
                       [type |-> proxy_type_str', address |-> host', creds |-> creds'])],
             at' = at + 1, UNCHANGED <<line, status>>
      PROVE  CmdInv'
  <2> DEFINE e == [type |-> The(u.scheme), address |-> Destination(u, host),
                   creds |-> Credentials(u)]
  <2>1. cfg' = [type |-> cfg.type, listen |-> cfg.listen, destination |-> cfg.destination,
                server |-> cfg.server, chain |-> Append(cfg.chain, e)]
    BY <1>2 DEF CmdInv, CfgIsRecord, TakeCredentials
  <2>2. fv' = fv /\ line' = line /\ status' = status /\ Chain0' = Chain0
    BY <1>2 DEF fv, Chain0
  <2>3. EntryIs(e, fv[at])
    BY <1>2, EntrySaid
  <2> HIDE DEF e
  <2>4. PICK S : cfg.chain \in Seq(S)
    BY DEF CmdInv, ChainIsSeq
  <2>5. /\ Append(cfg.chain, e) \in Seq(S \union {e})
        /\ Len(Append(cfg.chain, e)) = Len(cfg.chain) + 1
        /\ \A i \in 1..Len(cfg.chain) : Append(cfg.chain, e)[i] = cfg.chain[i]
        /\ Append(cfg.chain, e)[Len(cfg.chain) + 1] = e
    BY <2>4, AppendOne
  <2>6. TypeOK'
    <3>1. DOMAIN cfg' = DOMAIN NoConfig
      BY <2>1 DEF NoConfig
    <3>2. cfg'.type = cfg.type
      BY <2>1
    <3> QED
      BY <1>0, <1>2, <2>2, <3>1, <3>2 DEF TypeOK, CmdInv
  <2>7. CfgIsRecord'
    BY <2>1 DEF CfgIsRecord
  <2>8. ChainIsSeq'
    BY <2>1, <2>5 DEF ChainIsSeq
  <2>9. TypeIsFirst'
    BY <1>0, <2>1, <2>2 DEF TypeIsFirst, TooFew, CmdInv
  <2>10. ListenIsSecond'
    BY <1>0, <2>1, <2>2 DEF ListenIsSecond, CmdInv
  <2>11. DestinationIsThird'
    <3>1. cfg.type = "tunnel" => fv[1] = Tunnel
      BY <1>0 DEF CmdInv, TypeIsFirst, Tunnel, Proxy
    <3>2. cfg.type = "tunnel" => at > 3
      BY <1>0, <3>1 DEF Chain0
    <3> QED
      BY <2>1, <2>2, <3>2 DEF DestinationIsThird, CmdInv
  <2>12. ChainSoFar'
    <3>1. Len(cfg.chain) = at - Chain0
      BY <1>0 DEF CmdInv, ChainSoFar, Entered
    <3>2. Entered' = at + 1 - Chain0
      BY <1>0, <1>2, <2>2 DEF Entered
    <3>3. cfg'.chain = Append(cfg.chain, e) /\ Len(cfg'.chain) = Len(cfg.chain) + 1
      BY <2>1, <2>5
    <3>4. ASSUME NEW i \in 1..Len(cfg'.chain)
          PROVE  EntryIs(cfg'.chain[i], fv[Chain0 + i - 1])
      <4>1. CASE i \in 1..Len(cfg.chain)
        <5>1. cfg'.chain[i] = cfg.chain[i]
          BY <2>5, <3>3, <4>1
        <5>2. EntryIs(cfg.chain[i], fv[Chain0 + i - 1])
          BY <4>1 DEF CmdInv, ChainSoFar
        <5> QED
          BY <5>1, <5>2
      <4>2. CASE i = Len(cfg.chain) + 1
        <5>1. cfg'.chain[i] = e
          BY <2>5, <3>3, <4>2
        <5>2. Chain0 + i - 1 = at
          BY <1>0, <3>1, <4>2
        <5> QED
          BY <2>3, <5>1, <5>2
      <4>3. i \in 1..Len(cfg.chain) \/ i = Len(cfg.chain) + 1
        BY <1>0, <3>1, <3>3, <3>4
      <4> QED
        BY <4>1, <4>2, <4>3
    <3>5. Len(cfg'.chain) = Entered'
      BY <1>0, <3>1, <3>2, <3>3
    <3>6. \A i \in 1..Len(cfg'.chain) : EntryIs(cfg'.chain[i], fv'[Chain0' + i - 1])
      BY <2>2, <3>4
    <3> QED
      BY <3>5, <3>6 DEF ChainSoFar, EntryIs, SaidBy
  <2>13. AllLookedAt'
    BY <1>0, <2>2 DEF AllLookedAt
  <2> QED
    BY <2>6, <2>7, <2>8, <2>9, <2>10, <2>11, <2>12, <2>13 DEF CmdInv
<1> QED
  BY <1>1, <1>2 DEF Chain

LEMMA RunInv == ASSUME CmdInv, Run PROVE CmdInv'
<1>1. /\ fv \in Seq(Text) /\ Len(fv) \in Nat
      /\ at > 1 /\ at >= Chain0 /\ at > Len(fv)
      /\ status' = "running" /\ UNCHANGED <<line, at, cfg, host, proxy_type_str, creds>>
      /\ at \in Nat /\ at <= Len(fv) + 1
  BY ArgumentsAreSeq DEF CmdInv, TypeOK, Run
<1>2. TypeOK'
  BY <1>1 DEF CmdInv, TypeOK, fv
<1>3. CfgIsRecord' /\ ChainIsSeq'
  BY <1>1 DEF CmdInv, CfgIsRecord, ChainIsSeq
<1>4. TypeIsFirst' /\ ListenIsSecond' /\ DestinationIsThird' /\ ChainSoFar'
  BY <1>1 DEF CmdInv, TypeIsFirst, ListenIsSecond, DestinationIsThird, ChainSoFar, Entered,
              Chain0, TooFew, fv
<1>5. AllLookedAt'
  BY <1>1 DEF AllLookedAt, Chain0, fv
<1> QED
  BY <1>2, <1>3, <1>4, <1>5 DEF CmdInv

LEMMA StutterInv == ASSUME CmdInv, UNCHANGED vars PROVE CmdInv'
BY DEF CmdInv, TypeOK, CfgIsRecord, ChainIsSeq, TypeIsFirst, ListenIsSecond, DestinationIsThird,
       ChainSoFar, Entered, AllLookedAt, Chain0, TooFew, fv, vars

LEMMA NextInv == CmdInv /\ [Next]_vars => CmdInv'
<1> SUFFICES ASSUME CmdInv, [Next]_vars PROVE CmdInv'
  OBVIOUS
<1>1. CASE Usage
  BY <1>1, RefuseInv DEF Usage
<1>2. CASE UnknownInType
  BY <1>2, RefuseInv DEF UnknownInType
<1>3. CASE InType
  BY <1>3, InTypeInv
<1>4. CASE TunIn
  BY <1>4, TunInInv
<1>5. CASE TunOut
  BY <1>5, TunOutInv
<1>6. CASE InProxy
  BY <1>6, InProxyInv
<1>7. CASE Chain
  BY <1>7, ChainInv
<1>8. CASE Run
  BY <1>8, RunInv
<1>9. CASE UNCHANGED vars
  BY <1>9, StutterInv
<1> QED
  BY <1>1, <1>2, <1>3, <1>4, <1>5, <1>6, <1>7, <1>8, <1>9 DEF Next

-----------------------------------------------------------------------------

\* The inductive invariant holds in every reachable state of
\* config_from_cmdline (config_from_cmdline.cpp:149-242).
THEOREM CmdlineCorrect == Spec => []CmdInv
<1>1. Init => CmdInv
  BY InitInv
<1>2. CmdInv /\ [Next]_vars => CmdInv'
  BY NextInv
<1> QED
  BY <1>1, <1>2, PTL DEF Spec

\* The arguments are looked at in their order and not beyond their end, and
\* the configuration keeps its shape.
THEOREM CmdlineTypeCorrect == Spec => []TypeOK
<1>1. CmdInv => TypeOK
  BY DEF CmdInv
<1> QED
  BY <1>1, CmdlineCorrect, PTL

\* What the program runs with has, for any number of arguments and whatever
\* they say, in each place what its own argument says and nothing of another.
THEOREM NothingIsCarriedOver == Spec => []NothingCarriedOver
<1>1. CmdInv => NothingCarriedOver
  <2> SUFFICES ASSUME CmdInv, status = "running" PROVE NothingCarriedOver
    BY DEF NothingCarriedOver
  <2>1. /\ fv \in Seq(Text) /\ Len(fv) \in Nat /\ at \in Nat
        /\ at > 1 /\ at >= Chain0 /\ at = Len(fv) + 1 /\ Chain0 \in {3, 4}
    BY ArgumentsAreSeq DEF CmdInv, TypeOK, AllLookedAt, Chain0
  <2>2. Len(cfg.chain) = Len(fv) - Chain0 + 1
    BY <2>1 DEF CmdInv, ChainSoFar, Entered
  <2>3. \A i \in 1..Len(cfg.chain) : EntryIs(cfg.chain[i], fv[Chain0 + i - 1])
    BY DEF CmdInv, ChainSoFar
  <2>4. \E u \in {Parse[fv[2]]} : SaidBy(cfg.listen, u)
    BY <2>1 DEF CmdInv, ListenIsSecond
  <2>5. cfg.type = "tunnel" => \E u \in {Parse[fv[3]]} : SaidBy(cfg.destination, u)
    <3>1. cfg.type = "tunnel" => fv[1] = Tunnel
      BY <2>1 DEF CmdInv, TypeIsFirst, Tunnel, Proxy
    <3>2. cfg.type = "tunnel" => at > 3
      BY <2>1, <3>1 DEF Chain0
    <3> QED
      BY <3>2 DEF CmdInv, DestinationIsThird
  <2> QED
    BY <2>2, <2>3, <2>4, <2>5 DEF NothingCarriedOver
<1> QED
  BY <1>1, CmdlineCorrect, PTL


-----------------------------------------------------------------------------
(* Every argument that has been passed was one that may stand there.        *)

FirstsAccepted == at > 2 =>
  /\ fv[1] = Tunnel => IsEndpoint(Parse[fv[2]])
  /\ fv[1] = Proxy => IsInProxy(Parse[fv[2]]) /\ cfg.server = The(Parse[fv[2]].scheme)

DestinationAccepted == at > 3 /\ fv[1] = Tunnel => IsProxyInfo(Parse[fv[3]], FALSE, FALSE)

ChainAccepted == at > 1 => \A i \in Chain0..at - 1 : IsChainEntry(Parse[fv[i]])

Accepted == FirstsAccepted /\ DestinationAccepted /\ ChainAccepted

\* Nothing of it changes with what an argument behind it makes.
LEMMA AcceptedStays ==
  ASSUME CmdInv, Accepted, at' = at, line' = line, cfg'.server = cfg.server
  PROVE  Accepted'
BY DEF Accepted, FirstsAccepted, DestinationAccepted, ChainAccepted, Chain0, fv

LEMMA AcceptedByInType == ASSUME CmdInv, Accepted, InType PROVE Accepted'
<1>1. at' = 2 /\ line' = line
  BY DEF InType
<1>2. Chain0' \in {3, 4}
  BY DEF Chain0
<1>3. \A i \in Chain0'..at' - 1 : FALSE
  BY <1>1, <1>2
<1> QED
  BY <1>1, <1>3 DEF Accepted, FirstsAccepted, DestinationAccepted, ChainAccepted

LEMMA AcceptedByTunIn == ASSUME CmdInv, Accepted, TunIn PROVE Accepted'
<1>1. CASE Refuse("error")
  BY <1>1, AcceptedStays DEF Refuse
<1>2. ASSUME NEW u, u = Parse[fv[at]], IsEndpoint(u), at' = 3, line' = line
      PROVE  Accepted'
  <2>1. at = 2 /\ fv[1] = Tunnel /\ fv' = fv /\ Chain0' = 4
    BY <1>2 DEF TunIn, Chain0, fv
  <2>2. fv[1] # Proxy
    BY <2>1 DEF Tunnel, Proxy
  <2>3. FirstsAccepted'
    BY <1>2, <2>1, <2>2 DEF FirstsAccepted
  <2>4. DestinationAccepted'
    BY <1>2 DEF DestinationAccepted
  <2>5. ChainAccepted'
    <3>1. \A i \in Chain0'..at' - 1 : FALSE
      BY <1>2, <2>1
    <3> QED
      BY <3>1 DEF ChainAccepted
  <2> QED
    BY <2>3, <2>4, <2>5 DEF Accepted
<1> QED
  BY <1>1, <1>2 DEF TunIn

LEMMA AcceptedByTunOut == ASSUME CmdInv, Accepted, TunOut PROVE Accepted'
<1>1. CASE Refuse("error")
  BY <1>1, AcceptedStays DEF Refuse
<1>2. ASSUME NEW u, u = Parse[fv[at]], IsProxyInfo(u, FALSE, FALSE), at' = 4, line' = line
      PROVE  Accepted'
  <2>1. at = 3 /\ fv[1] = Tunnel /\ fv' = fv /\ Chain0' = 4
    BY <1>2 DEF TunOut, Chain0, fv
  <2>2. fv[1] # Proxy
    BY <2>1 DEF Tunnel, Proxy
  <2>3. FirstsAccepted'
    BY <1>2, <2>1, <2>2 DEF Accepted, FirstsAccepted
  <2>4. DestinationAccepted'
    BY <1>2, <2>1 DEF DestinationAccepted
  <2>5. ChainAccepted'
    <3>1. \A i \in Chain0'..at' - 1 : FALSE
      BY <1>2, <2>1
    <3> QED
      BY <3>1 DEF ChainAccepted
  <2> QED
    BY <2>3, <2>4, <2>5 DEF Accepted
<1> QED
  BY <1>1, <1>2 DEF TunOut

LEMMA AcceptedByInProxy == ASSUME CmdInv, Accepted, InProxy PROVE Accepted'
<1>1. CASE Refuse("error")
  BY <1>1, AcceptedStays DEF Refuse
<1>2. ASSUME NEW u, u = Parse[fv[at]], IsInProxy(u), proxy_type_str' = The(u.scheme),
             cfg' = [cfg EXCEPT !.server = proxy_type_str', !.listen = host'],
             at' = 3, line' = line
      PROVE  Accepted'
  <2>1. at = 2 /\ fv[1] = Proxy /\ fv' = fv
    BY <1>2 DEF InProxy, fv
  <2>2. fv[1] # Tunnel
    BY <2>1 DEF Tunnel, Proxy
  <2>3. cfg'.server = The(u.scheme)
    BY <1>2 DEF CmdInv, CfgIsRecord
  <2>4. FirstsAccepted'
    BY <1>2, <2>1, <2>2, <2>3 DEF FirstsAccepted
  <2>5. DestinationAccepted'
    BY <1>2 DEF DestinationAccepted
  <2>6. ChainAccepted'
    <3>1. Chain0' = 3
      BY <2>1, <2>2 DEF Chain0
    <3>2. \A i \in Chain0'..at' - 1 : FALSE
      BY <1>2, <3>1
    <3> QED
      BY <3>2 DEF ChainAccepted
  <2> QED
    BY <2>4, <2>5, <2>6 DEF Accepted
<1> QED
  BY <1>1, <1>2 DEF InProxy

LEMMA AcceptedByChain == ASSUME CmdInv, Accepted, Chain PROVE Accepted'
<1>1. CASE Refuse("error")
  BY <1>1, AcceptedStays DEF Refuse
<1>2. ASSUME NEW u, u = Parse[fv[at]], IsChainEntry(u), NEW e,
             cfg' = [cfg EXCEPT !.chain = Append(@, e)],
             at' = at + 1, line' = line
      PROVE  Accepted'
  <2>1. /\ at > 1 /\ at >= Chain0 /\ at \in Nat
        /\ fv' = fv /\ Chain0' = Chain0 /\ Chain0 \in {3, 4}
        /\ fv[1] = Tunnel => Chain0 = 4
    BY <1>2 DEF Chain, Chain0, fv, CmdInv, TypeOK
  <2>2. cfg'.server = cfg.server
    BY <1>2 DEF CmdInv, CfgIsRecord
  <2>3. FirstsAccepted'
    BY <2>1, <2>2 DEF Accepted, FirstsAccepted
  <2>4. DestinationAccepted'
    <3>1. fv[1] = Tunnel => at > 3
      BY <2>1
    <3> QED
      BY <2>1, <3>1 DEF Accepted, DestinationAccepted
  <2>5. ChainAccepted'
    <3>1. ASSUME NEW i \in Chain0..at PROVE IsChainEntry(Parse[fv[i]])
      <4>1. CASE i = at
        BY <1>2, <4>1
      <4>2. CASE i \in Chain0..at - 1
        BY <2>1, <4>2 DEF Accepted, ChainAccepted
      <4> QED
        BY <2>1, <4>1, <4>2
    <3>2. at' - 1 = at
      BY <1>2, <2>1
    <3> QED
      BY <2>1, <3>1, <3>2 DEF ChainAccepted
  <2> QED
    BY <2>3, <2>4, <2>5 DEF Accepted
<1> QED
  BY <1>1, <1>2 DEF Chain

LEMMA AcceptedNext == CmdInv /\ Accepted /\ [Next]_vars => Accepted'
<1> SUFFICES ASSUME CmdInv, Accepted, [Next]_vars PROVE Accepted'
  OBVIOUS
<1>1. CASE Usage
  BY <1>1, AcceptedStays DEF Usage, Refuse
<1>2. CASE UnknownInType
  BY <1>2, AcceptedStays DEF UnknownInType, Refuse
<1>3. CASE InType
  BY <1>3, AcceptedByInType
<1>4. CASE TunIn
  BY <1>4, AcceptedByTunIn
<1>5. CASE TunOut
  BY <1>5, AcceptedByTunOut
<1>6. CASE InProxy
  BY <1>6, AcceptedByInProxy
<1>7. CASE Chain
  BY <1>7, AcceptedByChain
<1>8. CASE Run
  BY <1>8, AcceptedStays DEF Run
<1>9. CASE UNCHANGED vars
  BY <1>9, AcceptedStays DEF vars
<1> QED
  BY <1>1, <1>2, <1>3, <1>4, <1>5, <1>6, <1>7, <1>8, <1>9 DEF Next

\* An argument that has passed is complete, and what was made of it is spelled
\* by it.
LEMMA ArgumentSpelled ==
  ASSUME \E k \in DOMAIN Lines : line \in Lines[k], NEW i \in 1..Len(fv),
         NEW d, SaidBy(d, Parse[fv[i]]), Complete(Parse[fv[i]])
  PROVE  Spells(fv[i], IF Parse[fv[i]].scheme = None THEN <<>> ELSE The(Parse[fv[i]].scheme),
                Credentials(Parse[fv[i]]), d)
<1>1. fv[i] \in Text /\ Separated(fv[i])
  <2>1. fv \in Seq(Text) /\ \A j \in DOMAIN fv : Separated(fv[j])
    BY CmdlineAssumption DEF fv
  <2> QED
    BY <2>1
<1> QED
  BY <1>1, ParseSpelled

LEMMA AcceptedIsComplete ==
  ASSUME NEW u
  PROVE  /\ IsEndpoint(u) => Complete(u) /\ u.scheme = None /\ Credentials(u) = NoCreds
         /\ IsProxyInfo(u, FALSE, FALSE) =>
              Complete(u) /\ u.scheme = None /\ Credentials(u) = NoCreds
         /\ IsInProxy(u) => Complete(u) /\ u.scheme # None /\ Credentials(u) = NoCreds
         /\ IsChainEntry(u) => Complete(u) /\ u.scheme # None
BY DEF IsEndpoint, IsProxyInfo, IsInProxy, IsChainEntry, Complete, Credentials

\* The program runs with nothing but what the arguments spell, each of them
\* from its first character to its last (config_from_cmdline.cpp:149-242 over
\* url_parser.cpp:20-190 and inet_pton.cpp:36-151), for any command line: in
\* the ways that Spells allows, some of them odder than the usage text (what
\* stands behind a dotted quad, a user name alone, an empty port, and groups of
\* an IPv6 address that are left out).
THEOREM ConfigIsSpelledByArguments == Spec => []ConfigSpelledByArguments
<1>1. Init => CmdInv /\ Accepted
  <2> SUFFICES ASSUME Init PROVE Accepted
    BY InitInv
  <2>1. at = 1
    BY DEF Init
  <2> QED
    BY <2>1 DEF Accepted, FirstsAccepted, DestinationAccepted, ChainAccepted
<1>2. CmdInv /\ Accepted /\ [Next]_vars => (CmdInv /\ Accepted)'
  BY NextInv, AcceptedNext
<1>3. CmdInv /\ Accepted => ConfigSpelledByArguments
  <2> SUFFICES ASSUME CmdInv, Accepted, status = "running" PROVE ConfigSpelledByArguments
    BY DEF ConfigSpelledByArguments
  <2>1. /\ fv \in Seq(Text) /\ Len(fv) \in Nat /\ at \in Nat
        /\ at > 1 /\ at >= Chain0 /\ at = Len(fv) + 1 /\ Chain0 \in {3, 4}
        /\ \E k \in DOMAIN Lines : line \in Lines[k]
    BY ArgumentsAreSeq DEF CmdInv, TypeOK, AllLookedAt, Chain0
  <2>2. /\ cfg.type = "tunnel" => fv[1] = Tunnel /\ Chain0 = 4
        /\ cfg.type = "proxy" => fv[1] = Proxy
    BY <2>1 DEF CmdInv, TypeIsFirst, Tunnel, Proxy, Chain0
  <2>3. SaidBy(cfg.listen, Parse[fv[2]])
    BY <2>1 DEF CmdInv, ListenIsSecond
  <2>4. ASSUME cfg.type = "tunnel"
        PROVE  /\ Spells(fv[2], <<>>, NoCreds, cfg.listen)
               /\ Spells(fv[3], <<>>, NoCreds, cfg.destination)
    <3>1. at > 2 /\ at > 3 /\ 2 \in 1..Len(fv) /\ 3 \in 1..Len(fv)
      BY <2>1, <2>2, <2>4
    <3>2. IsEndpoint(Parse[fv[2]]) /\ IsProxyInfo(Parse[fv[3]], FALSE, FALSE)
      BY <2>2, <2>4, <3>1 DEF Accepted, FirstsAccepted, DestinationAccepted
    <3>3. SaidBy(cfg.destination, Parse[fv[3]])
      BY <2>4, <3>1 DEF CmdInv, DestinationIsThird
    <3>4. /\ Complete(Parse[fv[2]]) /\ Parse[fv[2]].scheme = None
          /\ Credentials(Parse[fv[2]]) = NoCreds
          /\ Complete(Parse[fv[3]]) /\ Parse[fv[3]].scheme = None
          /\ Credentials(Parse[fv[3]]) = NoCreds
      BY <3>2, AcceptedIsComplete
    <3>5. Spells(fv[2], <<>>, NoCreds, cfg.listen)
      BY <2>1, <2>3, <3>1, <3>4, ArgumentSpelled
    <3>6. Spells(fv[3], <<>>, NoCreds, cfg.destination)
      BY <2>1, <3>1, <3>3, <3>4, ArgumentSpelled
    <3> QED
      BY <3>5, <3>6
  <2>5. ASSUME cfg.type = "proxy" PROVE Spells(fv[2], cfg.server, NoCreds, cfg.listen)
    <3>1. at > 2 /\ 2 \in 1..Len(fv)
      BY <2>1
    <3>2. IsInProxy(Parse[fv[2]]) /\ cfg.server = The(Parse[fv[2]].scheme)
      BY <2>2, <2>5, <3>1 DEF Accepted, FirstsAccepted
    <3>3. /\ Complete(Parse[fv[2]]) /\ Parse[fv[2]].scheme # None
          /\ Credentials(Parse[fv[2]]) = NoCreds
      BY <3>2, AcceptedIsComplete
    <3> QED
      BY <2>1, <2>3, <3>1, <3>2, <3>3, ArgumentSpelled
  <2>6. ASSUME NEW i \in DOMAIN cfg.chain
        PROVE  Spells(fv[Chain0 + i - 1], cfg.chain[i].type, cfg.chain[i].creds,
                      cfg.chain[i].address)
    <3>1. Len(cfg.chain) = at - Chain0 /\ i \in 1..Len(cfg.chain)
      BY <2>1 DEF CmdInv, ChainSoFar, Entered, ChainIsSeq
    <3> DEFINE j == Chain0 + i - 1
    <3>2. j \in Chain0..at - 1 /\ j \in 1..Len(fv)
      BY <2>1, <3>1
    <3>3. EntryIs(cfg.chain[i], fv[j])
      BY <3>1 DEF CmdInv, ChainSoFar
    <3> HIDE DEF j
    <3>4. /\ cfg.chain[i].type = The(Parse[fv[j]].scheme)
          /\ SaidBy(cfg.chain[i].address, Parse[fv[j]])
          /\ cfg.chain[i].creds = Credentials(Parse[fv[j]])
      BY <3>3 DEF EntryIs
    <3>5. Complete(Parse[fv[j]]) /\ Parse[fv[j]].scheme # None
      BY <2>1, <3>2, AcceptedIsComplete DEF Accepted, ChainAccepted
    <3>6. Spells(fv[j], cfg.chain[i].type, cfg.chain[i].creds, cfg.chain[i].address)
      BY <2>1, <3>2, <3>4, <3>5, ArgumentSpelled
    <3> QED
      BY <3>6 DEF j
  <2> QED
    BY <2>4, <2>5, <2>6 DEF ConfigSpelledByArguments
<1> QED
  BY <1>1, <1>2, <1>3, PTL DEF Spec

-----------------------------------------------------------------------------
(* The IPv6 addresses of the usage text: each is regular, and inet_pton     *)
(* makes of it what it means.                                               *)

\* The k-th word of some stands at 2k - 1, with a colon between two of them.
LEMMA WithColonsIs ==
  ASSUME NEW words \in Seq(Word), NEW w, w = WithColons(words)
  PROVE  /\ w \in Text
         /\ Len(w) = IF Len(words) = 0 THEN 0 ELSE 2 * Len(words) - 1
         /\ \A k \in 1..Len(words) : w[2 * k - 1] = words[k]
         /\ \A k \in 1..Len(words) - 1 : w[2 * k] = ":"
<1> DEFINE n == Len(words)
           f == [i \in 1..2 * n - 1 |-> IF i % 2 = 1 THEN words[(i + 1) \div 2] ELSE ":"]
<1>1. w = f /\ n \in Nat /\ \A i \in 1..n : words[i] \in Word
  BY DEF WithColons
<1>2. ":" \in Word \union Delimiter
  BY Kinds
<1>3. ASSUME NEW k \in 1..n PROVE f[2 * k - 1] = words[k]
  <2>1. 2 * k - 1 \in 1..2 * n - 1 /\ (2 * k - 1) % 2 = 1 /\ ((2 * k - 1) + 1) \div 2 = k
    BY <1>1
  <2> QED
    BY <2>1
<1>4. ASSUME NEW k \in 1..n - 1 PROVE f[2 * k] = ":"
  <2>1. 2 * k \in 1..2 * n - 1 /\ (2 * k) % 2 = 0
    BY <1>1
  <2> QED
    BY <2>1
<1>5. ASSUME NEW i \in 1..2 * n - 1 PROVE f[i] \in Word \union Delimiter
  <2>1. CASE i % 2 = 1
    <3>1. (i + 1) \div 2 \in 1..n
      BY <1>1, <2>1
    <3> QED
      BY <1>1, <2>1, <3>1
  <2>2. CASE i % 2 # 1
    BY <1>2, <2>2
  <2> QED
    BY <2>1, <2>2
<1>6. CASE n = 0
  <2>1. f \in Text /\ Len(f) = 0
    <3>1. 1..2 * n - 1 = 1..0
      BY <1>6
    <3>2. f \in [1..0 -> Word \union Delimiter]
      BY <3>1
    <3> HIDE DEF f
    <3> QED
      BY <3>2 DEF Text
  <2> QED
    BY <1>1, <1>3, <1>4, <1>6, <2>1
<1>7. CASE n # 0
  <2>1. f \in [1..2 * n - 1 -> Word \union Delimiter] /\ 2 * n - 1 \in Nat
    BY <1>1, <1>5, <1>7
  <2> HIDE DEF f
  <2>2. f \in Text /\ Len(f) = 2 * n - 1
    BY <2>1 DEF Text
  <2> QED
    BY <1>1, <1>3, <1>4, <1>7, <2>2
<1> QED
  BY <1>6, <1>7

\* The colons in front of each word.
LEMMA ColonsAlong ==
  ASSUME NEW text, NEW off \in Nat, NEW n \in Nat,
         \A k \in 1..n : text[off + 2 * k - 1] \in Word,
         \A k \in 1..n - 1 : text[off + 2 * k] = ":"
  PROVE  \A k \in 1..n : Colons(text, off + 2 * k - 1) = Colons(text, off) + k - 1
<1> DEFINE C(i) == Colons(text, i)
           T == {m \in Nat : m < n => C(off + 2 * (m + 1) - 1) = C(off) + m}
<1>1. \A i \in Nat : /\ C(i) \in Nat
                     /\ text[i + 1] = ":" => C(i + 1) = C(i) + 1
                     /\ text[i + 1] # ":" => C(i + 1) = C(i)
  BY ColonsCount
<1> HIDE DEF C
<1>2. 0 \in T
  <2> SUFFICES ASSUME 0 < n PROVE C(off + 2 * (0 + 1) - 1) = C(off) + 0
    OBVIOUS
  <2>1. text[off + 2 * 1 - 1] # ":" /\ off + 2 * 1 - 1 = off + 1
    BY Kinds
  <2> QED
    BY <1>1, <2>1
<1>3. ASSUME NEW m \in Nat, m \in T PROVE m + 1 \in T
  <2> SUFFICES ASSUME m + 1 < n PROVE C(off + 2 * (m + 1 + 1) - 1) = C(off) + (m + 1)
    OBVIOUS
  <2> DEFINE i == off + 2 * (m + 1) - 1
  <2>1. i \in Nat /\ i + 1 = off + 2 * (m + 1) /\ i + 1 + 1 = off + 2 * (m + 1 + 1) - 1
    OBVIOUS
  <2>2. C(i) = C(off) + m /\ C(off) \in Nat
    BY <1>1, <1>3
  <2>3. text[i + 1] = ":"
    <3>1. m + 1 \in 1..n - 1
      OBVIOUS
    <3> QED
      BY <2>1, <3>1
  <2>4. text[i + 1 + 1] # ":"
    <3>1. m + 1 + 1 \in 1..n
      OBVIOUS
    <3>2. text[off + 2 * (m + 1 + 1) - 1] \in Word
      BY <3>1
    <3> QED
      BY <2>1, <3>2, Kinds
  <2> HIDE DEF i
  <2>5. C(i + 1) = C(i) + 1 /\ C(i + 1 + 1) = C(i + 1)
    BY <1>1, <2>1, <2>3, <2>4
  <2>6. C(i + 1 + 1) = C(off) + (m + 1)
    BY <2>2, <2>5
  <2> QED
    BY <2>1, <2>6
<1>4. Nat \subseteq T
  <2> HIDE DEF T
  <2> QED
    BY <1>2, <1>3, NumbersInduction
<1>5. ASSUME NEW k \in 1..n PROVE C(off + 2 * k - 1) = C(off) + k - 1
  <2>1. k - 1 \in T /\ k - 1 < n /\ k - 1 + 1 = k /\ C(off) \in Nat
    BY <1>1, <1>4
  <2>2. C(off + 2 * (k - 1 + 1) - 1) = C(off) + (k - 1)
    BY <2>1
  <2> QED
    BY <2>1, <2>2
<1> QED
  BY <1>5 DEF C

LEMMA NoTwoColons ==
  ASSUME NEW text, NEW off \in Nat, NEW n \in Nat,
         \A k \in 1..n : text[off + 2 * k - 1] \in Word,
         NEW i \in off + 1..off + 2 * n - 2
  PROVE  ~ (text[i] = ":" /\ text[i + 1] = ":")
<1>1. \E k \in 1..n : i = off + 2 * k - 1 \/ i + 1 = off + 2 * k - 1
  <2> DEFINE j == i - off
  <2>1. j \in 1..2 * n - 2 /\ i = off + j
    OBVIOUS
  <2> HIDE DEF j
  <2>2. CASE j % 2 = 1
    <3>1. (j + 1) \div 2 \in 1..n /\ j = 2 * ((j + 1) \div 2) - 1
      BY <2>1, <2>2
    <3>2. i = off + 2 * ((j + 1) \div 2) - 1
      BY <2>1, <3>1
    <3> QED
      BY <3>1, <3>2
  <2>3. CASE j % 2 # 1
    <3>1. (j \div 2) + 1 \in 1..n /\ j = 2 * (j \div 2)
      BY <2>1, <2>3
    <3>2. i + 1 = off + 2 * ((j \div 2) + 1) - 1
      BY <2>1, <3>1
    <3> QED
      BY <3>1, <3>2
  <2> QED
    BY <2>2, <2>3
<1>2. PICK k \in 1..n : i = off + 2 * k - 1 \/ i + 1 = off + 2 * k - 1
  BY <1>1
<1>3. text[off + 2 * k - 1] # ":"
  BY Kinds
<1> QED
  BY <1>2, <1>3

LEMMA LiteralIs ==
  ASSUME NEW l \in Literals
  PROVE  /\ l[1] \in Seq(Word) /\ l[2] \in Seq(Word)
         /\ Len(l[1]) \in Nat /\ Len(l[2]) \in Nat
         /\ \A k \in 1..Len(l[1]) : l[1][k] \in Word /\ Hex[l[1][k]] # None
         /\ \A k \in 1..Len(l[2]) : l[2][k] \in Word /\ Hex[l[2][k]] # None
         /\ Len(l[1]) = 8 => Len(l[2]) = 0
         /\ Len(l[1]) # 8 => Len(l[1]) + Len(l[2]) <= 7
         /\ Len(l[1]) + Len(l[2]) <= 8
<1>1. /\ l[1] \in Seq(Word) /\ l[2] \in Seq(Word)
      /\ \A i \in DOMAIN l[1] : Hex[l[1][i]] # None
      /\ \A i \in DOMAIN l[2] : Hex[l[2][i]] # None
      /\ (Len(l[1]) = 8 /\ l[2] = <<>>) \/ Len(l[1]) + Len(l[2]) <= 7
  BY UsageAssumption
<1> DEFINE x == l[1]
           y == l[2]
<1> HIDE DEF x, y
<1>2. x \in Seq(Word) /\ y \in Seq(Word) /\ ((Len(x) = 8 /\ y = <<>>) \/ Len(x) + Len(y) <= 7)
      /\ (\A i \in DOMAIN x : Hex[x[i]] # None) /\ (\A i \in DOMAIN y : Hex[y[i]] # None)
  BY <1>1 DEF x, y
<1>3. Len(x) \in Nat /\ Len(y) \in Nat /\ (Len(x) = 8 => Len(y) = 0)
  <2>0. x \in Seq(Word) /\ y \in Seq(Word)
    BY <1>2
  <2>1. Len(x) \in Nat /\ Len(y) \in Nat
    BY <2>0
  <2>2. y = <<>> => Len(y) = 0
    OBVIOUS
  <2>3. (Len(x) = 8 /\ y = <<>>) \/ Len(x) + Len(y) <= 7
    BY <1>2
  <2>4. \A p, q \in Nat : p + q <= 7 => p # 8
    OBVIOUS
  <2>5. Len(x) = 8 => y = <<>>
    BY <2>1, <2>3, <2>4, Zenon
  <2> QED
    BY <2>1, <2>2, <2>5, Zenon
<1>4. Len(x) # 8 => Len(x) + Len(y) <= 7
  BY <1>2
<1>5. \A k \in 1..Len(x) : x[k] \in Word /\ Hex[x[k]] # None
  BY <1>2
<1>6. \A k \in 1..Len(y) : y[k] \in Word /\ Hex[y[k]] # None
  BY <1>2
<1>7. Len(x) + Len(y) <= 8
  <2>1. \A p, q \in Nat : p + q <= 7 \/ (p = 8 /\ q = 0) => p + q <= 8
    OBVIOUS
  <2>2. Len(x) + Len(y) <= 7 \/ (Len(x) = 8 /\ Len(y) = 0)
    BY <1>3, <1>4
  <2> QED
    BY <1>3, <2>1, <2>2, Zenon
<1> QED
  BY <1>2, <1>3, <1>4, <1>5, <1>6, <1>7 DEF x, y

\* The words of an address and the colons between them.
FrontLen(l) == IF Len(l[1]) = 0 THEN 0 ELSE 2 * Len(l[1]) - 1

IsGapText(l, text, m) ==
  /\ text \in Text
  /\ Len(text) = m + 2 + IF Len(l[2]) = 0 THEN 0 ELSE 2 * Len(l[2]) - 1
  /\ \A k \in 1..Len(l[1]) : text[2 * k - 1] = l[1][k]
  /\ \A k \in 1..Len(l[1]) - 1 : text[2 * k] = ":"
  /\ text[m + 1] = ":" /\ text[m + 2] = ":"
  /\ \A k \in 1..Len(l[2]) : text[m + 2 + 2 * k - 1] = l[2][k]
  /\ \A k \in 1..Len(l[2]) - 1 : text[m + 2 + 2 * k] = ":"

LEMMA GapText ==
  ASSUME NEW l \in Literals, Len(l[1]) # 8
  PROVE  IsGapText(l, LiteralText(l), FrontLen(l))
<1> DEFINE text == LiteralText(l)
           m == FrontLen(l)
<1>0. m = IF Len(l[1]) = 0 THEN 0 ELSE 2 * Len(l[1]) - 1
  BY DEF FrontLen
<1> DEFINE a == WithColons(l[1])
           b == WithColons(l[2])
           gap == <<":", ":">>
           c == a \o gap
           n1 == Len(l[1])
           n2 == Len(l[2])
           S == Word \union Delimiter
<1>1. text = c \o b
  BY DEF LiteralText
<1> HIDE DEF text, m
<1>2. n1 \in Nat /\ n2 \in Nat
  BY LiteralIs
<1>3. /\ a \in Seq(S) /\ Len(a) = m
      /\ \A k \in 1..n1 : a[2 * k - 1] = l[1][k]
      /\ \A k \in 1..n1 - 1 : a[2 * k] = ":"
  <2>1. l[1] \in Seq(Word) /\ a = WithColons(l[1])
    BY LiteralIs
  <2> HIDE DEF a
  <2> QED
    BY <1>0, <2>1, WithColonsIs DEF Text
<1>4. /\ b \in Seq(S) /\ Len(b) = IF n2 = 0 THEN 0 ELSE 2 * n2 - 1
      /\ \A k \in 1..n2 : b[2 * k - 1] = l[2][k]
      /\ \A k \in 1..n2 - 1 : b[2 * k] = ":"
  <2>1. l[2] \in Seq(Word) /\ b = WithColons(l[2])
    BY LiteralIs
  <2> HIDE DEF b
  <2> QED
    BY <2>1, WithColonsIs DEF Text
<1>5. gap \in Seq(S) /\ Len(gap) = 2 /\ gap[1] = ":" /\ gap[2] = ":"
  BY Kinds
<1> HIDE DEF a, b, gap, S
<1>6. /\ c \in Seq(S) /\ Len(c) = m + 2
      /\ \A i \in 1..m : c[i] = a[i]
      /\ \A i \in 1..2 : c[m + i] = gap[i]
  <2>1. /\ c \in Seq(S) /\ Len(c) = Len(a) + Len(gap)
        /\ \A i \in 1..Len(a) : c[i] = a[i]
        /\ \A i \in 1..Len(gap) : c[Len(a) + i] = gap[i]
    <3>1. c = a \o gap
      OBVIOUS
    <3>2. a \in Seq(S) /\ gap \in Seq(S)
      BY <1>3, <1>5
    <3> HIDE DEF c
    <3> QED
      BY <3>1, <3>2, JoinedIs
  <2> HIDE DEF c
  <2> QED
    BY <1>3, <1>5, <2>1
<1> HIDE DEF c
<1>7. /\ text \in Seq(S) /\ Len(text) = m + 2 + Len(b)
      /\ \A i \in 1..m + 2 : text[i] = c[i]
      /\ \A i \in 1..Len(b) : text[m + 2 + i] = b[i]
  <2>1. /\ text \in Seq(S) /\ Len(text) = Len(c) + Len(b)
        /\ \A i \in 1..Len(c) : text[i] = c[i]
        /\ \A i \in 1..Len(b) : text[Len(c) + i] = b[i]
    <3>1. c \in Seq(S) /\ b \in Seq(S)
      BY <1>4, <1>6
    <3> QED
      BY <1>1, <3>1, JoinedIs
  <2> QED
    BY <1>6, <2>1
<1>8. /\ \A k \in 1..n1 : 2 * k - 1 \in 1..m
      /\ \A k \in 1..n1 - 1 : 2 * k \in 1..m
      /\ \A k \in 1..n2 : 2 * k - 1 \in 1..Len(b) /\ m + 2 + (2 * k - 1) = m + 2 + 2 * k - 1
      /\ \A k \in 1..n2 - 1 : 2 * k \in 1..Len(b)
      /\ m \in Nat /\ 1..m \subseteq 1..m + 2 /\ m + 1 \in 1..m + 2 /\ m + 2 \in 1..m + 2
  <2> HIDE DEF n1, n2
  <2>0. m = IF n1 = 0 THEN 0 ELSE 2 * n1 - 1
    BY <1>0 DEF n1
  <2>1. m \in Nat /\ 1..m \subseteq 1..m + 2 /\ m + 1 \in 1..m + 2 /\ m + 2 \in 1..m + 2
    BY <1>2, <2>0
  <2>2. (\A k \in 1..n1 : 2 * k - 1 \in 1..m) /\ (\A k \in 1..n1 - 1 : 2 * k \in 1..m)
    BY <1>2, <2>0
  <2>3. /\ \A k \in 1..n2 : 2 * k - 1 \in 1..Len(b)
        /\ \A k \in 1..n2 - 1 : 2 * k \in 1..Len(b)
    BY <1>2, <1>4
  <2>4. \A k \in 1..n2 : m + 2 + (2 * k - 1) = m + 2 + 2 * k - 1
    BY <1>2, <2>1
  <2> QED
    BY <2>1, <2>2, <2>3, <2>4
<1> HIDE DEF n1, n2
<1>9. \A k \in 1..n1 : text[2 * k - 1] = l[1][k]
  BY <1>3, <1>6, <1>7, <1>8
<1>10. \A k \in 1..n1 - 1 : text[2 * k] = ":"
  BY <1>3, <1>6, <1>7, <1>8
<1>11. text[m + 1] = ":" /\ text[m + 2] = ":"
  <2>1. text[m + 1] = c[m + 1] /\ text[m + 2] = c[m + 2]
    BY <1>7, <1>8
  <2>2. c[m + 1] = gap[1] /\ c[m + 2] = gap[2]
    BY <1>6
  <2> QED
    BY <1>5, <2>1, <2>2
<1>12. ASSUME NEW k \in 1..n2 PROVE text[m + 2 + 2 * k - 1] = l[2][k]
  <2>1. text[m + 2 + (2 * k - 1)] = b[2 * k - 1]
    BY <1>7, <1>8
  <2> QED
    BY <1>4, <1>8, <2>1
<1>13. \A k \in 1..n2 - 1 : text[m + 2 + 2 * k] = ":"
  BY <1>4, <1>7, <1>8
<1>14. text \in Text /\ Len(text) = m + 2 + IF n2 = 0 THEN 0 ELSE 2 * n2 - 1
  BY <1>4, <1>7 DEF S, Text
<1>15. IsGapText(l, text, m)
  BY <1>9, <1>10, <1>11, <1>12, <1>13, <1>14 DEF n1, n2, IsGapText
<1> QED
  BY <1>15 DEF text, m

LEMMA OddOrEven ==
  ASSUME NEW off \in Nat, NEW n \in Nat, NEW i \in off + 1..off + 2 * n - 1
  PROVE  (\E k \in 1..n : i = off + 2 * k - 1) \/ (\E k \in 1..n - 1 : i = off + 2 * k)
<1> DEFINE j == i - off
<1>1. j \in 1..2 * n - 1 /\ i = off + j
  OBVIOUS
<1> HIDE DEF j
<1>2. CASE j % 2 = 1
  <2>1. (j + 1) \div 2 \in 1..n /\ j = 2 * ((j + 1) \div 2) - 1
    BY <1>1, <1>2
  <2>2. i = off + 2 * ((j + 1) \div 2) - 1
    BY <1>1, <2>1
  <2> QED
    BY <2>1, <2>2
<1>3. CASE j % 2 # 1
  <2>1. j \div 2 \in 1..n - 1 /\ j = 2 * (j \div 2)
    BY <1>1, <1>3
  <2>2. i = off + 2 * (j \div 2)
    BY <1>1, <2>1
  <2> QED
    BY <2>1, <2>2
<1> QED
  BY <1>2, <1>3

\* The groups that are meant.
GroupsAre(l, groups) ==
  /\ groups \in Seq(GroupValue) /\ Len(groups) = 8
  /\ \A k \in 1..Len(l[1]) : Hex[l[1][k]] = {groups[k]}
  /\ \A g \in Len(l[1]) + 1..8 - Len(l[2]) : groups[g] = Zero
  /\ \A k \in 1..Len(l[2]) : Hex[l[2][k]] = {groups[8 - Len(l[2]) + k]}

LEMMA LiteralAddressIs == ASSUME NEW l \in Literals PROVE GroupsAre(l, LiteralAddress(l))
<1> DEFINE groups == LiteralAddress(l)
<1>1. \A i \in {1, 2} :
        /\ GroupsOf(l[i]) \in Seq(GroupValue) /\ Len(GroupsOf(l[i])) = Len(l[i])
        /\ \A k \in 1..Len(l[i]) : Hex[l[i][k]] = {GroupsOf(l[i])[k]}
  <2> SUFFICES ASSUME NEW i \in {1, 2}
               PROVE  /\ GroupsOf(l[i]) \in Seq(GroupValue) /\ Len(GroupsOf(l[i])) = Len(l[i])
                      /\ \A k \in 1..Len(l[i]) : Hex[l[i][k]] = {GroupsOf(l[i])[k]}
    OBVIOUS
  <2> DEFINE words == l[i]
  <2>1. /\ words \in Seq(Word) /\ Len(words) \in Nat
        /\ \A k \in 1..Len(words) : words[k] \in Word /\ Hex[words[k]] # None
    BY LiteralIs
  <2> HIDE DEF words
  <2>2. DOMAIN words = 1..Len(words)
    BY <2>1
  <2>3. GroupsOf(words) = [k \in 1..Len(words) |-> The(Hex[words[k]])]
    BY <2>2 DEF GroupsOf
  <2>4. \A k \in 1..Len(words) : Hex[words[k]] = {The(Hex[words[k]])} /\ The(Hex[words[k]]) \in GroupValue
    BY <2>1, OptionIsOne
  <2>5. GroupsOf(words) \in [1..Len(words) -> GroupValue]
    BY <2>3, <2>4
  <2>6. GroupsOf(words) \in Seq(GroupValue) /\ Len(GroupsOf(words)) = Len(words)
    BY <2>1, <2>5
  <2>7. \A k \in 1..Len(words) : Hex[words[k]] = {GroupsOf(words)[k]}
    BY <2>3, <2>4
  <2> QED
    BY <2>6, <2>7 DEF words
<1> DEFINE front == GroupsOf(l[1])
           back == GroupsOf(l[2])
<1>2. groups = Filled(Machine("done", front, back, Zero))
  <2>1. Len(front) = Len(l[1]) /\ Len(back) = Len(l[2])
    BY <1>1
  <2> HIDE DEF front, back
  <2>2. groups = front \o [i \in 1..8 - Len(front) - Len(back) |-> Zero] \o back
    BY <2>1 DEF LiteralAddress, front, back, Zero
  <2> QED
    BY <2>2 DEF Filled, Machine, Groups
<1>3. /\ front \in Seq(GroupValue) /\ back \in Seq(GroupValue)
      /\ Len(front) = Len(l[1]) /\ Len(back) = Len(l[2])
      /\ \A k \in 1..Len(l[1]) : Hex[l[1][k]] = {front[k]}
      /\ \A k \in 1..Len(l[2]) : Hex[l[2][k]] = {back[k]}
  BY <1>1
<1> HIDE DEF front, back, groups
<1>4. Len(front) + Len(back) <= 8
  <2>1. Len(l[1]) + Len(l[2]) <= 8
    BY LiteralIs
  <2> QED
    BY <1>3, <2>1, Zenon
<1>5. /\ groups \in Seq(GroupValue) /\ Len(groups) = 8
      /\ \A g \in 1..Len(front) : groups[g] = front[g]
      /\ \A g \in Len(front) + 1..8 - Len(back) : groups[g] = Zero
      /\ \A b \in 1..Len(back) : groups[8 - Len(back) + b] = back[b]
  <2>1. front \in Seq(GroupValue) /\ back \in Seq(GroupValue)
    BY <1>3
  <2> QED
    BY <1>2, <1>4, <2>1, FilledIs
<1>6. \A k \in 1..Len(l[1]) : Hex[l[1][k]] = {groups[k]}
  BY <1>3, <1>5, Zenon
<1>7. \A g \in Len(l[1]) + 1..8 - Len(l[2]) : groups[g] = Zero
  BY <1>3, <1>5, Zenon
<1>8. ASSUME NEW k \in 1..Len(l[2]) PROVE Hex[l[2][k]] = {groups[8 - Len(l[2]) + k]}
  <2>1. Hex[l[2][k]] = {back[k]} /\ Len(back) = Len(l[2])
    BY <1>3
  <2>2. groups[8 - Len(back) + k] = back[k]
    BY <1>5, <2>1
  <2> QED
    BY <2>1, <2>2
<1>9. GroupsAre(l, groups)
  BY <1>5, <1>6, <1>7, <1>8 DEF GroupsAre
<1> QED
  BY <1>9 DEF groups

\* Eight words, or fewer around the "::": what the text is at each place.
LEMMA FullText ==
  ASSUME NEW l \in Literals, Len(l[1]) = 8, NEW text, text = LiteralText(l)
  PROVE  /\ text \in Text /\ Len(text) = 15
         /\ \A k \in 1..8 : text[2 * k - 1] = l[1][k]
         /\ \A k \in 1..7 : text[2 * k] = ":"
<1> DEFINE words == l[1]
<1>1. text = WithColons(words) /\ words \in Seq(Word) /\ Len(words) = 8
  BY LiteralIs DEF LiteralText
<1> HIDE DEF words
<1>2. /\ text \in Text
      /\ Len(text) = IF Len(words) = 0 THEN 0 ELSE 2 * Len(words) - 1
      /\ \A k \in 1..Len(words) : text[2 * k - 1] = words[k]
      /\ \A k \in 1..Len(words) - 1 : text[2 * k] = ":"
  BY <1>1, WithColonsIs
<1>3. /\ text \in Text /\ Len(text) = 15
      /\ \A k \in 1..8 : text[2 * k - 1] = words[k]
      /\ \A k \in 1..7 : text[2 * k] = ":"
  BY <1>1, <1>2
<1> QED
  BY <1>3 DEF words

LEMMA FullSpelled ==
  ASSUME NEW l \in Literals, Len(l[1]) = 8, NEW text, text = LiteralText(l)
  PROVE  Regular(text) /\ SpellsAddress(text, LiteralAddress(l))
<1> DEFINE groups == LiteralAddress(l)
           C(i) == Colons(text, i)
<1>1. /\ text \in Text /\ Len(text) = 15 /\ DOMAIN text = 1..15
      /\ \A k \in 1..8 : text[2 * k - 1] = l[1][k]
      /\ \A k \in 1..7 : text[2 * k] = ":"
  <2>1. text \in Text /\ Len(text) = 15
    BY FullText
  <2>2. DOMAIN text = 1..15
    BY <2>1 DEF Text
  <2> QED
    BY <2>1, <2>2, FullText
<1>2. \A k \in 1..8 : l[1][k] \in Word /\ Hex[l[1][k]] # None
  BY LiteralIs
<1>3. /\ Len(groups) = 8 /\ \A k \in 1..8 : Hex[l[1][k]] = {groups[k]}
  <2>1. GroupsAre(l, groups)
    BY LiteralAddressIs
  <2> HIDE DEF groups
  <2> QED
    BY <2>1 DEF GroupsAre
<1> HIDE DEF groups
<1>4. \A k \in 1..8 : text[0 + 2 * k - 1] \in Word
  BY <1>1, <1>2
<1>5. \A k \in 1..8 : C(2 * k - 1) = k - 1
  <2>1. \A k \in 1..8 - 1 : text[0 + 2 * k] = ":"
    BY <1>1
  <2>2. \A k \in 1..8 : C(0 + 2 * k - 1) = C(0) + k - 1
    <3>1. 0 \in Nat /\ 8 \in Nat
      OBVIOUS
    <3> QED
      BY <1>4, <2>1, <3>1, ColonsAlong, Zenon
  <2>3. C(0) = 0
    BY ColonsCount
  <2> HIDE DEF C
  <2> QED
    BY <2>2, <2>3
<1>6. DoubleColon(text) = 0
  <2> DEFINE d == DoubleColon(text)
  <2>1. d \in 0..15 /\ (d # 0 => d < 15 /\ text[d] = ":" /\ text[d + 1] = ":")
    BY <1>1, DoubleColonIsFirst
  <2> HIDE DEF d
  <2>2. ASSUME d # 0 PROVE FALSE
    <3>1. d \in 0 + 1..0 + 2 * 8 - 2
      BY <2>1, <2>2
    <3> QED
      BY <1>4, <2>1, <2>2, <3>1, NoTwoColons
  <2> QED
    BY <2>2 DEF d
<1>7. C(15) = 7
  BY <1>5
<1>8. ASSUME NEW i \in 1..15
      PROVE  text[i] = ":" \/ \E k \in 1..8 : i = 2 * k - 1
  <2>1. (\E k \in 1..8 : i = 0 + 2 * k - 1) \/ (\E k \in 1..8 - 1 : i = 0 + 2 * k)
    <3>1. i \in 0 + 1..0 + 2 * 8 - 1
      OBVIOUS
    <3> QED
      BY <3>1, OddOrEven
  <2> QED
    BY <1>1, <2>1
<1>9. ASSUME NEW k \in 1..8
      PROVE  /\ text[2 * k - 1] \in Word /\ Hex[text[2 * k - 1]] # None
             /\ GroupAt(text, 2 * k - 1) = k /\ Hex[text[2 * k - 1]] = {groups[k]}
  <2>1. text[2 * k - 1] = l[1][k] /\ 2 * k - 1 \in Nat
    BY <1>1
  <2>2. GroupAt(text, 2 * k - 1) = 1 + C(2 * k - 1)
    BY <1>6, <2>1 DEF GroupAt
  <2> QED
    BY <1>2, <1>3, <1>5, <2>1, <2>2
<1>10. Regular(text)
  <2>1. \A i \in 1..15 : HexOrColon(text, i)
    BY <1>8, <1>9 DEF HexOrColon
  <2> QED
    BY <1>1, <1>6, <1>7, <2>1 DEF Regular
<1>11. ASSUME NEW i \in 1..15
       PROVE  \/ text[i] = ":"
              \/ /\ text[i] \in Word /\ GroupAt(text, i) \in 1..8
                 /\ Hex[text[i]] = {groups[GroupAt(text, i)]}
  BY <1>8, <1>9
<1>12. ASSUME NEW g \in 1..8
       PROVE  \E i \in 1..15 : text[i] \in Word /\ GroupAt(text, i) = g
  <2>1. 2 * g - 1 \in 1..15
    OBVIOUS
  <2> QED
    BY <1>9, <2>1
<1> QED
  BY <1>1, <1>3, <1>10, <1>11, <1>12 DEF SpellsAddress, groups

FrontColons(l) == IF Len(l[1]) = 0 THEN 0 ELSE Len(l[1]) - 1

\* The colons of an address with a "::": b of them in front of it.
GapPlaces(l, text, m, b) ==
  /\ DoubleColon(text) = m + 1
  /\ \A k \in 1..Len(l[1]) : Colons(text, 2 * k - 1) = k - 1
  /\ \A k \in 1..Len(l[2]) : Colons(text, m + 2 + 2 * k - 1) = b + k + 1
  /\ Colons(text, Len(text)) = b + 1 + IF Len(l[2]) = 0 THEN 1 ELSE Len(l[2])

LEMMA GapColons ==
  ASSUME NEW l \in Literals, NEW text, IsGapText(l, text, FrontLen(l))
  PROVE  GapPlaces(l, text, FrontLen(l), FrontColons(l))
<1> DEFINE n1 == Len(l[1])
           n2 == Len(l[2])
           m == FrontLen(l)
           b == FrontColons(l)
           C(i) == Colons(text, i)
           d == DoubleColon(text)
<1>1. n1 \in Nat /\ n2 \in Nat
  BY LiteralIs
<1>2. (\A k \in 1..n1 : l[1][k] \in Word) /\ (\A k \in 1..n2 : l[2][k] \in Word)
  BY LiteralIs
<1>3. m = (IF n1 = 0 THEN 0 ELSE 2 * n1 - 1) /\ b = (IF n1 = 0 THEN 0 ELSE n1 - 1)
  BY DEF FrontLen, FrontColons
<1>4. \A i \in Nat : text[i + 1] = ":" => C(i + 1) = C(i) + 1
  BY ColonsCount
<1>5. C(0) = 0
  BY ColonsCount
<1>6. text \in Text
  BY DEF IsGapText
<1>7. Len(text) = m + 2 + (IF n2 = 0 THEN 0 ELSE 2 * n2 - 1)
  BY DEF IsGapText
<1>8. (\A k \in 1..n1 : text[2 * k - 1] = l[1][k]) /\ (\A k \in 1..n1 - 1 : text[2 * k] = ":")
  BY DEF IsGapText
<1>9. text[m + 1] = ":" /\ text[m + 2] = ":"
  BY DEF IsGapText
<1>10. /\ \A k \in 1..n2 : text[m + 2 + 2 * k - 1] = l[2][k]
       /\ \A k \in 1..n2 - 1 : text[m + 2 + 2 * k] = ":"
  BY DEF IsGapText
<1> HIDE DEF n1, n2, m, b
<1>11. m \in Nat /\ b \in Nat /\ m + 2 \in Nat /\ m + 1 \in Nat
  BY <1>1, <1>3
<1>12. \A k \in 1..n1 : text[0 + 2 * k - 1] \in Word
  <2> SUFFICES ASSUME NEW k \in 1..n1 PROVE text[0 + 2 * k - 1] \in Word
    OBVIOUS
  <2>1. 0 + 2 * k - 1 = 2 * k - 1
    BY <1>1
  <2> QED
    BY <1>2, <1>8, <2>1
<1>13. \A k \in 1..n1 - 1 : text[0 + 2 * k] = ":"
  <2> SUFFICES ASSUME NEW k \in 1..n1 - 1 PROVE text[0 + 2 * k] = ":"
    OBVIOUS
  <2>1. 0 + 2 * k = 2 * k
    BY <1>1
  <2> QED
    BY <1>8, <2>1
<1>14. \A k \in 1..n2 : text[m + 2 + 2 * k - 1] \in Word
  BY <1>2, <1>10, Zenon
<1>15. \A k \in 1..n1 : C(0 + 2 * k - 1) = C(0) + k - 1
  <2>1. 0 \in Nat
    OBVIOUS
  <2> QED
    BY <1>1, <1>12, <1>13, <2>1, ColonsAlong, Zenon
<1>16. \A k \in 1..n2 : C(m + 2 + 2 * k - 1) = C(m + 2) + k - 1
  <2>1. \A k \in 1..n2 - 1 : text[m + 2 + 2 * k] = ":"
    BY <1>10
  <2> QED
    BY <1>1, <1>11, <1>14, <2>1, ColonsAlong, Zenon
<1>17. m + 1 \in 1..Len(text) - 1 /\ m + 1 + 1 = m + 2
  BY <1>1, <1>7, <1>11
<1>18. d \in 0..Len(text) /\ (d # 0 => d < Len(text) /\ text[d] = ":" /\ text[d + 1] = ":")
  BY <1>6, DoubleColonIsFirst
<1>19. d \in 1..m + 1
  <2>1. text[m + 1] = ":" /\ text[m + 1 + 1] = ":"
    BY <1>9, <1>17
  <2> QED
    BY <1>6, <1>17, <2>1, DoubleColonIsFirst, Zenon
<1> HIDE DEF C, d
<1>20. d # m
  <2> SUFFICES ASSUME d = m PROVE FALSE
    OBVIOUS
  <2>1. n1 \in 1..n1 /\ m = 2 * n1 - 1
    BY <1>1, <1>3, <1>19
  <2>2. text[d] \in Word
    BY <1>2, <1>8, <2>1
  <2>3. text[d] = ":"
    BY <1>18, <1>19
  <2> QED
    BY <2>2, <2>3, Kinds
<1>21. d \notin 1..m - 1
  <2> SUFFICES ASSUME d \in 1..m - 1 PROVE FALSE
    OBVIOUS
  <2>1. d \in 0 + 1..0 + 2 * n1 - 2 /\ 0 \in Nat
    BY <1>1, <1>3
  <2>2. ~ (text[d] = ":" /\ text[d + 1] = ":")
    BY <1>1, <1>12, <2>1, NoTwoColons, Zenon
  <2> QED
    BY <1>18, <1>19, <2>2
<1>22. d = m + 1
  <2> QED
    BY <1>11, <1>19, <1>20, <1>21
<1>23. ASSUME NEW k \in 1..n1 PROVE C(2 * k - 1) = k - 1
  <2>1. C(0 + 2 * k - 1) = 0 + k - 1
    BY <1>5, <1>15
  <2>2. 0 + 2 * k - 1 = 2 * k - 1 /\ 0 + k - 1 = k - 1
    OBVIOUS
  <2> QED
    BY <2>1, <2>2
<1>24. C(m) = b
  <2>1. CASE n1 = 0
    BY <1>3, <1>5, <2>1
  <2>2. CASE n1 # 0
    <3>1. n1 \in 1..n1
      BY <1>1, <2>2
    <3>2. C(2 * n1 - 1) = n1 - 1
      BY <1>23, <3>1
    <3> QED
      BY <1>3, <2>2, <3>2
  <2> QED
    BY <2>1, <2>2
<1>25. C(m + 2) = b + 2
  <2>1. C(m + 1) = C(m) + 1
    BY <1>4, <1>9, <1>11
  <2>2. C(m + 1 + 1) = C(m + 1) + 1
    <3>1. text[m + 1 + 1] = ":"
      BY <1>9, <1>17
    <3> QED
      BY <1>4, <1>11, <3>1
  <2>3. b + 1 + 1 = b + 2
    BY <1>11
  <2> QED
    BY <1>17, <1>24, <2>1, <2>2, <2>3
<1>26. ASSUME NEW k \in 1..n2 PROVE C(m + 2 + 2 * k - 1) = b + k + 1
  <2>1. C(m + 2 + 2 * k - 1) = b + 2 + k - 1
    BY <1>16, <1>25
  <2>2. b + 2 + k - 1 = b + k + 1
    BY <1>11
  <2> QED
    BY <2>1, <2>2
<1>27. C(Len(text)) = b + 1 + IF n2 = 0 THEN 1 ELSE n2
  <2>1. CASE n2 = 0
    <3>1. Len(text) = m + 2
      BY <1>7, <1>11, <2>1
    <3>2. b + 2 = b + 1 + 1
      BY <1>11
    <3> QED
      BY <1>25, <2>1, <3>1, <3>2
  <2>2. CASE n2 # 0
    <3>1. n2 \in 1..n2
      BY <1>1, <2>2
    <3>2. Len(text) = m + 2 + 2 * n2 - 1
      <4>1. \A x, y \in Nat : x + 2 + (2 * y - 1) = x + 2 + 2 * y - 1
        OBVIOUS
      <4> QED
        BY <1>1, <1>7, <1>11, <2>2, <4>1
    <3>3. C(m + 2 + 2 * n2 - 1) = b + n2 + 1
      BY <1>26, <3>1
    <3>4. b + n2 + 1 = b + 1 + n2
      BY <1>1, <1>11
    <3> QED
      BY <2>2, <3>2, <3>3, <3>4
  <2> QED
    BY <2>1, <2>2
<1> QED
  BY <1>22, <1>23, <1>26, <1>27 DEF GapPlaces, C, d, n1, n2, m, b

LEMMA GapSpelled ==
  ASSUME NEW l \in Literals, NEW text, IsGapText(l, text, FrontLen(l)), Len(l[1]) # 8
  PROVE  Regular(text) /\ SpellsAddress(text, LiteralAddress(l))
<1> DEFINE groups == LiteralAddress(l)
           n1 == Len(l[1])
           n2 == Len(l[2])
           m == FrontLen(l)
           b == FrontColons(l)
           C(i) == Colons(text, i)
           d == DoubleColon(text)
<1>1. n1 \in Nat /\ n2 \in Nat /\ n1 + n2 <= 7
  BY LiteralIs
<1>2. \A k \in 1..n1 : l[1][k] \in Word /\ Hex[l[1][k]] # None
  BY LiteralIs
<1>3. \A k \in 1..n2 : l[2][k] \in Word /\ Hex[l[2][k]] # None
  BY LiteralIs
<1>4. m = (IF n1 = 0 THEN 0 ELSE 2 * n1 - 1) /\ b = (IF n1 = 0 THEN 0 ELSE n1 - 1)
  BY DEF FrontLen, FrontColons
<1>5. text \in Text /\ DOMAIN text = 1..Len(text)
  BY DEF IsGapText, Text
<1>6. Len(text) = m + 2 + (IF n2 = 0 THEN 0 ELSE 2 * n2 - 1)
  BY DEF IsGapText
<1>7. (\A k \in 1..n1 : text[2 * k - 1] = l[1][k]) /\ (\A k \in 1..n1 - 1 : text[2 * k] = ":")
  BY DEF IsGapText
<1>8. text[m + 1] = ":" /\ text[m + 2] = ":"
  BY DEF IsGapText
<1>9. /\ \A k \in 1..n2 : text[m + 2 + 2 * k - 1] = l[2][k]
      /\ \A k \in 1..n2 - 1 : text[m + 2 + 2 * k] = ":"
  BY DEF IsGapText
<1>10. GapPlaces(l, text, m, b)
  BY GapColons
<1>11. d = m + 1
  BY <1>10 DEF GapPlaces
<1>12. \A k \in 1..n1 : C(2 * k - 1) = k - 1
  BY <1>10 DEF GapPlaces
<1>13. \A k \in 1..n2 : C(m + 2 + 2 * k - 1) = b + k + 1
  BY <1>10 DEF GapPlaces
<1>14. C(Len(text)) = b + 1 + (IF n2 = 0 THEN 1 ELSE n2)
  BY <1>10 DEF GapPlaces
<1>15. GroupsAre(l, groups)
  BY LiteralAddressIs
<1> HIDE DEF groups
<1>16. Len(groups) = 8 /\ \A k \in 1..n1 : Hex[l[1][k]] = {groups[k]}
  BY <1>15 DEF GroupsAre
<1>17. \A g \in n1 + 1..8 - n2 : groups[g] = Zero
  BY <1>15 DEF GroupsAre
<1>18. \A k \in 1..n2 : Hex[l[2][k]] = {groups[8 - n2 + k]}
  BY <1>15 DEF GroupsAre
<1>19. \A i : GroupAt(text, i) = IF d \in 1..i THEN 8 - (C(Len(text)) - C(i)) ELSE 1 + C(i)
  BY DEF GroupAt
<1> HIDE DEF n1, n2, m, b, C, d
<1>20. m \in Nat /\ b \in Nat /\ Len(text) \in Nat
  BY <1>1, <1>4, <1>5 DEF Text
<1>21. ASSUME NEW i \in 1..Len(text)
       PROVE  \/ text[i] = ":" \/ \E k \in 1..n1 : i = 2 * k - 1
              \/ \E k \in 1..n2 : i = m + 2 + 2 * k - 1
  <2>1. CASE i <= m
    <3>1. i \in 0 + 1..0 + 2 * n1 - 1 /\ 0 \in Nat
      BY <1>1, <1>4, <1>20, <2>1
    <3>2. (\E k \in 1..n1 : i = 0 + 2 * k - 1) \/ (\E k \in 1..n1 - 1 : i = 0 + 2 * k)
      BY <1>1, <3>1, OddOrEven, Zenon
    <3>3. (\E k \in 1..n1 : i = 2 * k - 1) \/ (\E k \in 1..n1 - 1 : i = 2 * k)
      BY <1>1, <3>2
    <3> QED
      BY <1>7, <3>3, Zenon
  <2>2. CASE i = m + 1 \/ i = m + 2
    BY <1>8, <2>2
  <2>3. CASE i > m + 2
    <3>1. i \in m + 2 + 1..m + 2 + 2 * n2 - 1 /\ m + 2 \in Nat
      <4>1. \A p, q \in Nat : p + 2 + (2 * q - 1) = p + 2 + 2 * q - 1 /\ p + 2 \in Nat
        OBVIOUS
      <4>2. n2 # 0
        BY <1>6, <1>20, <2>3
      <4>3. Len(text) = m + 2 + 2 * n2 - 1
        BY <1>1, <1>6, <1>20, <4>1, <4>2
      <4> QED
        BY <1>1, <1>20, <2>3, <4>3
    <3>2. (\E k \in 1..n2 : i = m + 2 + 2 * k - 1) \/ (\E k \in 1..n2 - 1 : i = m + 2 + 2 * k)
      BY <1>1, <3>1, OddOrEven, Zenon
    <3> QED
      BY <1>9, <3>2, Zenon
  <2> QED
    BY <1>20, <2>1, <2>2, <2>3
<1>22. ASSUME NEW k \in 1..n1
       PROVE  /\ text[2 * k - 1] \in Word /\ Hex[text[2 * k - 1]] # None
              /\ 2 * k - 1 \in 1..Len(text) /\ k \in 1..8
              /\ GroupAt(text, 2 * k - 1) = k /\ Hex[text[2 * k - 1]] = {groups[k]}
  <2>1. text[2 * k - 1] = l[1][k]
    BY <1>7
  <2>2. C(2 * k - 1) = k - 1
    BY <1>12
  <2>3. k \in 1..8 /\ 2 * k - 1 <= m
    BY <1>1, <1>4
  <2>4. 2 * k - 1 \in 1..Len(text)
    BY <1>1, <1>6, <1>20, <2>3
  <2>5. d \notin 1..2 * k - 1
    BY <1>11, <1>20, <2>3
  <2>6. GroupAt(text, 2 * k - 1) = 1 + C(2 * k - 1)
    BY <1>19, <2>5
  <2>7. GroupAt(text, 2 * k - 1) = k
    BY <2>2, <2>6
  <2>8. l[1][k] \in Word /\ Hex[l[1][k]] # None /\ Hex[l[1][k]] = {groups[k]}
    BY <1>2, <1>16
  <2> QED
    BY <2>1, <2>3, <2>4, <2>7, <2>8
<1>23. ASSUME NEW k \in 1..n2
       PROVE  /\ text[m + 2 + 2 * k - 1] \in Word /\ Hex[text[m + 2 + 2 * k - 1]] # None
              /\ m + 2 + 2 * k - 1 \in 1..Len(text) /\ 8 - n2 + k \in 1..8
              /\ GroupAt(text, m + 2 + 2 * k - 1) = 8 - n2 + k
              /\ Hex[text[m + 2 + 2 * k - 1]] = {groups[8 - n2 + k]}
  <2> DEFINE i == m + 2 + 2 * k - 1
  <2>1. text[i] = l[2][k]
    BY <1>9
  <2>2. C(i) = b + k + 1
    BY <1>13
  <2>3. i \in Nat /\ 1 <= i /\ m + 1 <= i /\ i <= m + 2 + (2 * n2 - 1)
    BY <1>1, <1>20
  <2>4. i \in 1..Len(text)
    BY <1>1, <1>6, <1>20, <2>3
  <2> HIDE DEF i
  <2>5. d \in 1..i
    BY <1>11, <1>20, <2>3
  <2>6. GroupAt(text, i) = 8 - (C(Len(text)) - C(i))
    BY <1>19, <2>5
  <2>7. C(Len(text)) = b + 1 + n2
    BY <1>1, <1>14
  <2>8. 8 - ((b + 1 + n2) - (b + k + 1)) = 8 - n2 + k /\ 8 - n2 + k \in 1..8
    BY <1>1, <1>20
  <2>9. GroupAt(text, i) = 8 - n2 + k
    <3>1. GroupAt(text, i) = 8 - ((b + 1 + n2) - (b + k + 1))
      BY <2>2, <2>6, <2>7, Zenon
    <3> QED
      BY <2>8, <3>1
  <2>10. l[2][k] \in Word /\ Hex[l[2][k]] # None /\ Hex[l[2][k]] = {groups[8 - n2 + k]}
    BY <1>3, <1>18
  <2> QED
    BY <2>1, <2>4, <2>8, <2>9, <2>10 DEF i
<1>24. ASSUME NEW i \in 1..Len(text)
       PROVE  \/ text[i] = ":"
              \/ /\ text[i] \in Word /\ Hex[text[i]] # None /\ GroupAt(text, i) \in 1..8
                 /\ Hex[text[i]] = {groups[GroupAt(text, i)]}
  <2>1. ASSUME NEW k \in 1..n1, i = 2 * k - 1
        PROVE  /\ text[i] \in Word /\ Hex[text[i]] # None /\ GroupAt(text, i) \in 1..8
               /\ Hex[text[i]] = {groups[GroupAt(text, i)]}
    BY <1>22, <2>1, Zenon
  <2>2. ASSUME NEW k \in 1..n2, i = m + 2 + 2 * k - 1
        PROVE  /\ text[i] \in Word /\ Hex[text[i]] # None /\ GroupAt(text, i) \in 1..8
               /\ Hex[text[i]] = {groups[GroupAt(text, i)]}
    BY <1>23, <2>2, Zenon
  <2> QED
    BY <1>21, <2>1, <2>2, Zenon
<1>25. Regular(text)
  <2>1. \A i \in 1..Len(text) : HexOrColon(text, i)
    BY <1>24, Zenon DEF HexOrColon
  <2>2. C(Len(text)) <= 8
    BY <1>1, <1>4, <1>14, <1>20
  <2>3. d # 0
    BY <1>11, <1>20
  <2> QED
    BY <2>1, <2>2, <2>3 DEF Regular, C, d
<1>26. ASSUME NEW g \in 1..8
       PROVE  groups[g] = Zero \/ \E i \in 1..Len(text) : text[i] \in Word /\ GroupAt(text, i) = g
  <2>1. CASE g \in 1..n1
    BY <1>22, <2>1, Zenon
  <2>2. CASE g \in n1 + 1..8 - n2
    BY <1>17, <2>2
  <2>3. CASE g > 8 - n2
    <3> DEFINE k == g - (8 - n2)
    <3>1. k \in 1..n2 /\ 8 - n2 + k = g
      BY <1>1, <2>3
    <3> HIDE DEF k
    <3> QED
      BY <1>23, <3>1, Zenon
  <2> QED
    BY <1>1, <2>1, <2>2, <2>3
<1>27. SpellsAddress(text, groups)
  <2>1. \A i \in DOMAIN text :
          \/ text[i] = ":"
          \/ /\ text[i] \in Word /\ GroupAt(text, i) \in 1..8
             /\ Hex[text[i]] = {groups[GroupAt(text, i)]}
    BY <1>5, <1>24
  <2>2. \A g \in 1..8 :
          groups[g] = Zero \/ \E i \in DOMAIN text : text[i] \in Word /\ GroupAt(text, i) = g
    BY <1>5, <1>26
  <2>3. Len(groups) = 8
    BY <1>16
  <2> QED
    BY <2>1, <2>2, <2>3 DEF SpellsAddress
<1> QED
  BY <1>25, <1>27 DEF groups

\* What the text is, and that it is read as the address that it is meant to be.
LiteralGood(l, text) ==
  /\ text \in Text /\ text # <<>>
  /\ \A i \in 1..Len(text) : text[i] \in Word \/ text[i] = ":"
  /\ FromStringV6(text) = {LiteralAddress(l)} /\ ~Spins(text)
  /\ Len(LiteralAddress(l)) = 8

LEMMA LiteralIsText ==
  ASSUME NEW l \in Literals
  PROVE  /\ LiteralText(l) \in Text /\ Len(LiteralText(l)) > 1
         /\ Regular(LiteralText(l)) /\ SpellsAddress(LiteralText(l), LiteralAddress(l))
<1> DEFINE text == LiteralText(l)
<1>1. CASE Len(l[1]) = 8
  <2>1. text \in Text /\ Len(text) = 15
    BY <1>1, FullText
  <2>2. Regular(text) /\ SpellsAddress(text, LiteralAddress(l))
    BY <1>1, FullSpelled
  <2> QED
    BY <2>1, <2>2
<1>2. CASE Len(l[1]) # 8
  <2>1. IsGapText(l, text, FrontLen(l))
    BY <1>2, GapText
  <2>2. Len(l[1]) \in Nat /\ Len(l[2]) \in Nat
    BY LiteralIs
  <2> HIDE DEF text
  <2>3. Regular(text) /\ SpellsAddress(text, LiteralAddress(l))
    BY <1>2, <2>1, GapSpelled
  <2>4. text \in Text /\ Len(text) = FrontLen(l) + 2 + IF Len(l[2]) = 0 THEN 0 ELSE 2 * Len(l[2]) - 1
    BY <2>1 DEF IsGapText
  <2>5. FrontLen(l) \in Nat
    BY <2>2 DEF FrontLen
  <2>6. Len(text) > 1
    BY <2>2, <2>4, <2>5
  <2> QED
    BY <2>3, <2>4, <2>6 DEF text
<1> QED
  BY <1>1, <1>2

LEMMA LiteralRead ==
  ASSUME NEW l \in Literals, Separated(LiteralText(l))
  PROVE  LiteralGood(l, LiteralText(l))
<1> DEFINE text == LiteralText(l)
<1>1. /\ text \in Text /\ Len(text) > 1
      /\ Regular(text) /\ SpellsAddress(text, LiteralAddress(l)) /\ Separated(text)
  BY LiteralIsText
<1> HIDE DEF text
<1>2. text # <<>>
  <2>1. Len(<<>>) = 0
    OBVIOUS
  <2> QED
    BY <1>1, <2>1
<1>3. GroupsAre(l, LiteralAddress(l))
  BY LiteralAddressIs
<1>4. LiteralAddress(l) \in Seq(GroupValue) /\ Len(LiteralAddress(l)) = 8
  BY <1>3 DEF GroupsAre
<1>5. /\ FromStringV6(text) # None /\ ~Spins(text)
      /\ \A groups \in FromStringV6(text) :
           \A other \in Seq(GroupValue) : SpellsAddress(text, other) => other = groups
  BY <1>1, <1>2, AddressesParsed, Zenon
<1>6. FromStringV6(text) = {LiteralAddress(l)}
  <2>1. \A groups \in FromStringV6(text) : groups = LiteralAddress(l)
    BY <1>1, <1>4, <1>5, Zenon
  <2> QED
    BY <1>5, <2>1 DEF None
<1>7. \A i \in 1..Len(text) : text[i] \in Word \/ text[i] = ":"
  BY <1>1, Zenon DEF Regular, HexOrColon
<1>8. LiteralGood(l, text)
  BY <1>1, <1>2, <1>4, <1>5, <1>6, <1>7 DEF LiteralGood
<1> QED
  BY <1>8 DEF text

-----------------------------------------------------------------------------
(* The forms of an argument, and how url_parser reads them.                 *)

\* What a part is, by its characters.
LEMMA PartIs ==
  ASSUME NEW text \in Text, NEW m \in 1..Len(text) + 1, NEW n \in m - 1..Len(text),
         NEW y \in Text, Len(y) = n - m + 1, \A i \in 1..Len(y) : y[i] = text[m + i - 1]
  PROVE  SubSeq(text, m, n) = y
<1> DEFINE w == SubSeq(text, m, n)
<1>1. w \in Text /\ Len(w) = n - m + 1 /\ \A i \in 1..n - m + 1 : w[i] = text[m + i - 1]
  BY Part
<1> HIDE DEF w
<1>2. Len(w) = Len(y) /\ \A i \in 1..Len(w) : w[i] = y[i]
  BY <1>1
<1>3. w = y
  BY <1>1, <1>2, SameText
<1> QED
  BY <1>3 DEF w

\* z is y behind x.
Joins(x, y, z) ==
  /\ z \in Text /\ Len(x) \in Nat /\ Len(y) \in Nat /\ Len(z) = Len(x) + Len(y)
  /\ \A i \in 1..Len(x) : z[i] = x[i]
  /\ \A j \in 1..Len(y) : z[Len(x) + j] = y[j]
  /\ SubSeq(z, 1, Len(x)) = x /\ From(z, Len(x) + 1) = y
  /\ Separated(z) => Separated(x) /\ Separated(y)

LEMMA Behead ==
  ASSUME NEW x \in Text, NEW y \in Text, NEW z, z = x \o y
  PROVE  Joins(x, y, z)
<1> DEFINE S == Word \union Delimiter
           a == Len(x)
           b == Len(y)
<1>1. x \in Seq(S) /\ y \in Seq(S)
  BY DEF Text
<1> HIDE DEF S
<1>2. a \in Nat /\ b \in Nat
  BY <1>1
<1>3. /\ z \in Seq(S) /\ Len(z) = a + b
      /\ \A i \in 1..a : z[i] = x[i]
      /\ \A j \in 1..b : z[a + j] = y[j]
  BY <1>1, JoinedIs
<1>4. z \in Text
  BY <1>3 DEF S, Text
<1> HIDE DEF a, b
<1>5. SubSeq(z, 1, a) = x /\ (Separated(z) => Separated(x))
  <2>1. 1 \in 1..Len(z) + 1 /\ a \in 1 - 1..Len(z) /\ a - 1 + 1 = a /\ \A i \in 1..a : 1 + i - 1 = i
    BY <1>2, <1>3
  <2> DEFINE w == SubSeq(z, 1, a)
  <2>2. /\ w \in Text /\ Len(w) = a - 1 + 1
        /\ \A i \in 1..a - 1 + 1 : w[i] = z[1 + i - 1]
        /\ Separated(z) => Separated(w)
    BY <1>4, <2>1, Part
  <2> HIDE DEF w
  <2>3. Len(w) = Len(x) /\ \A i \in 1..Len(w) : w[i] = x[i]
    BY <1>3, <2>1, <2>2 DEF a
  <2>4. w = x
    BY <2>2, <2>3, SameText
  <2> QED
    BY <2>2, <2>4 DEF w
<1>6. From(z, a + 1) = y /\ (Separated(z) => Separated(y))
  <2> DEFINE q == a + 1
             r == Len(z)
             w == SubSeq(z, q, r)
  <2>1. q \in 1..Len(z) + 1 /\ r \in q - 1..Len(z) /\ r - q + 1 = b
        /\ \A i \in 1..b : q + i - 1 = a + i
    BY <1>2, <1>3
  <2>2. w = From(z, a + 1)
    BY DEF From
  <2> HIDE DEF q, r
  <2>3. /\ w \in Text /\ Len(w) = r - q + 1
        /\ \A i \in 1..r - q + 1 : w[i] = z[q + i - 1]
        /\ Separated(z) => Separated(w)
    BY <1>4, <2>1, Part
  <2> HIDE DEF w
  <2>4. Len(w) = Len(y) /\ \A i \in 1..Len(w) : w[i] = y[i]
    <3>1. Len(w) = b /\ Len(y) = b
      BY <2>1, <2>3 DEF b
    <3>2. \A i \in 1..b : w[i] = z[a + i] /\ z[a + i] = y[i]
      BY <1>3, <2>1, <2>3
    <3> QED
      BY <3>1, <3>2
  <2>5. w = y
    <3>1. w \in Text /\ y \in Text
      BY <2>3
    <3> QED
      BY <2>4, <3>1, SameText
  <2>6. Separated(z) => Separated(y)
    BY <2>3, <2>5
  <2> QED
    BY <2>2, <2>5, <2>6
<1> QED
  BY <1>2, <1>3, <1>4, <1>5, <1>6 DEF a, b, Joins

\* One character of a text.
LEMMA OneOf ==
  ASSUME NEW text \in Text, NEW i \in 1..Len(text)
  PROVE  SubSeq(text, i, i) = <<text[i]>>
<1> DEFINE x == SubSeq(text, i, i)
           y == <<text[i]>>
<1>1. Len(text) \in Nat /\ text[i] \in Word \union Delimiter
  BY DEF Text
<1>2. y \in Text /\ Len(y) = 1 /\ y[1] = text[i]
  BY <1>1 DEF Text
<1>3. i \in 1..Len(text) + 1 /\ i \in i - 1..Len(text) /\ i - i + 1 = 1 /\ i + 1 - 1 = i
  BY <1>1
<1>4. x \in Text /\ Len(x) = i - i + 1 /\ \A j \in 1..i - i + 1 : x[j] = text[i + j - 1]
  BY <1>3, Part
<1> HIDE DEF x, y
<1>5. \A j \in 1..Len(x) : x[j] = y[j]
  BY <1>2, <1>3, <1>4
<1>6. x = y
  BY <1>2, <1>3, <1>4, <1>5, SameText
<1> QED
  BY <1>6 DEF x, y

\* Where a search finds something first, and that it finds nothing.
LEMMA FindAt ==
  ASSUME NEW text \in Text, NEW c, NEW x \in Nat \ {0}, NEW i \in x..Len(text), text[i] = c,
         \A j \in x..i - 1 : text[j] # c
  PROVE  Find(text, c, x) = i
<1> DEFINE f == Find(text, c, x)
<1>1. Len(text) \in Nat
  BY DEF Text
<1>2. f # 0 /\ f \in x..Len(text) /\ text[f] = c /\ \A j \in x..f - 1 : text[j] # c
  <2>1. f = 0 => \A j \in x..Len(text) : text[j] # c
    BY FindIs
  <2>2. f # 0
    BY <2>1
  <2> QED
    BY <2>2, FindIs
<1> HIDE DEF f
<1>3. ~ (f < i)
  BY <1>1, <1>2
<1>4. ~ (i < f)
  BY <1>1, <1>2
<1> QED
  BY <1>1, <1>2, <1>3, <1>4 DEF f

LEMMA FindNot ==
  ASSUME NEW text \in Text, NEW c, NEW x \in Nat \ {0}, \A j \in x..Len(text) : text[j] # c
  PROVE  Find(text, c, x) = 0
<1>1. Find(text, c, x) # 0 => Find(text, c, x) \in x..Len(text) /\ text[Find(text, c, x)] = c
  BY FindIs
<1> QED
  BY <1>1, Zenon

\* The words of the usage text.
LEMMA UsageWords ==
  /\ \A w \in Name : w \in Word /\ Quad[w] = None
  /\ \A w \in Address4 : w \in Word /\ Quad[w] # None
  /\ \A w \in PortNumber : w \in Word /\ Dec[w] = {The(Dec[w])} /\ The(Dec[w]) <= MaxUint16
<1>1. \A w \in PortNumber : w \in Word /\ Dec[w] # None /\ The(Dec[w]) <= MaxUint16
  BY UsageAssumption
<1>2. ASSUME NEW w \in Word, Dec[w] # None PROVE Dec[w] = {The(Dec[w])}
  <2>1. AtMostOne(Dec[w])
    BY AddressAssumption
  <2>2. The(Dec[w]) \in Dec[w]
    BY <1>2 DEF The, None
  <2> QED
    BY <2>1, <2>2 DEF AtMostOne
<1>3. (\A w \in Name : w \in Word /\ Quad[w] = None) /\ (\A w \in Address4 : w \in Word /\ Quad[w] # None)
  BY UsageAssumption
<1>4. \A w \in PortNumber : w \in Word /\ Dec[w] = {The(Dec[w])} /\ The(Dec[w]) <= MaxUint16
  BY <1>1, <1>2, Zenon
<1> QED
  BY <1>3, <1>4

\* The port.
LEMMA PortRead ==
  ASSUME NEW p \in PortNumber
  PROVE  PortAndPath[<<":", p>>] = [result |-> "ok", port |-> {The(Dec[p])}, path |-> <<>>]
<1> DEFINE text == <<":", p>>
<1>1. p \in Word /\ Dec[p] = {The(Dec[p])} /\ The(Dec[p]) <= MaxUint16
  BY UsageWords
<1>2. ":" \in Delimiter /\ p \notin Delimiter
  BY <1>1, Kinds
<1>3. text \in Text /\ Len(text) = 2 /\ text[1] = ":" /\ text[2] = p /\ text # <<>>
  BY <1>1, <1>2 DEF Text
<1>4. SubSeq(text, 2, 2) = <<p>> /\ From(text, 3) = <<>>
  <2>1. SubSeq(text, 2, 2) = <<p>>
    <3> HIDE DEF text
    <3>1. 2 \in 1..Len(text)
      BY <1>3
    <3> QED
      BY <1>3, <3>1, OneOf
  <2>2. SubSeq(text, 3, 2) = <<>>
    OBVIOUS
  <2>3. From(text, 3) = SubSeq(text, 3, Len(text))
    BY DEF From
  <2> HIDE DEF text
  <2>4. From(text, 3) = <<>>
    BY <1>3, <2>2, <2>3
  <2> QED
    BY <2>1, <2>4
<1> HIDE DEF text
<1>5. PathStart(text) = 3
  <2>1. p # "/" /\ ":" # "/"
    BY <1>2 DEF Delimiter
  <2>2. \A j \in 1..Len(text) : text[j] # "/"
    BY <1>3, <2>1
  <2>3. Find(text, "/", 1) = 0
    BY <1>3, <2>2, FindNot
  <2> QED
    BY <1>3, <2>3 DEF PathStart
<1>6. Port(text) = {n \in Number(<<p>>) : n <= MaxUint16}
  <2>1. SubSeq(text, 2, PathStart(text) - 1) = <<p>>
    <3>1. 3 - 1 = 2
      OBVIOUS
    <3> QED
      BY <1>4, <1>5, <3>1, Zenon
  <2> QED
    BY <2>1, Zenon DEF Port
<1>7. Number(<<p>>) = Dec[p]
  BY <1>1 DEF Number
<1>8. Port(text) = {The(Dec[p])}
  BY <1>1, <1>6, <1>7
<1>9. StartsWith(text, ":")
  BY <1>3 DEF StartsWith
<1>10. PortAndPath[text] =
         IF StartsWith(text, ":")
         THEN [result |-> IF Port(text) = None THEN "bad" ELSE "ok",
               port |-> Port(text), path |-> From(text, PathStart(text))]
         ELSE [result |-> "ok", port |-> None, path |-> text]
  BY <1>3 DEF PortAndPath
<1>11. PortAndPath[text] = [result |-> "ok", port |-> {The(Dec[p])}, path |-> <<>>]
  BY <1>4, <1>5, <1>8, <1>9, <1>10 DEF None
<1> QED
  BY <1>11 DEF text

\* A text of a host of n characters, a colon and a port.
HostReads(text, n, h, p) ==
  /\ text \in Text /\ n \in Nat \ {0} /\ Len(text) = n + 2
  /\ \A i \in 1..n : text[i] # "@" /\ text[i] # "/"
  /\ text[n + 1] = ":" /\ text[n + 2] = p
  /\ ParseHost[text] = HostIs(h, n)

LEMMA PlainRead ==
  ASSUME NEW w \in Name \union Address4, NEW p \in PortNumber
  PROVE  HostReads(<<w, ":", p>>, 1,
                   IF w \in Address4 THEN Host("v4", The(Quad[w])) ELSE Host("name", <<w>>), p)
<1> DEFINE text == <<w, ":", p>>
<1>1. w \in Word /\ p \in Word /\ (w \in Address4 <=> Quad[w] # None)
  BY UsageWords
<1>2. ":" \in Delimiter /\ p \notin Delimiter /\ w \notin Delimiter
  BY <1>1, Kinds
<1>3. text \in Text /\ Len(text) = 3 /\ text[1] = w /\ text[2] = ":" /\ text[3] = p
  BY <1>1, <1>2 DEF Text
<1> HIDE DEF text
<1>4. SubSeq(text, 1, 1) = <<w>>
  <2>1. 1 \in 1..Len(text)
    BY <1>3
  <2> QED
    BY <1>3, <2>1, OneOf
<1>5. Find(text, ":", 1) = 2
  <2>1. w # ":"
    BY <1>2
  <2>2. 2 \in 1..Len(text) /\ \A j \in 1..2 - 1 : text[j] # ":"
    BY <1>3, <2>1
  <2> QED
    BY <1>3, <2>2, FindAt
<1>6. w # "@" /\ w # "/" /\ w # "["
  BY <1>2 DEF Delimiter
<1>7. ParseHost[text] = Plain(text)
  BY <1>3, <1>6 DEF ParseHost, StartsWith
<1>8. FromStringV4(<<w>>) = Quad[w]
  BY <1>1 DEF FromStringV4
<1>9. Plain(text) = IF Quad[w] # None THEN HostIs(Host("v4", The(Quad[w])), 1)
                    ELSE HostIs(Host("name", <<w>>), 1)
  <2>1. Find(text, ":", 1) # 0 /\ Find(text, ":", 1) - 1 = 1
    BY <1>5
  <2>2. <<w>> # <<>>
    OBVIOUS
  <2> QED
    BY <1>4, <1>8, <2>1, <2>2, Zenon DEF Plain
<1>10. \A i \in 1..1 : text[i] # "@" /\ text[i] # "/"
  BY <1>3, <1>6
<1>11. HostReads(text, 1, IF w \in Address4 THEN Host("v4", The(Quad[w])) ELSE Host("name", <<w>>), p)
  BY <1>1, <1>3, <1>7, <1>9, <1>10 DEF HostReads
<1> QED
  BY <1>11 DEF text

LEMMA BracketRead ==
  ASSUME NEW l \in Literals, NEW p \in PortNumber, NEW text,
         text = <<"[">> \o LiteralText(l) \o <<"]", ":", p>>, Separated(text)
  PROVE  \E n : HostReads(text, n, Host("v6", LiteralAddress(l)), p)
<1> DEFINE lit == LiteralText(l)
           first == <<"[">>
           last == <<"]", ":", p>>
           front == first \o lit
           m == Len(lit)
<1>1. p \in Word /\ p \notin Delimiter
  BY UsageWords, Kinds
<1>2. first \in Text /\ Len(first) = 1 /\ first[1] = "["
  BY DEF Text, Delimiter
<1>3. last \in Text /\ Len(last) = 3 /\ last[1] = "]" /\ last[2] = ":" /\ last[3] = p
  BY <1>1 DEF Text, Delimiter
<1>4. lit \in Text /\ m \in Nat
  BY LiteralIsText DEF Text
<1>5. text = front \o last
  OBVIOUS
<1> HIDE DEF first, last, lit
<1>6. /\ front \in Text /\ Len(front) = 1 + m /\ front[1] = "["
      /\ \A j \in 1..m : front[1 + j] = lit[j]
      /\ Separated(front) => Separated(lit)
  <2>1. /\ front \in Text /\ Len(front) = Len(first) + Len(lit)
        /\ \A i \in 1..Len(first) : front[i] = first[i]
        /\ \A j \in 1..Len(lit) : front[Len(first) + j] = lit[j]
        /\ Separated(front) => Separated(lit)
    <3>1. front = first \o lit
      OBVIOUS
    <3>2. first \in Text /\ lit \in Text
      BY <1>2, <1>4
    <3> HIDE DEF front
    <3>3. Joins(first, lit, front)
      BY <3>1, <3>2, Behead
    <3> QED
      BY <3>3, Zenon DEF Joins
  <2> HIDE DEF front
  <2>2. 1 \in 1..1
    OBVIOUS
  <2>3. front[1] = "["
    BY <1>2, <2>1, <2>2
  <2> QED
    BY <1>2, <2>1, <2>3
<1> HIDE DEF front
<1>7. /\ text \in Text /\ Len(text) = Len(front) + 3
      /\ \A i \in 1..Len(front) : text[i] = front[i]
      /\ \A j \in 1..3 : text[Len(front) + j] = last[j]
      /\ Separated(front)
  <2>1. /\ text \in Text /\ Len(text) = Len(front) + Len(last)
        /\ \A i \in 1..Len(front) : text[i] = front[i]
        /\ \A j \in 1..Len(last) : text[Len(front) + j] = last[j]
        /\ Separated(text) => Separated(front)
    <3>1. front \in Text /\ last \in Text
      BY <1>3, <1>6
    <3>2. Joins(front, last, text)
      BY <1>5, <3>1, Behead
    <3> QED
      BY <3>2, Zenon DEF Joins
  <2> QED
    BY <1>3, <2>1
<1>8. /\ Len(text) = m + 4 /\ text[1] = "[" /\ text[m + 2] = "]" /\ text[m + 3] = ":" /\ text[m + 4] = p
      /\ \A j \in 1..m : text[1 + j] = lit[j]
  <2>1. Len(front) + 3 = m + 4 /\ 1 \in 1..Len(front) /\ \A j \in 1..m : 1 + j \in 1..Len(front)
    BY <1>4, <1>6
  <2>2. text[Len(front) + 1] = "]" /\ text[Len(front) + 2] = ":" /\ text[Len(front) + 3] = p
    BY <1>3, <1>7
  <2>3. Len(front) + 1 = m + 2 /\ Len(front) + 2 = m + 3 /\ Len(front) + 3 = m + 4
    BY <1>4, <1>6
  <2>4. \A j \in 1..m : text[1 + j] = lit[j]
    BY <1>6, <1>7, <2>1
  <2> QED
    BY <1>6, <1>7, <2>1, <2>2, <2>3, <2>4
<1>9. LiteralGood(l, lit)
  BY <1>6, <1>7, LiteralRead DEF lit
<1>10. \A j \in 1..m : lit[j] \in Word \/ lit[j] = ":"
  BY <1>9 DEF LiteralGood
<1>11. \A j \in 1..m : lit[j] # "]" /\ lit[j] # "@" /\ lit[j] # "/"
  <2>1. \A c : c \in Word \/ c = ":" => c # "]" /\ c # "@" /\ c # "/"
    BY Kinds DEF Delimiter
  <2> QED
    BY <1>10, <2>1, Zenon
<1>12. ASSUME NEW j \in 2..m + 1 PROVE text[j] # "]" /\ text[j] # "@" /\ text[j] # "/"
  <2> DEFINE i == j - 1
  <2>1. i \in 1..m /\ 1 + i = j
    BY <1>4
  <2> HIDE DEF i
  <2> QED
    BY <1>8, <1>11, <2>1
<1>13. Find(text, "]", 2) = m + 2
  <2> DEFINE q == m + 2
  <2>1. q \in 2..Len(text) /\ q - 1 = m + 1 /\ 2 \in Nat \ {0}
    BY <1>4, <1>8
  <2>2. text[q] = "]" /\ \A j \in 2..q - 1 : text[j] # "]"
    BY <1>8, <1>12, <2>1
  <2> HIDE DEF q
  <2>3. text \in Text /\ q \in 2..Len(text) /\ 2 \in Nat \ {0}
    BY <1>7, <2>1
  <2>4. Find(text, "]", 2) = q
    BY <2>2, <2>3, FindAt, ZenonT(40)
  <2> QED
    BY <2>4 DEF q
<1>14. SubSeq(text, 2, (m + 2) - 1) = lit
  <2> DEFINE r == (m + 2) - 1
  <2>1. 2 \in 1..Len(text) + 1 /\ r \in 2 - 1..Len(text) /\ r - 2 + 1 = m
        /\ \A i \in 1..m : 2 + i - 1 = 1 + i
    BY <1>4, <1>8
  <2> HIDE DEF r
  <2>2. \A i \in 1..m : lit[i] = text[2 + i - 1]
    BY <1>8, <2>1
  <2>3. SubSeq(text, 2, r) = lit
    BY <1>4, <1>7, <2>1, <2>2, PartIs
  <2> QED
    BY <2>3 DEF r
<1>15. GoesOn(From(text, m + 2 + 1))
  <2> DEFINE q == m + 2 + 1
             r == Len(text)
             w == SubSeq(text, q, r)
  <2>1. q \in 1..Len(text) + 1 /\ r \in q - 1..Len(text) /\ r - q + 1 = 2 /\ q + 1 - 1 = m + 3
    BY <1>4, <1>8
  <2>2. w = From(text, m + 2 + 1)
    BY DEF From
  <2> HIDE DEF q, r
  <2>3. w \in Text /\ Len(w) = r - q + 1 /\ \A i \in 1..r - q + 1 : w[i] = text[q + i - 1]
    BY <1>7, <2>1, Part
  <2> HIDE DEF w
  <2>4. Len(w) = 2 /\ w[1] = ":"
    <3>1. 1 \in 1..r - q + 1 /\ text[m + 3] = ":" /\ Len(w) = 2
      BY <1>8, <2>1, <2>3
    <3>2. w[1] = text[q + 1 - 1]
      BY <2>3, <3>1, Zenon
    <3> QED
      BY <2>1, <3>1, <3>2
  <2>5. Find(w, ":", 1) = 1
    <3>1. 1 \in 1..Len(w) /\ \A j \in 1..1 - 1 : w[j] # ":"
      BY <2>4
    <3> QED
      BY <2>3, <2>4, <3>1, FindAt
  <2>6. GoesOn(w)
    BY <2>5 DEF GoesOn
  <2> QED
    BY <2>2, <2>6
<1>16. FromStringV6(lit) = {LiteralAddress(l)} /\ ~Spins(lit)
  BY <1>9 DEF LiteralGood
<1>17. ParseHost[text] = HostIs(Host("v6", LiteralAddress(l)), m + 2)
  <2>1. StartsWith(text, "[")
    <3>1. text # <<>>
      BY <1>4, <1>7, <1>8
    <3> QED
      BY <1>8, <3>1 DEF StartsWith
  <2>2. ParseHost[text] = Bracketed(text)
    BY <1>7, <2>1 DEF ParseHost
  <2>3. m + 2 # 0
    BY <1>4
  <2>4. The({LiteralAddress(l)}) = LiteralAddress(l) /\ {LiteralAddress(l)} # None
    BY DEF The, None
  <2>5. Bracketed(text) = CASE m + 2 = 0 -> HostFails("bad")
                            [] m + 2 # 0 /\ Spins(lit) -> HostFails("spins")
                            [] m + 2 # 0 /\ ~Spins(lit) ->
                                 IF FromStringV6(lit) # None /\ GoesOn(From(text, m + 2 + 1))
                                 THEN HostIs(Host("v6", The(FromStringV6(lit))), m + 2)
                                 ELSE HostFails("bad")
    <3> DEFINE q == m + 2
    <3>1. Find(text, "]", 2) = q /\ SubSeq(text, 2, q - 1) = lit
      BY <1>13, <1>14, Zenon
    <3> HIDE DEF q, m
    <3>2. Bracketed(text) = CASE q = 0 -> HostFails("bad")
                              [] q # 0 /\ Spins(lit) -> HostFails("spins")
                              [] q # 0 /\ ~Spins(lit) ->
                                   IF FromStringV6(lit) # None /\ GoesOn(From(text, q + 1))
                                   THEN HostIs(Host("v6", The(FromStringV6(lit))), q)
                                   ELSE HostFails("bad")
      BY <3>1 DEF Bracketed
    <3> QED
      BY <3>2 DEF q
  <2> HIDE DEF m
  <2> QED
    BY <1>15, <1>16, <2>2, <2>3, <2>4, <2>5
<1>18. \A i \in 1..m + 2 : text[i] # "@" /\ text[i] # "/"
  <2> SUFFICES ASSUME NEW i \in 1..m + 2 PROVE text[i] # "@" /\ text[i] # "/"
    OBVIOUS
  <2>1. CASE i = 1 \/ i = m + 2
    <3>1. text[1] = "[" /\ text[m + 2] = "]"
      BY <1>8
    <3>2. text[i] = "[" \/ text[i] = "]"
      BY <2>1, <3>1, Zenon
    <3> QED
      BY <3>2
  <2>2. CASE i \in 2..m + 1
    BY <1>12, <2>2
  <2>3. i = 1 \/ i = m + 2 \/ i \in 2..m + 1
    BY <1>4
  <2> QED
    BY <2>1, <2>2, <2>3, Zenon
<1>19. HostReads(text, m + 2, Host("v6", LiteralAddress(l)), p)
  <2>1. m + 2 \in Nat \ {0} /\ m + 2 + 2 = m + 4 /\ m + 2 + 1 = m + 3
    BY <1>4
  <2> QED
    BY <1>7, <1>8, <1>17, <1>18, <2>1 DEF HostReads
<1> QED
  BY <1>19

\* A host and a port alone, and with credentials in front of them.
LEMMA HostUrl ==
  ASSUME NEW p \in PortNumber, NEW text, NEW n, NEW h, HostReads(text, n, h, p)
  PROVE  /\ Behind[text] = Url("ok", None, None, None, h, {The(Dec[p])}, <<>>)
         /\ FindScheme(text) = 0
<1>1. /\ text \in Text /\ n \in Nat \ {0} /\ Len(text) = n + 2
      /\ text[n + 1] = ":" /\ text[n + 2] = p
      /\ ParseHost[text] = HostIs(h, n)
  BY DEF HostReads
<1>2. \A i \in 1..Len(text) : text[i] # "@" /\ text[i] # "/"
  <2> SUFFICES ASSUME NEW i \in 1..Len(text) PROVE text[i] # "@" /\ text[i] # "/"
    OBVIOUS
  <2>1. p # "@" /\ p # "/"
    BY UsageWords, Kinds DEF Delimiter
  <2>2. CASE i \in 1..n
    BY <2>2 DEF HostReads
  <2> QED
    BY <1>1, <2>1, <2>2
<1>3. Find(text, "@", 1) = 0
  BY <1>1, <1>2, FindNot
<1>4. From(text, 0 + 1) = text
  <2>1. From(text, 0 + 1) = SubSeq(text, 1, Len(text))
    BY DEF From
  <2>2. SubSeq(text, 1, Len(text)) = text
    BY <1>1 DEF Text
  <2> QED
    BY <2>1, <2>2
<1>5. From(text, n + 1) = <<":", p>>
  <2> DEFINE q == n + 1
             r == Len(text)
             w == SubSeq(text, q, r)
             y == <<":", p>>
  <2>1. q \in 1..Len(text) + 1 /\ r \in q - 1..Len(text) /\ r - q + 1 = 2
        /\ q + 1 - 1 = n + 1 /\ q + 2 - 1 = n + 2
    BY <1>1
  <2>2. w = From(text, n + 1)
    BY DEF From
  <2> HIDE DEF q, r
  <2>3. w \in Text /\ Len(w) = r - q + 1 /\ \A i \in 1..r - q + 1 : w[i] = text[q + i - 1]
    BY <1>1, <2>1, Part
  <2>4. y \in Text /\ Len(y) = 2 /\ y[1] = ":" /\ y[2] = p
    <3>1. p \in Word
      BY UsageWords
    <3> QED
      BY <3>1 DEF Text, Delimiter
  <2> HIDE DEF w, y
  <2>5. \A i \in 1..Len(w) : w[i] = y[i]
    <3>1. \A i \in 1..2 : i = 1 \/ i = 2
      OBVIOUS
    <3>2. w[1] = text[n + 1] /\ w[2] = text[n + 2]
      BY <2>1, <2>3
    <3> QED
      BY <1>1, <2>1, <2>3, <2>4, <3>1, <3>2
  <2>6. w = y
    BY <2>1, <2>3, <2>4, <2>5, SameText
  <2> QED
    BY <2>2, <2>6 DEF y
<1>6. Behind[text] = Url("ok", None, None, None, h, {The(Dec[p])}, <<>>)
  <2> DEFINE a == Find(text, "@", 1)
             front == SubSeq(text, 1, a - 1)
             c == Find(front, ":", 1)
             x == ParseHost[From(text, a + 1)]
             y == PortAndPath[From(text, a + x.length + 1)]
  <2>1. Behind[text] = IF x.result # "ok" THEN NoUrl(x.result)
                       ELSE IF y.result # "ok" THEN NoUrl(y.result)
                       ELSE Url("ok", None,
                                IF a = 0 THEN None ELSE {IF c = 0 THEN front ELSE SubSeq(front, 1, c - 1)},
                                IF c = 0 THEN None ELSE {From(front, c + 1)},
                                x.host, y.port, y.path)
    BY <1>1 DEF Behind
  <2>2. a = 0
    BY <1>3
  <2>3. x = HostIs(h, n)
    BY <1>1, <1>4, <2>2, Zenon
  <2>4. c = 0
    <3>1. front = SubSeq(text, 1, 0 - 1)
      BY <2>2
    <3>2. SubSeq(text, 1, 0 - 1) = <<>>
      BY <1>1 DEF Text
    <3>3. front = <<>> /\ <<>> \in Text /\ Len(<<>>) = 0
      <4>1. front = <<>>
        BY <3>1, <3>2
      <4> HIDE DEF front
      <4> QED
        BY <4>1 DEF Text
    <3>4. \A j \in 1..Len(<<>>) : <<>>[j] # ":"
      BY <3>3
    <3>5. Find(<<>>, ":", 1) = 0
      BY <3>3, <3>4, FindNot
    <3> QED
      BY <3>3, <3>5
  <2> HIDE DEF a, front, c
  <2>5. x.result = "ok" /\ x.host = h /\ x.length = n
    <3> HIDE DEF x
    <3> QED
      BY <2>3 DEF HostIs
  <2>6. y = [result |-> "ok", port |-> {The(Dec[p])}, path |-> <<>>]
    <3>1. 0 + n + 1 = n + 1
      BY <1>1
    <3>2. y = PortAndPath[<<":", p>>]
      <4>1. y = PortAndPath[From(text, a + x.length + 1)]
        OBVIOUS
      <4> HIDE DEF x, y
      <4> QED
        BY <1>5, <2>2, <2>5, <3>1, <4>1
    <3> HIDE DEF x, y
    <3> QED
      BY <3>2, PortRead
  <2> HIDE DEF x, y
  <2> QED
    BY <2>1, <2>2, <2>4, <2>5, <2>6
<1>7. FindScheme(text) = 0
  <2> DEFINE s == FindScheme(text)
  <2>1. s \in Nat /\ (s # 0 => s \in 1..Len(text) - 2 /\ SubSeq(text, s, s + 2) = <<":", "/", "/">>)
    BY <1>1, SchemeIs
  <2> HIDE DEF s
  <2>2. ASSUME s # 0 PROVE FALSE
    <3>1. s \in 1..Len(text) + 1 /\ s + 2 \in s - 1..Len(text) /\ 2 \in 1..s + 2 - s + 1
          /\ s + 2 - 1 = s + 1 /\ s + 1 \in 1..Len(text)
      BY <1>1, <2>1, <2>2
    <3>2. SubSeq(text, s, s + 2)[2] = text[s + 2 - 1]
      BY <1>1, <3>1, Part
    <3>3. <<":", "/", "/">>[2] = "/"
      OBVIOUS
    <3> QED
      BY <1>2, <2>1, <2>2, <3>1, <3>2, <3>3
  <2> QED
    BY <2>2 DEF s
<1> QED
  BY <1>6, <1>7

\* The first place of something is known by what is there and before.
LEMMA FirstAt ==
  ASSUME NEW places \in SUBSET (Nat \ {0}), NEW i \in places, \A j \in places : i <= j
  PROVE  First(places) = i
<1>1. places # {} /\ places \in SUBSET Nat
  OBVIOUS
<1> DEFINE f == First(places)
<1>2. f \in places /\ \A j \in places : f <= j
  BY <1>1, FirstIsLeast
<1> HIDE DEF f
<1>3. f \in Nat /\ i \in Nat /\ f <= i /\ i <= f
  BY <1>1, <1>2
<1> QED
  BY <1>3 DEF f

LEMMA TypedUrl ==
  ASSUME NEW t \in Word, NEW rest \in Text, NEW text, text = <<t, ":", "/", "/">> \o rest
  PROVE  Parse[text] = [Behind[rest] EXCEPT !.scheme = {<<t>>}] /\ text \in Text
<1> DEFINE front == <<t, ":", "/", "/">>
           places == {i \in 1..Len(text) - 2 : SubSeq(text, i, i + 2) = <<":", "/", "/">>}
<1>1. /\ front \in Text /\ Len(front) = 4
      /\ front[1] = t /\ front[2] = ":" /\ front[3] = "/" /\ front[4] = "/"
  BY DEF Text, Delimiter
<1>2. t # ":"
  BY Kinds
<1>3. Joins(front, rest, text)
  <2> HIDE DEF front
  <2>1. front \in Text /\ text = front \o rest
    BY <1>1 DEF front
  <2> QED
    BY <2>1, Behead
<1> HIDE DEF front
<1>4. /\ text \in Text /\ Len(rest) \in Nat /\ Len(text) = 4 + Len(rest)
      /\ text[1] = t /\ text[2] = ":" /\ text[3] = "/" /\ text[4] = "/"
  <2>1. /\ text \in Text /\ Len(rest) \in Nat /\ Len(text) = Len(front) + Len(rest)
        /\ \A i \in 1..Len(front) : text[i] = front[i]
    BY <1>3, Zenon DEF Joins
  <2> QED
    BY <1>1, <2>1
<1>5. From(text, 5) = rest
  <2>1. From(text, Len(front) + 1) = rest
    BY <1>3, Zenon DEF Joins
  <2>2. Len(front) + 1 = 5
    BY <1>1
  <2> QED
    BY <2>1, <2>2
<1>6. SubSeq(text, 2, 4) = <<":", "/", "/">>
  <2> DEFINE y == <<":", "/", "/">>
  <2>1. y \in Text /\ Len(y) = 3 /\ y[1] = ":" /\ y[2] = "/" /\ y[3] = "/"
    BY DEF Text, Delimiter
  <2> HIDE DEF y
  <2>2. 2 \in 1..Len(text) + 1 /\ 4 \in 2 - 1..Len(text) /\ 4 - 2 + 1 = 3
    BY <1>4
  <2>3. \A i \in 1..Len(y) : y[i] = text[2 + i - 1]
    <3>1. \A i \in 1..Len(y) : i = 1 \/ i = 2 \/ i = 3
      BY <2>1
    <3>2. 2 + 1 - 1 = 2 /\ 2 + 2 - 1 = 3 /\ 2 + 3 - 1 = 4
      OBVIOUS
    <3> QED
      BY <1>4, <2>1, <3>1, <3>2
  <2>4. text \in Text /\ y \in Text /\ Len(y) = 4 - 2 + 1
    BY <1>4, <2>1, <2>2
  <2>5. SubSeq(text, 2, 4) = y
    BY <2>2, <2>3, <2>4, PartIs, ZenonT(40)
  <2> QED
    BY <2>5 DEF y
<1>7. SubSeq(text, 1, 3) # <<":", "/", "/">>
  <2>1. 1 \in 1..Len(text) + 1 /\ 3 \in 1 - 1..Len(text) /\ 1 \in 1..3 - 1 + 1 /\ 1 + 1 - 1 = 1
    BY <1>4
  <2>2. SubSeq(text, 1, 3)[1] = text[1 + 1 - 1]
    BY <1>4, <2>1, Part
  <2>3. <<":", "/", "/">>[1] = ":"
    OBVIOUS
  <2> QED
    BY <1>2, <1>4, <2>1, <2>2, <2>3
<1>8. FindScheme(text) = 2
  <2>1. places \in SUBSET (Nat \ {0})
    OBVIOUS
  <2>2. 2 \in places
    BY <1>4, <1>6
  <2>3. \A j \in places : 2 <= j
    <3> SUFFICES ASSUME NEW j \in places PROVE j # 1
      OBVIOUS
    <3>1. 1 \notin places
      BY <1>7
    <3> HIDE DEF places
    <3> QED
      BY <3>1
  <2>4. FindScheme(text) = First(places)
    BY DEF FindScheme
  <2> HIDE DEF places
  <2> QED
    BY <2>1, <2>2, <2>3, <2>4, FirstAt
<1>9. SubSeq(text, 1, 1) = <<t>>
  <2>1. 1 \in 1..Len(text)
    BY <1>4
  <2> QED
    BY <1>4, <2>1, OneOf
<1>10. Parse[text] = [Behind[From(text, 2 + 3)] EXCEPT !.scheme = {SubSeq(text, 1, 2 - 1)}]
  <2> DEFINE s == FindScheme(text)
  <2>1. Parse[text] = CASE s = 0 -> Behind[text]
                        [] s = 1 -> NoUrl("bad")
                        [] s > 1 -> [Behind[From(text, s + 3)] EXCEPT !.scheme = {SubSeq(text, 1, s - 1)}]
    BY <1>4 DEF Parse
  <2>2. s = 2
    BY <1>8
  <2> HIDE DEF s
  <2> QED
    BY <2>1, <2>2
<1>11. 2 + 3 = 5 /\ 2 - 1 = 1
  OBVIOUS
<1>12. Parse[text] = [Behind[rest] EXCEPT !.scheme = {<<t>>}]
  BY <1>5, <1>9, <1>10, <1>11
<1> QED
  BY <1>4, <1>12

LEMMA FindFourth ==
  ASSUME NEW text \in Text, NEW c, 4 \in 1..Len(text) /\ text[4] = c,
         \A j \in 1..4 - 1 : text[j] # c
  PROVE  Find(text, c, 1) = 4
<1> DEFINE q == 4
<1>1. q \in 1..Len(text) /\ text[q] = c /\ \A j \in 1..q - 1 : text[j] # c
  OBVIOUS
<1> HIDE DEF q
<1>2. Find(text, c, 1) = q
  BY <1>1, FindAt
<1> QED
  BY <1>2 DEF q

LEMMA CredsUrl ==
  ASSUME NEW u \in Name, NEW q \in Name, NEW p \in PortNumber, NEW rest, NEW n, NEW h,
         HostReads(rest, n, h, p), NEW text, text = <<u, ":", q, "@">> \o rest
  PROVE  Behind[text] = Url("ok", None, {<<u>>}, {<<q>>}, h, {The(Dec[p])}, <<>>) /\ text \in Text
<1> DEFINE front0 == <<u, ":", q, "@">>
<1>1. u \in Word /\ q \in Word /\ p \in Word
  BY UsageWords
<1>2. u # ":" /\ u # "@" /\ q # ":" /\ q # "@" /\ ":" # "@"
  BY <1>1, Kinds DEF Delimiter
<1>3. /\ front0 \in Text /\ Len(front0) = 4
      /\ front0[1] = u /\ front0[2] = ":" /\ front0[3] = q /\ front0[4] = "@"
  BY <1>1 DEF Text, Delimiter
<1>4. /\ rest \in Text /\ n \in Nat \ {0} /\ Len(rest) = n + 2
      /\ rest[n + 1] = ":" /\ rest[n + 2] = p
      /\ ParseHost[rest] = HostIs(h, n)
  BY DEF HostReads
<1>5. Joins(front0, rest, text)
  <2> HIDE DEF front0
  <2>1. front0 \in Text /\ text = front0 \o rest
    BY <1>3 DEF front0
  <2> QED
    BY <1>4, <2>1, Behead
<1> HIDE DEF front0
<1>6. /\ text \in Text /\ Len(text) = 4 + (n + 2)
      /\ text[1] = u /\ text[2] = ":" /\ text[3] = q /\ text[4] = "@"
      /\ \A j \in 1..n + 2 : text[4 + j] = rest[j]
  <2>1. /\ text \in Text /\ Len(text) = Len(front0) + Len(rest)
        /\ \A i \in 1..Len(front0) : text[i] = front0[i]
        /\ \A j \in 1..Len(rest) : text[Len(front0) + j] = rest[j]
    BY <1>5, Zenon DEF Joins
  <2> QED
    BY <1>3, <1>4, <2>1
<1>7. From(text, 4 + 1) = rest
  <2>1. From(text, Len(front0) + 1) = rest
    BY <1>5, Zenon DEF Joins
  <2> QED
    BY <1>3, <2>1
<1>8. Find(text, "@", 1) = 4
  <2>1. 4 \in 1..Len(text) /\ text[4] = "@"
    BY <1>4, <1>6
  <2>2. ASSUME NEW j \in 1..4 - 1 PROVE text[j] # "@"
    <3>1. j = 1 \/ j = 2 \/ j = 3
      OBVIOUS
    <3> QED
      BY <1>2, <1>6, <3>1
  <2>3. text \in Text
    BY <1>6
  <2> QED
    BY <2>1, <2>2, <2>3, FindFourth
<1> DEFINE front == SubSeq(text, 1, 4 - 1)
<1>9. /\ front \in Text /\ Len(front) = 3
      /\ front[1] = u /\ front[2] = ":" /\ front[3] = q
  <2>1. 3 \in 0..Len(text) /\ 4 - 1 = 3
    BY <1>4, <1>6
  <2>2. front = SubSeq(text, 1, 3)
    BY <2>1
  <2> HIDE DEF front
  <2>3. front \in Text /\ Len(front) = 3 /\ \A i \in 1..3 : front[i] = text[i]
    BY <1>6, <2>1, <2>2, FirstPart
  <2> QED
    BY <1>6, <2>3
<1> HIDE DEF front
<1>10. Find(front, ":", 1) = 2
  <2>1. 2 \in 1..Len(front) /\ \A j \in 1..2 - 1 : front[j] # ":"
    BY <1>2, <1>9
  <2> QED
    BY <1>9, <2>1, FindAt
<1>11. SubSeq(front, 1, 2 - 1) = <<u>> /\ From(front, 2 + 1) = <<q>>
  <2>1. 1 \in 1..Len(front) /\ 3 \in 1..Len(front) /\ 2 - 1 = 1 /\ 2 + 1 = 3
    BY <1>9
  <2>2. SubSeq(front, 1, 1) = <<u>> /\ SubSeq(front, 3, 3) = <<q>>
    BY <1>9, <2>1, OneOf
  <2>3. From(front, 3) = SubSeq(front, 3, 3)
    BY <1>9 DEF From
  <2> QED
    BY <2>1, <2>2, <2>3
<1>12. From(text, 4 + n + 1) = <<":", p>>
  <2> DEFINE b == 4 + n + 1
             r == Len(text)
             y == <<":", p>>
  <2>1. b \in 1..Len(text) + 1 /\ r \in b - 1..Len(text) /\ r - b + 1 = 2
        /\ b + 1 - 1 = 4 + (n + 1) /\ b + 2 - 1 = 4 + (n + 2)
        /\ n + 1 \in 1..n + 2 /\ n + 2 \in 1..n + 2
    BY <1>4, <1>6
  <2>2. y \in Text /\ Len(y) = 2 /\ y[1] = ":" /\ y[2] = p
    BY <1>1 DEF Text, Delimiter
  <2>3. SubSeq(text, b, r) = From(text, 4 + n + 1)
    BY DEF From
  <2> HIDE DEF b, r, y
  <2>4. text[b + 1 - 1] = ":" /\ text[b + 2 - 1] = p
    <3>1. text[4 + (n + 1)] = ":" /\ text[4 + (n + 2)] = p
      BY <1>4, <1>6, <2>1
    <3> QED
      BY <2>1, <3>1
  <2>5. \A i \in 1..Len(y) : y[i] = text[b + i - 1]
    <3>1. \A i \in 1..Len(y) : i = 1 \/ i = 2
      BY <2>2
    <3> QED
      BY <2>2, <2>4, <3>1
  <2>6. text \in Text /\ y \in Text /\ Len(y) = r - b + 1
    BY <1>6, <2>1, <2>2
  <2>7. SubSeq(text, b, r) = y
    BY <2>1, <2>5, <2>6, PartIs, ZenonT(40)
  <2> QED
    BY <2>3, <2>7 DEF y
<1>13. Behind[text] = Url("ok", None, {<<u>>}, {<<q>>}, h, {The(Dec[p])}, <<>>)
  <2> DEFINE a == Find(text, "@", 1)
             f == SubSeq(text, 1, a - 1)
             c == Find(f, ":", 1)
             x == ParseHost[From(text, a + 1)]
             y == PortAndPath[From(text, a + x.length + 1)]
  <2>1. Behind[text] = IF x.result # "ok" THEN NoUrl(x.result)
                       ELSE IF y.result # "ok" THEN NoUrl(y.result)
                       ELSE Url("ok", None,
                                IF a = 0 THEN None ELSE {IF c = 0 THEN f ELSE SubSeq(f, 1, c - 1)},
                                IF c = 0 THEN None ELSE {From(f, c + 1)},
                                x.host, y.port, y.path)
    <3>1. text \in Text
      BY <1>6
    <3> QED
      BY <3>1 DEF Behind
  <2>2. a = 4
    BY <1>8
  <2>3. f = front
    <3>1. f = SubSeq(text, 1, a - 1)
      OBVIOUS
    <3> HIDE DEF a, f
    <3> QED
      BY <2>2, <3>1 DEF front
  <2>4. c = 2
    <3>1. c = Find(f, ":", 1)
      OBVIOUS
    <3> HIDE DEF c, f
    <3> QED
      BY <1>10, <2>3, <3>1
  <2>5. x = HostIs(h, n)
    <3>1. x = ParseHost[From(text, a + 1)]
      OBVIOUS
    <3> HIDE DEF x, a
    <3> QED
      BY <1>4, <1>7, <2>2, <3>1
  <2>6. x.result = "ok" /\ x.host = h /\ x.length = n
    <3> HIDE DEF x
    <3> QED
      BY <2>5 DEF HostIs
  <2>7. y = [result |-> "ok", port |-> {The(Dec[p])}, path |-> <<>>]
    <3>1. y = PortAndPath[From(text, a + x.length + 1)]
      OBVIOUS
    <3> HIDE DEF x, y, a
    <3>2. y = PortAndPath[<<":", p>>]
      BY <1>12, <2>2, <2>6, <3>1
    <3> QED
      BY <3>2, PortRead
  <2> HIDE DEF a, f, c, x, y
  <2>8. SubSeq(f, 1, c - 1) = <<u>> /\ From(f, c + 1) = <<q>>
    BY <1>11, <2>3, <2>4
  <2>9. a # 0 /\ c # 0
    BY <2>2, <2>4
  <2>10. y.result = "ok" /\ y.port = {The(Dec[p])} /\ y.path = <<>>
    BY <2>7
  <2>11. Behind[text] = Url("ok", None, {SubSeq(f, 1, c - 1)}, {From(f, c + 1)}, x.host, y.port, y.path)
    BY <2>1, <2>6, <2>9, <2>10, Zenon
  <2> QED
    BY <2>6, <2>8, <2>10, <2>11, Zenon
<1> QED
  BY <1>6, <1>13

\* The host that an argument names is the one that it means.
HostMeans(h, d) ==
  \/ h.kind = "name" /\ h.value = d.hostname /\ d.hostname # <<>> /\ d.ip = NoDest.ip
  \/ h.kind # "name" /\ h.value = d.ip /\ d.hostname = <<>>

\* An argument is read with the scheme, credentials and destination given.
Reads(text, scheme, c, d) ==
  \E u \in {Parse[text]} :
    /\ u.result = "ok" /\ u.scheme = scheme /\ u.path = <<>>
    /\ Credentials(u) = c /\ (c = NoCreds => u.user = None /\ u.pass = None)
    /\ HostMeans(u.host, d) /\ u.port = {d.port}

\* What is made of such an argument is what it means, once the address that
\* stands next to a host name is left out.
LEMMA MeansDestination ==
  ASSUME NEW u, NEW d, HostMeans(u.host, d), u.port = {d.port},
         d = Dest(d.ip, d.hostname, d.port)
  PROVE  /\ \A old : Used(Destination(u, old)) = d
         /\ d.hostname = <<>> =>
              u.host.kind # "name" /\ Endpoint(u) = d /\ (\A old : Destination(u, old) = d)
<1>1. The(u.port) = d.port
  BY DEF The
<1>2. CASE u.host.kind = "name"
  <2>1. u.host.value = d.hostname /\ d.hostname # <<>> /\ d.ip = NoDest.ip
    BY <1>2 DEF HostMeans
  <2>2. ASSUME NEW old PROVE Used(Destination(u, old)) = d
    <3>1. Destination(u, old) = [ip |-> old.ip, hostname |-> d.hostname, port |-> d.port]
      BY <1>1, <1>2, <2>1 DEF Destination
    <3>2. Used(Destination(u, old)) = [ip |-> NoDest.ip, hostname |-> d.hostname, port |-> d.port]
      BY <2>1, <3>1 DEF Used, UsingHostname
    <3> QED
      BY <2>1, <3>2 DEF Dest
  <2> QED
    BY <2>1, <2>2
<1>3. CASE u.host.kind # "name"
  <2>1. u.host.value = d.ip /\ d.hostname = <<>>
    BY <1>3 DEF HostMeans
  <2>2. Endpoint(u) = d /\ \A old : Destination(u, old) = d
    BY <1>1, <1>3, <2>1 DEF Endpoint, Destination, Dest
  <2>3. Used(d) = d
    BY <2>1 DEF Used, UsingHostname
  <2> QED
    BY <1>3, <2>2, <2>3
<1> QED
  BY <1>2, <1>3

\* A host and a port that mean d.
DestRead(text, d) ==
  \E n, h, p :
    p \in PortNumber /\ HostReads(text, n, h, p) /\ HostMeans(h, d) /\ d = Dest(d.ip, d.hostname, The(Dec[p]))

LEMMA HostPortRead ==
  ASSUME NEW w \in HostPort, Separated(w.text)
  PROVE  /\ DestRead(w.text, w.dest)
         /\ w \in IpPort => w.dest.hostname = <<>>
         /\ w.dest = Dest(w.dest.ip, w.dest.hostname, w.dest.port)
<1>1. ASSUME NEW a \in Address4, NEW p \in PortNumber,
             w = QuadForm(a, p)
      PROVE  /\ DestRead(w.text, w.dest) /\ w.dest.hostname = <<>>
             /\ w.dest = Dest(w.dest.ip, w.dest.hostname, w.dest.port)
  <2> DEFINE d == Dest(The(Quad[a]), <<>>, The(Dec[p]))
  <2>1. w.text = <<a, ":", p>> /\ w.dest = d
    BY <1>1 DEF QuadForm, Written
  <2>2. HostReads(<<a, ":", p>>, 1, Host("v4", The(Quad[a])), p)
    BY PlainRead
  <2>3. /\ d.ip = The(Quad[a]) /\ d.hostname = <<>> /\ d.port = The(Dec[p])
        /\ HostMeans(Host("v4", The(Quad[a])), d)
    BY DEF Dest, HostMeans, Host
  <2>4. d = Dest(d.ip, d.hostname, The(Dec[p])) /\ d = Dest(d.ip, d.hostname, d.port)
    BY <2>3
  <2> HIDE DEF d
  <2> QED
    BY <2>1, <2>2, <2>3, <2>4 DEF DestRead
<1>2. ASSUME NEW l \in Literals, NEW p \in PortNumber,
             w = LiteralForm(l, p)
      PROVE  /\ DestRead(w.text, w.dest) /\ w.dest.hostname = <<>>
             /\ w.dest = Dest(w.dest.ip, w.dest.hostname, w.dest.port)
  <2> DEFINE d == Dest(LiteralAddress(l), <<>>, The(Dec[p]))
             text == <<"[">> \o LiteralText(l) \o <<"]", ":", p>>
  <2>1. w.text = text /\ w.dest = d
    BY <1>2 DEF LiteralForm, Written
  <2>2. \E n : HostReads(text, n, Host("v6", LiteralAddress(l)), p)
    <3>1. text = <<"[">> \o LiteralText(l) \o <<"]", ":", p>> /\ Separated(text)
      BY <2>1
    <3> HIDE DEF text
    <3> QED
      BY <3>1, BracketRead
  <2>3. /\ d.ip = LiteralAddress(l) /\ d.hostname = <<>> /\ d.port = The(Dec[p])
        /\ HostMeans(Host("v6", LiteralAddress(l)), d)
    BY DEF Dest, HostMeans, Host
  <2>4. d = Dest(d.ip, d.hostname, The(Dec[p])) /\ d = Dest(d.ip, d.hostname, d.port)
    BY <2>3
  <2> HIDE DEF d, text
  <2> QED
    BY <2>1, <2>2, <2>3, <2>4 DEF DestRead
<1>3. ASSUME NEW m \in Name, NEW p \in PortNumber,
             w = NameForm(m, p)
      PROVE  /\ DestRead(w.text, w.dest)
             /\ w.dest = Dest(w.dest.ip, w.dest.hostname, w.dest.port)
  <2> DEFINE d == Dest(NoDest.ip, <<m>>, The(Dec[p]))
  <2>1. w.text = <<m, ":", p>> /\ w.dest = d
    BY <1>3 DEF NameForm, Written
  <2>2. HostReads(<<m, ":", p>>, 1, Host("name", <<m>>), p)
    <3>1. m \notin Address4
      BY UsageWords
    <3> QED
      BY <3>1, PlainRead
  <2>3. /\ d.ip = NoDest.ip /\ d.hostname = <<m>> /\ d.port = The(Dec[p])
        /\ HostMeans(Host("name", <<m>>), d)
    BY DEF Dest, HostMeans, Host
  <2>4. d = Dest(d.ip, d.hostname, The(Dec[p])) /\ d = Dest(d.ip, d.hostname, d.port)
    BY <2>3
  <2> HIDE DEF d
  <2> QED
    BY <2>1, <2>2, <2>3, <2>4 DEF DestRead
<1>4. w \in IpPort => DestRead(w.text, w.dest) /\ w.dest.hostname = <<>>
                      /\ w.dest = Dest(w.dest.ip, w.dest.hostname, w.dest.port)
  <2>1. w \in IpPort =>
          \/ \E a \in Address4, p \in PortNumber : w = QuadForm(a, p)
          \/ \E l \in Literals, p \in PortNumber : w = LiteralForm(l, p)
    BY DEF IpPort
  <2> QED
    BY <1>1, <1>2, <2>1, Zenon
<1>5. w \in IpPort \/ \E m \in Name, p \in PortNumber : w = NameForm(m, p)
  BY DEF HostPort
<1>6. w \in IpPort => w.dest.hostname = <<>>
  BY <1>4
<1>7. /\ DestRead(w.text, w.dest)
      /\ w.dest = Dest(w.dest.ip, w.dest.hostname, w.dest.port)
  <2>1. CASE w \in IpPort
    BY <1>4, <2>1
  <2>2. ASSUME NEW m \in Name, NEW p \in PortNumber,
               w = NameForm(m, p)
        PROVE  /\ DestRead(w.text, w.dest)
               /\ w.dest = Dest(w.dest.ip, w.dest.hostname, w.dest.port)
    BY <1>3, <2>2
  <2> QED
    BY <1>5, <2>1, <2>2, Zenon
<1> QED
  BY <1>6, <1>7

\* Url gives what it is given.
LEMMA UrlIs ==
  ASSUME NEW s, NEW user, NEW pass, NEW h, NEW port, NEW u,
         u = Url("ok", s, user, pass, h, port, <<>>)
  PROVE  /\ u.result = "ok" /\ u.scheme = s /\ u.user = user /\ u.pass = pass
         /\ u.host = h /\ u.port = port /\ u.path = <<>>
BY DEF Url

LEMMA Schemed ==
  ASSUME NEW s, NEW user, NEW pass, NEW h, NEW port
  PROVE  [Url("ok", None, user, pass, h, port, <<>>) EXCEPT !.scheme = s]
           = Url("ok", s, user, pass, h, port, <<>>)
BY DEF Url

LEMMA UrlReads ==
  ASSUME NEW text, NEW s, NEW user, NEW pass, NEW h, NEW p, NEW d, NEW c,
         Parse[text] = Url("ok", s, user, pass, h, {The(Dec[p])}, <<>>),
         HostMeans(h, d), d = Dest(d.ip, d.hostname, The(Dec[p])),
         \/ user = None /\ pass = None /\ c = NoCreds
         \/ /\ user # None /\ pass # None /\ c # NoCreds
            /\ c = [username |-> The(user), password |-> The(pass)]
  PROVE  Reads(text, s, c, d)
<1> DEFINE u == Parse[text]
<1>1. /\ u.result = "ok" /\ u.scheme = s /\ u.user = user /\ u.pass = pass
      /\ u.host = h /\ u.port = {The(Dec[p])} /\ u.path = <<>>
  <2>1. u = Url("ok", s, user, pass, h, {The(Dec[p])}, <<>>)
    OBVIOUS
  <2> HIDE DEF u
  <2> QED
    BY <2>1, UrlIs
<1>2. d.port = The(Dec[p])
  BY DEF Dest
<1>3. Credentials(u) = c /\ (c = NoCreds => u.user = None /\ u.pass = None)
  <2> HIDE DEF u
  <2>1. CASE user = None /\ pass = None /\ c = NoCreds
    BY <1>1, <2>1 DEF Credentials
  <2>2. CASE /\ user # None /\ pass # None /\ c # NoCreds
             /\ c = [username |-> The(user), password |-> The(pass)]
    BY <1>1, <2>2 DEF Credentials
  <2> QED
    BY <2>1, <2>2
<1>4. HostMeans(u.host, d) /\ u.port = {d.port}
  <2> HIDE DEF u
  <2> QED
    BY <1>1, <1>2
<1> QED
  BY <1>1, <1>3, <1>4, Zenon DEF Reads

\* A host and a port alone.
LEMMA PlainReads ==
  ASSUME NEW text, NEW d, DestRead(text, d)
  PROVE  Reads(text, None, NoCreds, d)
<1>1. PICK n, h, p :
        p \in PortNumber /\ HostReads(text, n, h, p) /\ HostMeans(h, d) /\ d = Dest(d.ip, d.hostname, The(Dec[p]))
  BY DEF DestRead
<1>2. Behind[text] = Url("ok", None, None, None, h, {The(Dec[p])}, <<>>) /\ FindScheme(text) = 0
  BY <1>1, HostUrl
<1>3. text \in Text
  BY <1>1 DEF HostReads
<1>4. Parse[text] = Behind[text]
  <2> DEFINE s == FindScheme(text)
  <2>1. Parse[text] = CASE s = 0 -> Behind[text]
                        [] s = 1 -> NoUrl("bad")
                        [] s > 1 -> [Behind[From(text, s + 3)] EXCEPT !.scheme = {SubSeq(text, 1, s - 1)}]
    BY <1>3 DEF Parse
  <2>2. s = 0
    BY <1>2
  <2> HIDE DEF s
  <2> QED
    BY <2>1, <2>2
<1>5. Parse[text] = Url("ok", None, None, None, h, {The(Dec[p])}, <<>>)
  BY <1>2, <1>4, Zenon
<1> QED
  BY <1>1, <1>5, UrlReads

\* With a type in front of it.
LEMMA TypedReads ==
  ASSUME NEW t \in Word, NEW rest, NEW d, DestRead(rest, d),
         NEW text, text = <<t, ":", "/", "/">> \o rest
  PROVE  Reads(text, {<<t>>}, NoCreds, d)
<1>1. PICK n, h, p :
        p \in PortNumber /\ HostReads(rest, n, h, p) /\ HostMeans(h, d) /\ d = Dest(d.ip, d.hostname, The(Dec[p]))
  BY DEF DestRead
<1>2. Behind[rest] = Url("ok", None, None, None, h, {The(Dec[p])}, <<>>) /\ rest \in Text
  <2>1. rest \in Text
    BY <1>1, Zenon DEF HostReads
  <2>2. Behind[rest] = Url("ok", None, None, None, h, {The(Dec[p])}, <<>>)
    BY <1>1, HostUrl, Zenon
  <2> QED
    BY <2>1, <2>2
<1>3. Parse[text] = [Behind[rest] EXCEPT !.scheme = {<<t>>}]
  BY <1>2, TypedUrl
<1>4. Parse[text] = Url("ok", {<<t>>}, None, None, h, {The(Dec[p])}, <<>>)
  <2>1. Parse[text] = [Url("ok", None, None, None, h, {The(Dec[p])}, <<>>) EXCEPT !.scheme = {<<t>>}]
    BY <1>2, <1>3
  <2> QED
    BY <2>1, Schemed
<1> QED
  BY <1>1, <1>4, UrlReads

\* And with a type and credentials.
LEMMA CredsReads ==
  ASSUME NEW t \in Word, NEW u \in Name, NEW q \in Name, NEW rest, NEW d, DestRead(rest, d),
         NEW inner, inner = <<u, ":", q, "@">> \o rest,
         NEW text, text = <<t, ":", "/", "/">> \o inner
  PROVE  Reads(text, {<<t>>}, [username |-> <<u>>, password |-> <<q>>], d)
<1>1. PICK n, h, p :
        p \in PortNumber /\ HostReads(rest, n, h, p) /\ HostMeans(h, d) /\ d = Dest(d.ip, d.hostname, The(Dec[p]))
  BY DEF DestRead
<1>2. Behind[inner] = Url("ok", None, {<<u>>}, {<<q>>}, h, {The(Dec[p])}, <<>>) /\ inner \in Text
  <2>1. p \in PortNumber /\ HostReads(rest, n, h, p)
    BY <1>1
  <2>2. u \in Name /\ q \in Name /\ inner = <<u, ":", q, "@">> \o rest
    OBVIOUS
  <2>3. \A text1 : text1 = <<u, ":", q, "@">> \o rest =>
          Behind[text1] = Url("ok", None, {<<u>>}, {<<q>>}, h, {The(Dec[p])}, <<>>) /\ text1 \in Text
    BY <2>1, <2>2, CredsUrl
  <2> QED
    BY <2>2, <2>3
<1>3. Parse[text] = [Behind[inner] EXCEPT !.scheme = {<<t>>}]
  BY <1>2, TypedUrl
<1>4. Parse[text] = Url("ok", {<<t>>}, {<<u>>}, {<<q>>}, h, {The(Dec[p])}, <<>>)
  <2>1. Parse[text] = [Url("ok", None, {<<u>>}, {<<q>>}, h, {The(Dec[p])}, <<>>)
                         EXCEPT !.scheme = {<<t>>}]
    BY <1>2, <1>3
  <2> QED
    BY <2>1, Schemed
<1> DEFINE c == [username |-> <<u>>, password |-> <<q>>]
<1>5. /\ {<<u>>} # None /\ {<<q>>} # None /\ c # NoCreds
      /\ c = [username |-> The({<<u>>}), password |-> The({<<q>>})]
  BY DEF None, The, NoCreds
<1> HIDE DEF c
<1>6. Reads(text, {<<t>>}, c, d)
  BY <1>1, <1>4, <1>5, UrlReads
<1> QED
  BY <1>6 DEF c

-----------------------------------------------------------------------------
(* The arguments of a command line that the usage text allows.              *)

IsDest(d) == d = Dest(d.ip, d.hostname, d.port)

\* An argument that means a chain entry.
EntryRead(text, e) ==
  /\ e = [type |-> <<"socks5">>, address |-> e.address, creds |-> e.creds]
  /\ IsDest(e.address) /\ Reads(text, {<<"socks5">>}, e.creds, e.address)

ChainRead(args, first, chain) ==
  /\ chain = [i \in 1..Len(args) - first + 1 |-> chain[i]]
  /\ \A i \in 1..Len(args) - first + 1 : EntryRead(args[first + i - 1], chain[i])

\* The arguments mean the configuration m.
TunnelRead(args, m) ==
  /\ Len(args) >= 3 /\ args[1] = Tunnel /\ m.type = "tunnel" /\ m.server = <<>>
  /\ m = [type |-> m.type, listen |-> m.listen, destination |-> m.destination,
          server |-> m.server, chain |-> m.chain]
  /\ IsDest(m.listen) /\ m.listen.hostname = <<>> /\ Reads(args[2], None, NoCreds, m.listen)
  /\ IsDest(m.destination) /\ Reads(args[3], None, NoCreds, m.destination)
  /\ ChainRead(args, 4, m.chain)

ProxyRead(args, m) ==
  /\ Len(args) >= 2 /\ args[1] = Proxy /\ m.type = "proxy" /\ m.server \in ServerTypes
  /\ m = [type |-> m.type, listen |-> m.listen, destination |-> m.destination,
          server |-> m.server, chain |-> m.chain]
  /\ IsDest(m.listen) /\ m.listen.hostname = <<>> /\ Reads(args[2], {m.server}, NoCreds, m.listen)
  /\ m.destination = NoDest
  /\ ChainRead(args, 3, m.chain)

LineRead(l) ==
  \/ TunnelRead(l.fv, The(l.meant))
  \/ ProxyRead(l.fv, The(l.meant))

LEMMA SameSeq ==
  ASSUME NEW S, NEW x \in Seq(S), NEW y \in Seq(S), Len(x) = Len(y),
         \A i \in 1..Len(x) : x[i] = y[i]
  PROVE  x = y
OBVIOUS

\* One behind the other, in whichever order they are joined.
LEMMA JoinedTwice ==
  ASSUME NEW S, NEW x \in Seq(S), NEW y \in Seq(S), NEW z \in Seq(S)
  PROVE  (x \o y) \o z = x \o (y \o z)
<1> DEFINE xy == x \o y
           yz == y \o z
           l == xy \o z
           r == x \o yz
           a == Len(x)
           b == Len(y)
           c == Len(z)
<1>1. a \in Nat /\ b \in Nat /\ c \in Nat
  OBVIOUS
<1>2. /\ xy \in Seq(S) /\ Len(xy) = Len(x) + Len(y)
      /\ \A i \in 1..Len(x) : xy[i] = x[i]
      /\ \A j \in 1..Len(y) : xy[Len(x) + j] = y[j]
  BY JoinedIs
<1>3. /\ yz \in Seq(S) /\ Len(yz) = Len(y) + Len(z)
      /\ \A i \in 1..Len(y) : yz[i] = y[i]
      /\ \A j \in 1..Len(z) : yz[Len(y) + j] = z[j]
  BY JoinedIs
<1>4. l = xy \o z /\ r = x \o yz
  OBVIOUS
<1> HIDE DEF xy, yz, l, r
<1>5. /\ l \in Seq(S) /\ Len(l) = Len(xy) + Len(z)
      /\ \A i \in 1..Len(xy) : l[i] = xy[i]
      /\ \A j \in 1..Len(z) : l[Len(xy) + j] = z[j]
  <2>1. xy \in Seq(S) /\ l = xy \o z
    BY <1>2, <1>4
  <2> QED
    BY <2>1, JoinedIs
<1>6. /\ r \in Seq(S) /\ Len(r) = Len(x) + Len(yz)
      /\ \A i \in 1..Len(x) : r[i] = x[i]
      /\ \A j \in 1..Len(yz) : r[Len(x) + j] = yz[j]
  <2>1. yz \in Seq(S) /\ r = x \o yz
    BY <1>3, <1>4
  <2> QED
    BY <2>1, JoinedIs
<1>7. Len(l) = a + b + c /\ Len(r) = a + b + c
  BY <1>1, <1>2, <1>3, <1>5, <1>6
<1>8. ASSUME NEW i \in 1..Len(l) PROVE l[i] = r[i]
  <2>1. CASE i \in 1..a
    <3>1. i \in 1..Len(xy) /\ i \in 1..Len(x)
      BY <1>1, <1>2, <2>1
    <3> QED
      BY <1>2, <1>5, <1>6, <3>1
  <2>2. CASE i \in a + 1..a + b
    <3> DEFINE j == i - a
    <3>1. j \in 1..Len(y) /\ i = Len(x) + j /\ i \in 1..Len(xy) /\ j \in 1..Len(yz)
      BY <1>1, <1>2, <1>3, <2>2
    <3> HIDE DEF j
    <3>2. l[i] = xy[Len(x) + j] /\ r[i] = yz[j]
      BY <1>5, <1>6, <3>1
    <3> QED
      BY <1>2, <1>3, <3>1, <3>2
  <2>3. CASE i \in a + b + 1..a + b + c
    <3> DEFINE j == i - (a + b)
    <3>1. j \in 1..Len(z) /\ i = Len(xy) + j /\ i = Len(x) + (Len(y) + j) /\ Len(y) + j \in 1..Len(yz)
      BY <1>1, <1>2, <1>3, <2>3
    <3> HIDE DEF j
    <3>2. l[i] = z[j] /\ r[i] = yz[Len(y) + j]
      BY <1>5, <1>6, <3>1
    <3> QED
      BY <1>3, <3>1, <3>2
  <2>4. i \in 1..a \/ i \in a + 1..a + b \/ i \in a + b + 1..a + b + c
    BY <1>1, <1>7
  <2> QED
    BY <2>1, <2>2, <2>3, <2>4, Zenon
<1>9. l = r
  BY <1>5, <1>6, <1>7, <1>8, SameSeq
<1> QED
  BY <1>4, <1>9 DEF xy, yz

\* The text of a host and a port.
LEMMA HostPortText == ASSUME NEW w \in HostPort PROVE w.text \in Text
<1>1. ASSUME NEW a \in Name \union Address4, NEW p \in PortNumber PROVE <<a, ":", p>> \in Text
  <2>1. a \in Word /\ p \in Word
    BY UsageWords
  <2> QED
    BY <2>1 DEF Text, Delimiter
<1>2. ASSUME NEW l \in Literals, NEW p \in PortNumber
      PROVE  <<"[">> \o LiteralText(l) \o <<"]", ":", p>> \in Text
  <2>1. p \in Word /\ LiteralText(l) \in Text
    BY UsageWords, LiteralIsText
  <2>2. <<"[">> \in Text /\ <<"]", ":", p>> \in Text
    BY <2>1 DEF Text, Delimiter
  <2> QED
    BY <2>1, <2>2 DEF Text
<1>3. \/ \E a \in Address4, p \in PortNumber : w = QuadForm(a, p)
      \/ \E l \in Literals, p \in PortNumber : w = LiteralForm(l, p)
      \/ \E m \in Name, p \in PortNumber : w = NameForm(m, p)
  BY DEF HostPort, IpPort
<1>4. \A a, p : QuadForm(a, p).text = <<a, ":", p>> /\ NameForm(a, p).text = <<a, ":", p>>
  BY DEF QuadForm, NameForm, Written
<1>5. \A l, p : LiteralForm(l, p).text = <<"[">> \o LiteralText(l) \o <<"]", ":", p>>
  BY DEF LiteralForm, Written
<1>6. ASSUME NEW a \in Address4, NEW p \in PortNumber, w = QuadForm(a, p) PROVE w.text \in Text
  BY <1>1, <1>4, <1>6, ZenonT(40)
<1>7. ASSUME NEW l \in Literals, NEW p \in PortNumber, w = LiteralForm(l, p) PROVE w.text \in Text
  BY <1>2, <1>5, <1>7, Zenon
<1>8. ASSUME NEW m \in Name, NEW p \in PortNumber, w = NameForm(m, p) PROVE w.text \in Text
  BY <1>1, <1>4, <1>8, ZenonT(40)
<1> QED
  BY <1>3, <1>6, <1>7, <1>8, Zenon

\* What stands behind a type is apart too, and the type is a word.
LEMMA TypedApart ==
  ASSUME NEW t, t \notin Delimiter, NEW rest \in Text, NEW text \in Text, Separated(text),
         text = <<t, ":", "/", "/">> \o rest
  PROVE  t \in Word /\ Separated(rest)
<1> DEFINE front == <<t, ":", "/", "/">>
           S == Word \union Delimiter \union {t}
<1>1. front \in Seq(S) /\ rest \in Seq(S) /\ Len(front) = 4 /\ front[1] = t
  <2>1. Word \union Delimiter \subseteq S /\ ":" \in S /\ "/" \in S /\ t \in S
    BY DEF Delimiter
  <2> HIDE DEF S
  <2>2. rest \in Seq(Word \union Delimiter)
    BY DEF Text
  <2> QED
    BY <2>1, <2>2
<1>2. text = front \o rest
  OBVIOUS
<1> HIDE DEF front, S
<1>3. Len(text) = 4 + Len(rest) /\ text[1] = t /\ Len(rest) \in Nat
  <2>1. Len(text) = Len(front) + Len(rest) /\ \A i \in 1..Len(front) : text[i] = front[i]
    BY <1>1, <1>2, JoinedIs
  <2>2. 1 \in 1..4 /\ Len(rest) \in Nat
    BY DEF Text
  <2> QED
    BY <1>1, <2>1, <2>2
<1>4. t \in Word
  <2>1. text[1] \in Word \union Delimiter
    BY <1>3 DEF Text
  <2> QED
    BY <1>3, <2>1
<1>5. front \in Text
  BY <1>4 DEF front, Text, Delimiter
<1>6. Joins(front, rest, text)
  <2>1. front \in Text /\ rest \in Text
    BY <1>5
  <2> QED
    BY <1>2, <2>1, Behead
<1>7. Separated(rest)
  BY <1>6, Zenon DEF Joins
<1> QED
  BY <1>4, <1>7

LEMMA OneAndThree ==
  ASSUME NEW t, NEW a, NEW b, NEW c
  PROVE  <<t>> \o <<a, b, c>> = <<t, a, b, c>>
<1> DEFINE S == {t, a, b, c}
           x == <<t>>
           y == <<a, b, c>>
           z == x \o y
           w == <<t, a, b, c>>
<1>1. /\ x \in Seq(S) /\ Len(x) = 1 /\ x[1] = t
      /\ y \in Seq(S) /\ Len(y) = 3 /\ y[1] = a /\ y[2] = b /\ y[3] = c
      /\ w \in Seq(S) /\ Len(w) = 4 /\ w[1] = t /\ w[2] = a /\ w[3] = b /\ w[4] = c
  OBVIOUS
<1> HIDE DEF S, x, y, w
<1>2. /\ z \in Seq(S) /\ Len(z) = Len(x) + Len(y)
      /\ \A i \in 1..Len(x) : z[i] = x[i]
      /\ \A j \in 1..Len(y) : z[Len(x) + j] = y[j]
  <2>1. x \in Seq(S) /\ y \in Seq(S) /\ z = x \o y
    BY <1>1
  <2> QED
    BY <2>1, JoinedIs
<1> HIDE DEF z
<1>3. Len(z) = 4 /\ z[1] = t /\ z[2] = a /\ z[3] = b /\ z[4] = c
  <2>1. z[1] = t
    BY <1>1, <1>2
  <2>2. z[1 + 1] = a /\ z[1 + 2] = b /\ z[1 + 3] = c
    BY <1>1, <1>2
  <2> QED
    BY <1>1, <1>2, <2>1, <2>2
<1>4. \A i \in 1..4 : i = 1 \/ i = 2 \/ i = 3 \/ i = 4
  OBVIOUS
<1>5. z = w
  BY <1>1, <1>2, <1>3, <1>4, SameSeq
<1> QED
  BY <1>5 DEF x, y, z, w

LEMMA FourAndFour ==
  ASSUME NEW t, NEW a, NEW b, NEW c, NEW u, NEW d, NEW e, NEW f
  PROVE  <<t, a, b, c>> \o <<u, d, e, f>> = <<t, a, b, c, u, d, e, f>>
<1> DEFINE S == {t, a, b, c, u, d, e, f}
           x == <<t, a, b, c>>
           y == <<u, d, e, f>>
           z == x \o y
           w == <<t, a, b, c, u, d, e, f>>
<1>1. /\ x \in Seq(S) /\ Len(x) = 4 /\ x[1] = t /\ x[2] = a /\ x[3] = b /\ x[4] = c
      /\ y \in Seq(S) /\ Len(y) = 4 /\ y[1] = u /\ y[2] = d /\ y[3] = e /\ y[4] = f
      /\ w \in Seq(S) /\ Len(w) = 8 /\ w[1] = t /\ w[2] = a /\ w[3] = b /\ w[4] = c
      /\ w[5] = u /\ w[6] = d /\ w[7] = e /\ w[8] = f
  OBVIOUS
<1> HIDE DEF S, x, y, w
<1>2. /\ z \in Seq(S) /\ Len(z) = Len(x) + Len(y)
      /\ \A i \in 1..Len(x) : z[i] = x[i]
      /\ \A j \in 1..Len(y) : z[Len(x) + j] = y[j]
  <2>1. x \in Seq(S) /\ y \in Seq(S) /\ z = x \o y
    BY <1>1
  <2> QED
    BY <2>1, JoinedIs
<1> HIDE DEF z
<1>3. Len(z) = 8
  BY <1>1, <1>2
<1>4. ASSUME NEW i \in 1..8 PROVE z[i] = w[i]
  <2>1. z[1] = t /\ z[2] = a /\ z[3] = b /\ z[4] = c
    BY <1>1, <1>2
  <2>2. z[4 + 1] = u /\ z[4 + 2] = d /\ z[4 + 3] = e /\ z[4 + 4] = f
    BY <1>1, <1>2
  <2>3. z[5] = u /\ z[6] = d /\ z[7] = e /\ z[8] = f
    BY <2>2
  <2>4. i = 1 \/ i = 2 \/ i = 3 \/ i = 4 \/ i = 5 \/ i = 6 \/ i = 7 \/ i = 8
    OBVIOUS
  <2> QED
    BY <1>1, <2>1, <2>3, <2>4
<1>5. z = w
  BY <1>1, <1>2, <1>3, <1>4, SameSeq
<1> QED
  BY <1>5 DEF x, y, z, w

LEMMA Socks5Typed ==
  ASSUME NEW type \in ServerTypes
  PROVE  \E t : /\ type = <<t>> /\ t \notin Delimiter
                /\ \A w : Typed(type, w) = <<t, ":", "/", "/">> \o w.text
<1>1. PICK t \in {"socks5", "https"} : type = <<t>>
  BY DEF ServerTypes
<1>2. <<t>> \o <<":", "/", "/">> = <<t, ":", "/", "/">>
  BY OneAndThree
<1>3. t \notin Delimiter
  BY DEF Delimiter
<1>4. \A w : Typed(type, w) = <<t, ":", "/", "/">> \o w.text
  <2> SUFFICES ASSUME NEW w PROVE Typed(type, w) = <<t, ":", "/", "/">> \o w.text
    OBVIOUS
  <2>1. Typed(type, w) = (<<t>> \o <<":", "/", "/">>) \o w.text
    BY <1>1 DEF Typed
  <2> QED
    BY <1>2, <2>1, Zenon
<1> QED
  BY <1>1, <1>3, <1>4

\* A host and a port with a type in front of them.
LEMMA TypedIsRead ==
  ASSUME NEW type \in ServerTypes, NEW w \in HostPort,
         Typed(type, w) \in Text, Separated(Typed(type, w))
  PROVE  Reads(Typed(type, w), {type}, NoCreds, w.dest) /\ DestRead(w.text, w.dest)
<1> DEFINE text == Typed(type, w)
           rest == w.text
           d == w.dest
<1>1. PICK t : type = <<t>> /\ t \notin Delimiter /\ text = <<t, ":", "/", "/">> \o rest
  BY Socks5Typed, Zenon
<1>2. rest \in Text /\ text \in Text /\ Separated(text)
  BY HostPortText
<1> HIDE DEF text
<1>3. t \in Word /\ Separated(rest)
  <2> HIDE DEF rest
  <2> QED
    BY <1>1, <1>2, TypedApart
<1>4. DestRead(rest, d)
  BY <1>3, HostPortRead
<1> HIDE DEF rest, d
<1>5. Reads(text, {<<t>>}, NoCreds, d)
  BY <1>1, <1>3, <1>4, TypedReads
<1> QED
  BY <1>1, <1>4, <1>5 DEF text, rest, d

LEMMA SecretSplit ==
  ASSUME NEW u \in Word, NEW q \in Word, NEW rest \in Text
  PROVE  <<"socks5", ":", "/", "/", u, ":", q, "@">> \o rest
           = <<"socks5", ":", "/", "/">> \o (<<u, ":", q, "@">> \o rest)
<1> DEFINE x == <<"socks5", ":", "/", "/">>
           y == <<u, ":", q, "@">>
           S == Word \union Delimiter \union {"socks5"}
<1>1. x \in Seq(S) /\ y \in Seq(S) /\ rest \in Seq(S)
  <2>1. /\ Word \union Delimiter \subseteq S /\ ":" \in S /\ "/" \in S /\ "@" \in S
        /\ "socks5" \in S /\ u \in S /\ q \in S
    BY DEF Delimiter
  <2>2. rest \in Seq(Word \union Delimiter)
    BY DEF Text
  <2> HIDE DEF S
  <2> QED
    BY <2>1, <2>2
<1>2. x \o y = <<"socks5", ":", "/", "/", u, ":", q, "@">>
  BY FourAndFour
<1> HIDE DEF S
<1>3. (x \o y) \o rest = x \o (y \o rest)
  <2> HIDE DEF x, y
  <2> QED
    BY <1>1, JoinedTwice, SMTT(30)
<1> QED
  BY <1>2, <1>3, Zenon

LEMMA SecretIsRead ==
  ASSUME NEW u \in Name, NEW q \in Name, NEW w \in HostPort,
         NEW text \in Text, Separated(text),
         text = <<"socks5", ":", "/", "/", u, ":", q, "@">> \o w.text
  PROVE  /\ Reads(text, {<<"socks5">>}, [username |-> <<u>>, password |-> <<q>>], w.dest)
         /\ DestRead(w.text, w.dest)
<1> DEFINE rest == w.text
           d == w.dest
           x == <<"socks5", ":", "/", "/">>
           y == <<u, ":", q, "@">>
           inner == y \o rest
<1>1. "socks5" \notin Delimiter
  BY DEF Delimiter
<1>2. u \in Word /\ q \in Word
  BY UsageWords
<1>3. y \in Text /\ rest \in Text
  BY <1>2, HostPortText DEF Text, Delimiter
<1>6. text = x \o inner
  BY <1>2, <1>3, SecretSplit
<1>7. Joins(y, rest, inner)
  <2> HIDE DEF y, rest
  <2> QED
    BY <1>3, Behead
<1>8. inner \in Text /\ (Separated(inner) => Separated(rest))
  <2> HIDE DEF inner
  <2> QED
    BY <1>7, Zenon DEF Joins
<1>9. inner = <<u, ":", q, "@">> \o rest
  OBVIOUS
<1>10. text = <<"socks5", ":", "/", "/">> \o inner
  BY <1>6
<1> HIDE DEF inner, x, y, rest
<1>11. "socks5" \in Word /\ Separated(inner)
  BY <1>1, <1>8, <1>10, TypedApart
<1>12. DestRead(rest, d)
  <2>1. Separated(w.text)
    BY <1>8, <1>11 DEF rest
  <2> QED
    BY <2>1, HostPortRead DEF rest
<1> HIDE DEF d
<1>13. Reads(text, {<<"socks5">>}, [username |-> <<u>>, password |-> <<q>>], d)
  BY <1>9, <1>10, <1>11, <1>12, CredsReads
<1> QED
  BY <1>12, <1>13 DEF rest, d

\* A chain argument.
LEMMA EntryIsRead ==
  ASSUME NEW w \in ChainEntries, Separated(w.text), w.text \in Text
  PROVE  EntryRead(w.text, w.entry)
<1>1. ASSUME NEW v \in HostPort, w = OpenEntry(v)
      PROVE  EntryRead(w.text, w.entry)
  <2> DEFINE e == [type |-> <<"socks5">>, address |-> v.dest, creds |-> NoCreds]
  <2>1. w.text = Typed(<<"socks5">>, v) /\ w.entry = e
    BY <1>1 DEF OpenEntry
  <2>2. <<"socks5">> \in ServerTypes
    BY DEF ServerTypes
  <2>3. Reads(w.text, {<<"socks5">>}, NoCreds, v.dest) /\ DestRead(v.text, v.dest)
    BY <2>1, <2>2, TypedIsRead
  <2>4. IsDest(v.dest)
    BY <2>3 DEF DestRead, IsDest, Dest
  <2>5. e.type = <<"socks5">> /\ e.address = v.dest /\ e.creds = NoCreds
    OBVIOUS
  <2>6. e = [type |-> <<"socks5">>, address |-> e.address, creds |-> e.creds]
    OBVIOUS
  <2> HIDE DEF e
  <2> QED
    BY <2>1, <2>3, <2>4, <2>5, <2>6 DEF EntryRead
<1>2. ASSUME NEW u \in Name, NEW q \in Name, NEW v \in HostPort, w = SecretEntry(u, q, v)
      PROVE  EntryRead(w.text, w.entry)
  <2> DEFINE c == [username |-> <<u>>, password |-> <<q>>]
             e == [type |-> <<"socks5">>, address |-> v.dest, creds |-> c]
  <2>1. w.text = <<"socks5", ":", "/", "/", u, ":", q, "@">> \o v.text /\ w.entry = e
    BY <1>2 DEF SecretEntry
  <2>2. Reads(w.text, {<<"socks5">>}, c, v.dest) /\ DestRead(v.text, v.dest)
    BY <2>1, SecretIsRead
  <2> HIDE DEF c
  <2>3. IsDest(v.dest)
    BY <2>2 DEF DestRead, IsDest, Dest
  <2>4. e.type = <<"socks5">> /\ e.address = v.dest /\ e.creds = c
    OBVIOUS
  <2>5. e = [type |-> <<"socks5">>, address |-> e.address, creds |-> e.creds]
    OBVIOUS
  <2> HIDE DEF e
  <2> QED
    BY <2>1, <2>2, <2>3, <2>4, <2>5 DEF EntryRead
<1>3. \/ \E v \in HostPort : w = OpenEntry(v)
      \/ \E u \in Name, q \in Name, v \in HostPort : w = SecretEntry(u, q, v)
  BY DEF ChainEntries, Entry
<1> QED
  BY <1>1, <1>2, <1>3, Zenon

LEMMA FunctionIsSeq ==
  ASSUME NEW S, NEW n \in Nat, NEW g \in [1..n -> S]
  PROVE  g \in Seq(S) /\ Len(g) = n
OBVIOUS

\* Some arguments, and as many behind them as are left.
LEMMA BehindFront ==
  ASSUME NEW S, NEW front \in Seq(S), NEW n \in Int, NEW g \in [1..n -> S],
         NEW args, args = front \o g, n = Len(args) - Len(front)
  PROVE  /\ n \in Nat /\ Len(args) = Len(front) + n /\ Len(front) \in Nat
         /\ \A i \in 1..Len(front) : args[i] = front[i]
         /\ \A j \in 1..n : args[Len(front) + j] = g[j]
<1> DEFINE k == IF n >= 0 THEN n ELSE 0
<1>1. k \in Nat /\ 1..n = 1..k
  OBVIOUS
<1> HIDE DEF k
<1>2. g \in [1..k -> S]
  BY <1>1
<1>3. g \in Seq(S) /\ Len(g) = k
  BY <1>1, <1>2, FunctionIsSeq
<1>4. /\ Len(args) = Len(front) + Len(g)
      /\ \A i \in 1..Len(front) : args[i] = front[i]
      /\ \A j \in 1..Len(g) : args[Len(front) + j] = g[j]
  BY <1>3, JoinedIs
<1>5. Len(front) \in Nat
  OBVIOUS
<1>6. n = k
  BY <1>1, <1>3, <1>4, <1>5
<1> QED
  BY <1>1, <1>3, <1>4, <1>5, <1>6

\* The arguments of a command line.
LEMMA LineTexts ==
  ASSUME NEW k \in DOMAIN Lines, NEW l \in Lines[k]
  PROVE  /\ l.fv \in Seq(Text) /\ Len(l.fv) \in Nat
         /\ \A i \in 1..Len(l.fv) : l.fv[i] \in Text /\ Separated(l.fv[i])
<1>1. l.fv \in Seq(Text) /\ \A i \in DOMAIN l.fv : Separated(l.fv[i])
  BY CmdlineAssumption
<1> DEFINE args == l.fv
<1> HIDE DEF args
<1>2. args \in Seq(Text) /\ \A i \in DOMAIN args : Separated(args[i])
  BY <1>1 DEF args
<1>3. args \in Seq(Text) /\ Len(args) \in Nat
      /\ \A i \in 1..Len(args) : args[i] \in Text /\ Separated(args[i])
  BY <1>2
<1> QED
  BY <1>3 DEF args

LEMMA AmongTexts ==
  ASSUME NEW k \in DOMAIN Lines, NEW l \in Lines[k], NEW forms, NEW w \in Among(forms, l)
  PROVE  w \in forms /\ w.text \in Text /\ Separated(w.text)
<1>1. w \in forms /\ \E i \in DOMAIN l.fv : l.fv[i] = w.text
  BY DEF Among
<1>2. DOMAIN l.fv = 1..Len(l.fv)
  BY LineTexts
<1> QED
  BY <1>1, <1>2, LineTexts, Zenon

\* The arguments of a line are some q, and the texts of c.
ChainStands(l, front, q, c) ==
  /\ \E S : front \in Seq(S)
  /\ q \in Nat /\ Len(front) = q
  /\ c \in [1..Len(l.fv) - q -> Among(ChainEntries, l)]
  /\ l.fv = front \o Texts(c)

LEMMA ChainIsRead ==
  ASSUME NEW k \in DOMAIN Lines, NEW l \in Lines[k], NEW front, NEW q, NEW c,
         ChainStands(l, front, q, c), NEW first, first = q + 1
  PROVE  /\ ChainRead(l.fv, first, Entries(c)) /\ Len(l.fv) >= q
         /\ \A i \in 1..q : l.fv[i] = front[i]
<1>0. PICK S : front \in Seq(S)
  BY DEF ChainStands
<1> DEFINE args == l.fv
           n == Len(args) - q
           A == Among(ChainEntries, l)
           g == Texts(c)
           e == Entries(c)
           T == S \union Text
<1>1. Len(args) \in Nat /\ n \in Int
  <2>1. Len(args) \in Nat /\ q \in Nat
    BY LineTexts DEF ChainStands
  <2> QED
    BY <2>1
<1>2. \A w \in A : w \in ChainEntries /\ w.text \in Text /\ Separated(w.text)
  BY AmongTexts
<1>3. c \in [1..n -> A] /\ args = front \o g /\ q \in Nat /\ Len(front) = q
  BY DEF ChainStands
<1> HIDE DEF args, A
<1>4. g \in [1..n -> Text] /\ \A i \in 1..n : g[i] = c[i].text
  BY <1>2, <1>3 DEF Texts
<1>5. e = [i \in 1..n |-> e[i]] /\ \A i \in 1..n : e[i] = c[i].entry
  BY <1>3 DEF Entries
<1> HIDE DEF g, e
<1>6. g \in [1..n -> T] /\ front \in Seq(T)
  <2>1. Text \subseteq T /\ S \subseteq T
    OBVIOUS
  <2> HIDE DEF T, n
  <2> QED
    BY <1>0, <1>4, <2>1
<1>7. n = Len(args) - Len(front)
  BY <1>3
<1> HIDE DEF n, T
<1>8. /\ n \in Nat /\ Len(args) = Len(front) + n /\ Len(front) \in Nat
      /\ \A i \in 1..Len(front) : args[i] = front[i]
      /\ \A j \in 1..n : args[Len(front) + j] = g[j]
  <2>1. /\ n \in Int /\ g \in [1..n -> T] /\ front \in Seq(T)
        /\ args = front \o g /\ n = Len(args) - Len(front)
    BY <1>1, <1>3, <1>6, <1>7
  <2> QED
    BY <2>1, BehindFront
<1>9. ASSUME NEW i \in 1..n PROVE EntryRead(args[first + i - 1], e[i])
  <2>1. first + i - 1 = Len(front) + i
    BY <1>3, <1>8
  <2>2. args[first + i - 1] = c[i].text /\ e[i] = c[i].entry
    BY <1>4, <1>5, <1>8, <2>1
  <2>3. c[i] \in A
    BY <1>3
  <2>4. EntryRead(c[i].text, c[i].entry)
    BY <1>2, <2>3, EntryIsRead
  <2> QED
    BY <2>2, <2>4
<1>10. Len(args) - first + 1 = n
  BY <1>1, <1>3, <1>7, <1>8
<1>11. ChainRead(args, first, e)
  BY <1>5, <1>9, <1>10 DEF ChainRead
<1>12. Len(args) >= q /\ \A i \in 1..q : args[i] = front[i]
  BY <1>3, <1>8
<1> QED
  BY <1>11, <1>12 DEF args, e

\* A host and a port that are an argument.
LEMMA AddressIsRead ==
  ASSUME NEW w \in HostPort, Separated(w.text)
  PROVE  /\ Reads(w.text, None, NoCreds, w.dest) /\ IsDest(w.dest)
         /\ w \in IpPort => w.dest.hostname = <<>>
BY HostPortRead, PlainReads DEF IsDest

LEMMA TunnelIsRead ==
  ASSUME NEW k \in DOMAIN Lines, NEW l \in Lines[k],
         NEW a \in Among(IpPort, l), NEW b \in Among(HostPort, l),
         NEW c \in [1..Len(l.fv) - 3 -> Among(ChainEntries, l)], l = TunnelLine(a, b, c)
  PROVE  TunnelRead(l.fv, The(l.meant))
<1> DEFINE front == <<Tunnel, a.text, b.text>>
           m == [type |-> "tunnel", listen |-> a.dest, destination |-> b.dest,
                 server |-> <<>>, chain |-> Entries(c)]
           S == {Tunnel, a.text, b.text}
<1>1. l.fv = front \o Texts(c) /\ The(l.meant) = m
  <2>1. l.fv = front \o Texts(c) /\ l.meant = {m}
    BY DEF TunnelLine
  <2> HIDE DEF m
  <2> QED
    BY <2>1 DEF The
<1>2. /\ a \in IpPort /\ a \in HostPort /\ Separated(a.text)
      /\ b \in HostPort /\ Separated(b.text)
  <2>1. IpPort \subseteq HostPort
    BY DEF HostPort
  <2> QED
    BY <2>1, AmongTexts
<1>3. /\ Reads(a.text, None, NoCreds, a.dest) /\ IsDest(a.dest) /\ a.dest.hostname = <<>>
      /\ Reads(b.text, None, NoCreds, b.dest) /\ IsDest(b.dest)
  BY <1>2, AddressIsRead
<1>4. front \in Seq(S) /\ Len(front) = 3
      /\ front[1] = Tunnel /\ front[2] = a.text /\ front[3] = b.text
  OBVIOUS
<1>5. /\ m.type = "tunnel" /\ m.listen = a.dest /\ m.destination = b.dest
      /\ m.server = <<>> /\ m.chain = Entries(c)
      /\ m = [type |-> m.type, listen |-> m.listen, destination |-> m.destination,
              server |-> m.server, chain |-> m.chain]
  OBVIOUS
<1> HIDE DEF front, m, S
<1>6. /\ ChainRead(l.fv, 4, Entries(c)) /\ Len(l.fv) >= 3
      /\ \A i \in 1..3 : l.fv[i] = front[i]
  <2> DEFINE q == 3
             first == 4
  <2>1. first = q + 1
    OBVIOUS
  <2>2. ChainStands(l, front, q, c)
    BY <1>1, <1>4 DEF ChainStands
  <2> HIDE DEF q, first
  <2>3. /\ ChainRead(l.fv, first, Entries(c)) /\ Len(l.fv) >= q
        /\ \A i \in 1..q : l.fv[i] = front[i]
    BY <2>1, <2>2, ChainIsRead
  <2> QED
    BY <2>3 DEF q, first
<1>7. l.fv[1] = Tunnel /\ l.fv[2] = a.text /\ l.fv[3] = b.text
  BY <1>4, <1>6
<1> QED
  BY <1>1, <1>3, <1>5, <1>6, <1>7 DEF TunnelRead

LEMMA ProxyIsRead ==
  ASSUME NEW k \in DOMAIN Lines, NEW l \in Lines[k], NEW type \in ServerTypes, NEW a \in IpPort,
         NEW c \in [1..Len(l.fv) - 2 -> Among(ChainEntries, l)], l = ProxyLine(type, a, c)
  PROVE  ProxyRead(l.fv, The(l.meant))
<1> DEFINE text == Typed(type, a)
           front == <<Proxy, text>>
           m == [type |-> "proxy", listen |-> a.dest, destination |-> NoDest,
                 server |-> type, chain |-> Entries(c)]
           S == {Proxy, text}
<1>1. l.fv = front \o Texts(c) /\ The(l.meant) = m
  <2>1. l.fv = front \o Texts(c) /\ l.meant = {m}
    BY DEF ProxyLine
  <2> HIDE DEF m
  <2> QED
    BY <2>1 DEF The
<1>2. a \in HostPort
  BY DEF HostPort
<1>3. front \in Seq(S) /\ Len(front) = 2 /\ front[1] = Proxy /\ front[2] = text
  OBVIOUS
<1>4. /\ m.type = "proxy" /\ m.listen = a.dest /\ m.destination = NoDest
      /\ m.server = type /\ m.chain = Entries(c)
      /\ m = [type |-> m.type, listen |-> m.listen, destination |-> m.destination,
              server |-> m.server, chain |-> m.chain]
  OBVIOUS
<1> HIDE DEF front, m, S, text
<1>5. /\ ChainRead(l.fv, 3, Entries(c)) /\ Len(l.fv) >= 2
      /\ \A i \in 1..2 : l.fv[i] = front[i]
  <2> DEFINE q == 2
             first == 3
  <2>1. first = q + 1
    OBVIOUS
  <2>2. ChainStands(l, front, q, c)
    BY <1>1, <1>3 DEF ChainStands
  <2> HIDE DEF q, first
  <2>3. /\ ChainRead(l.fv, first, Entries(c)) /\ Len(l.fv) >= q
        /\ \A i \in 1..q : l.fv[i] = front[i]
    BY <2>1, <2>2, ChainIsRead
  <2> QED
    BY <2>3 DEF q, first
<1>6. l.fv[1] = Proxy /\ l.fv[2] = text
  BY <1>3, <1>5
<1>7. text \in Text /\ Separated(text)
  <2>1. 2 \in 1..Len(l.fv)
    BY <1>5, LineTexts
  <2> QED
    BY <1>6, <2>1, LineTexts
<1>8. Reads(text, {type}, NoCreds, a.dest) /\ DestRead(a.text, a.dest)
  BY <1>2, <1>7, TypedIsRead DEF text
<1>9. IsDest(a.dest) /\ a.dest.hostname = <<>>
  <2>1. IsDest(a.dest)
    BY <1>8 DEF DestRead, IsDest, Dest
  <2>2. a.dest.hostname = <<>>
    <3>1. \/ \E q \in Address4, p \in PortNumber : a = QuadForm(q, p)
          \/ \E i \in Literals, p \in PortNumber : a = LiteralForm(i, p)
      BY DEF IpPort
    <3>2. \A q, p : QuadForm(q, p).dest.hostname = <<>>
      BY DEF QuadForm, Written, Dest
    <3>3. \A i, p : LiteralForm(i, p).dest.hostname = <<>>
      BY DEF LiteralForm, Written, Dest
    <3> QED
      BY <3>1, <3>2, <3>3, Zenon
  <2> QED
    BY <2>1, <2>2
<1> QED
  BY <1>1, <1>4, <1>5, <1>6, <1>8, <1>9 DEF ProxyRead

\* Every command line as the usage text has it is read as what it means.
LEMMA LineIsRead ==
  ASSUME NEW k \in DOMAIN Lines, NEW l \in Lines[k], l.meant # {}
  PROVE  LineRead(l)
<1>1. Documented(l)
  BY LinesAssumption
<1> QED
  BY <1>1, TunnelIsRead, ProxyIsRead, Zenon DEF Documented, LineRead

-----------------------------------------------------------------------------
(* config_from_cmdline makes of them what they mean.                        *)

\* What has been made of the arguments so far is what they mean.
FirstsMeant(m) ==
  /\ at <= 2 => cfg.server = <<>>
  /\ at > 2 => cfg.listen = m.listen /\ cfg.server = m.server

DestinationMeant(m) ==
  IF at > 3 /\ fv[1] = Tunnel THEN Used(cfg.destination) = m.destination
  ELSE cfg.destination = NoDest

ChainMeant(m) == \A i \in 1..Len(cfg.chain) : Plainly(cfg.chain[i]) = m.chain[i]

MeantSoFar == line.meant # {} => \E m \in {The(line.meant)} :
  /\ status \in {"reading", "running"}
  /\ FirstsMeant(m) /\ DestinationMeant(m) /\ ChainMeant(m)

\* The line of the state.
LEMMA StateLineRead ==
  ASSUME CmdInv, line.meant # {}
  PROVE  /\ LineRead(line) /\ fv = line.fv /\ fv \in Seq(Text) /\ Len(fv) \in Nat
         /\ fv[1] = Tunnel => TunnelRead(fv, The(line.meant)) /\ Chain0 = 4
         /\ fv[1] # Tunnel => ProxyRead(fv, The(line.meant)) /\ Chain0 = 3
<1>1. \E k \in DOMAIN Lines : line \in Lines[k]
  BY DEF CmdInv, TypeOK
<1>2. LineRead(line)
  BY <1>1, LineIsRead
<1>3. fv = line.fv /\ fv \in Seq(Text) /\ Len(fv) \in Nat
  BY <1>1, ArgumentsAreSeq DEF fv
<1>4. Tunnel # Proxy
  BY DEF Tunnel, Proxy
<1>5. /\ fv[1] = Tunnel => TunnelRead(fv, The(line.meant))
      /\ fv[1] # Tunnel => ProxyRead(fv, The(line.meant))
  BY <1>2, <1>3, <1>4 DEF LineRead, TunnelRead, ProxyRead
<1> QED
  BY <1>2, <1>3, <1>5 DEF Chain0

\* An argument that is read passes, and makes what it means.
Passes(u, s, c, d) ==
  /\ u.scheme = s /\ Credentials(u) = c
  /\ s # None => IsProxyInfo(u, TRUE, TRUE)
  /\ s # None /\ c = NoCreds => IsProxyInfo(u, TRUE, FALSE)
  /\ s = None /\ c = NoCreds => IsProxyInfo(u, FALSE, FALSE)
  /\ s = None /\ c = NoCreds /\ d.hostname = <<>> => IsEndpoint(u)
  /\ \A old : Used(Destination(u, old)) = d
  /\ d.hostname = <<>> =>
       u.host.kind # "name" /\ Endpoint(u) = d /\ (\A old : Destination(u, old) = d)

LEMMA ReadPasses ==
  ASSUME NEW text, NEW u, u = Parse[text], NEW s, NEW c, NEW d, Reads(text, s, c, d), IsDest(d)
  PROVE  Passes(u, s, c, d)
<1>1. /\ u.result = "ok" /\ u.scheme = s /\ u.path = <<>>
      /\ Credentials(u) = c /\ (c = NoCreds => u.user = None /\ u.pass = None)
      /\ HostMeans(u.host, d) /\ u.port = {d.port}
  BY DEF Reads
<1>2. d = Dest(d.ip, d.hostname, d.port)
  BY DEF IsDest
<1>3. /\ \A old : Used(Destination(u, old)) = d
      /\ d.hostname = <<>> =>
           u.host.kind # "name" /\ Endpoint(u) = d /\ (\A old : Destination(u, old) = d)
  BY <1>1, <1>2, MeansDestination
<1>4. u.port # None
  BY <1>1 DEF None
<1>5. /\ s # None => IsProxyInfo(u, TRUE, TRUE)
      /\ s # None /\ c = NoCreds => IsProxyInfo(u, TRUE, FALSE)
      /\ s = None /\ c = NoCreds => IsProxyInfo(u, FALSE, FALSE)
  BY <1>1, <1>4 DEF IsProxyInfo
<1>6. c = NoCreds /\ s = None /\ d.hostname = <<>> => IsEndpoint(u)
  BY <1>1, <1>3, <1>4 DEF IsEndpoint
<1> QED
  BY <1>1, <1>3, <1>5, <1>6 DEF Passes

\* Arguments that mean something are not refused, and parse() comes back.
LEMMA MeantByInType == ASSUME CmdInv, MeantSoFar, line.meant # {}, InType PROVE MeantSoFar'
<1> DEFINE m == The(line.meant)
<1>1. at = 1 /\ at' = 2 /\ fv' = fv /\ line' = line /\ status' = status
  BY DEF InType, fv
<1>2. cfg'.server = cfg.server /\ cfg'.destination = cfg.destination /\ cfg'.chain = cfg.chain
  BY DEF InType, CmdInv, CfgIsRecord
<1>3. status \in {"reading", "running"} /\ FirstsMeant(m) /\ DestinationMeant(m) /\ ChainMeant(m)
  BY DEF MeantSoFar
<1> HIDE DEF m
<1>4. FirstsMeant(m)' /\ DestinationMeant(m)' /\ ChainMeant(m)'
  BY <1>1, <1>2, <1>3 DEF FirstsMeant, DestinationMeant, ChainMeant, m
<1> QED
  BY <1>1, <1>3, <1>4 DEF MeantSoFar, m

LEMMA MeantByTunIn == ASSUME CmdInv, MeantSoFar, line.meant # {}, TunIn PROVE MeantSoFar'
<1> DEFINE m == The(line.meant)
<1>1. at = 2 /\ fv[1] = Tunnel
  BY DEF TunIn
<1>2. /\ IsDest(m.listen) /\ m.listen.hostname = <<>> /\ Reads(fv[2], None, NoCreds, m.listen)
      /\ m.server = <<>>
  BY <1>1, StateLineRead DEF TunnelRead
<1>3. status \in {"reading", "running"} /\ FirstsMeant(m) /\ DestinationMeant(m) /\ ChainMeant(m)
  BY DEF MeantSoFar
<1> HIDE DEF m
<1>4. PICK u : /\ u = Parse[fv[2]]
               /\ \/ ~IsEndpoint(u) /\ Refuse("error")
                  \/ /\ IsEndpoint(u)
                     /\ cfg' = [cfg EXCEPT !.listen = Endpoint(u)] /\ at' = 3
                     /\ UNCHANGED <<line, status, host, proxy_type_str, creds>>
  BY <1>1 DEF TunIn
<1>5. IsEndpoint(u) /\ Endpoint(u) = m.listen
  <2>1. u = Parse[fv[2]] /\ Reads(fv[2], None, NoCreds, m.listen) /\ IsDest(m.listen)
    BY <1>2, <1>4
  <2>2. Passes(u, None, NoCreds, m.listen)
    BY <2>1, ReadPasses, Zenon
  <2> QED
    BY <1>2, <2>2 DEF Passes
<1>6. /\ cfg' = [cfg EXCEPT !.listen = m.listen] /\ at' = 3
      /\ line' = line /\ status' = status /\ fv' = fv
  BY <1>4, <1>5 DEF fv
<1>7. /\ cfg'.listen = m.listen /\ cfg'.server = cfg.server
      /\ cfg'.destination = cfg.destination /\ cfg'.chain = cfg.chain
  BY <1>6 DEF CmdInv, CfgIsRecord
<1>8. FirstsMeant(m)' /\ DestinationMeant(m)' /\ ChainMeant(m)'
  BY <1>1, <1>2, <1>3, <1>6, <1>7 DEF FirstsMeant, DestinationMeant, ChainMeant, m
<1> QED
  BY <1>3, <1>6, <1>8 DEF MeantSoFar, m

LEMMA MeantByTunOut == ASSUME CmdInv, MeantSoFar, line.meant # {}, TunOut PROVE MeantSoFar'
<1> DEFINE m == The(line.meant)
<1>1. at = 3 /\ fv[1] = Tunnel
  BY DEF TunOut
<1>2. IsDest(m.destination) /\ Reads(fv[3], None, NoCreds, m.destination)
  BY <1>1, StateLineRead DEF TunnelRead
<1>3. status \in {"reading", "running"} /\ FirstsMeant(m) /\ DestinationMeant(m) /\ ChainMeant(m)
  BY DEF MeantSoFar
<1> HIDE DEF m
<1>4. PICK u : /\ u = Parse[fv[3]]
               /\ \/ ~IsProxyInfo(u, FALSE, FALSE) /\ Refuse("error")
                  \/ /\ cfg' = [cfg EXCEPT !.destination = Destination(u, @)] /\ at' = 4
                     /\ UNCHANGED <<line, status, host, proxy_type_str, creds>>
  BY <1>1 DEF TunOut
<1>5. IsProxyInfo(u, FALSE, FALSE) /\ \A old : Used(Destination(u, old)) = m.destination
  <2>1. u = Parse[fv[3]] /\ Reads(fv[3], None, NoCreds, m.destination) /\ IsDest(m.destination)
    BY <1>2, <1>4
  <2>2. Passes(u, None, NoCreds, m.destination)
    BY <2>1, ReadPasses, Zenon
  <2> QED
    BY <2>2 DEF Passes
<1>6. /\ cfg' = [cfg EXCEPT !.destination = Destination(u, @)] /\ at' = 4
      /\ line' = line /\ status' = status /\ fv' = fv
  BY <1>4, <1>5 DEF fv
<1>7. /\ cfg'.listen = cfg.listen /\ cfg'.server = cfg.server
      /\ cfg'.destination = Destination(u, cfg.destination) /\ cfg'.chain = cfg.chain
  BY <1>6 DEF CmdInv, CfgIsRecord
<1>8. FirstsMeant(m)' /\ DestinationMeant(m)' /\ ChainMeant(m)'
  BY <1>1, <1>3, <1>5, <1>6, <1>7 DEF FirstsMeant, DestinationMeant, ChainMeant, m
<1> QED
  BY <1>3, <1>6, <1>8 DEF MeantSoFar, m

LEMMA MeantByInProxy == ASSUME CmdInv, MeantSoFar, line.meant # {}, InProxy PROVE MeantSoFar'
<1> DEFINE m == The(line.meant)
<1>1. at = 2 /\ fv[1] = Proxy /\ fv[1] # Tunnel
  BY DEF InProxy, Proxy, Tunnel
<1>2. /\ IsDest(m.listen) /\ m.listen.hostname = <<>>
      /\ Reads(fv[2], {m.server}, NoCreds, m.listen) /\ m.server \in ServerTypes
  BY <1>1, StateLineRead DEF ProxyRead
<1>3. status \in {"reading", "running"} /\ FirstsMeant(m) /\ DestinationMeant(m) /\ ChainMeant(m)
  BY DEF MeantSoFar
<1> HIDE DEF m
<1>4. PICK u : /\ u = Parse[fv[2]]
               /\ \/ ~IsInProxy(u) /\ Refuse("error")
                  \/ /\ host' = Destination(u, host) /\ proxy_type_str' = The(u.scheme)
                     /\ cfg' = [cfg EXCEPT !.server = proxy_type_str', !.listen = host']
                     /\ at' = 3
                     /\ UNCHANGED <<line, status, creds>>
  BY <1>1 DEF InProxy
<1>5. IsInProxy(u) /\ The(u.scheme) = m.server /\ \A old : Destination(u, old) = m.listen
  <2> DEFINE s == {m.server}
  <2>1. u = Parse[fv[2]] /\ Reads(fv[2], s, NoCreds, m.listen) /\ IsDest(m.listen)
    BY <1>2, <1>4
  <2>2. s # None /\ The(s) = m.server
    BY DEF None, The
  <2> HIDE DEF s
  <2>4. /\ IsProxyInfo(u, TRUE, FALSE) /\ u.scheme = s
        /\ u.host.kind # "name" /\ \A old : Destination(u, old) = m.listen
    <3>1. Passes(u, s, NoCreds, m.listen)
      BY <2>1, ReadPasses, Zenon
    <3> QED
      BY <1>2, <2>2, <3>1 DEF Passes
  <2>3. The(u.scheme) = m.server
    BY <2>2, <2>4, Zenon
  <2> QED
    BY <1>2, <2>3, <2>4 DEF IsInProxy
<1>6. /\ cfg' = [cfg EXCEPT !.server = m.server, !.listen = m.listen] /\ at' = 3
      /\ line' = line /\ status' = status /\ fv' = fv
  BY <1>4, <1>5 DEF fv
<1>7. /\ cfg'.listen = m.listen /\ cfg'.server = m.server
      /\ cfg'.destination = cfg.destination /\ cfg'.chain = cfg.chain
  BY <1>6 DEF CmdInv, CfgIsRecord
<1>8. FirstsMeant(m)' /\ DestinationMeant(m)' /\ ChainMeant(m)'
  BY <1>1, <1>3, <1>6, <1>7 DEF FirstsMeant, DestinationMeant, ChainMeant, m
<1> QED
  BY <1>3, <1>6, <1>8 DEF MeantSoFar, m

LEMMA MeantByChain == ASSUME CmdInv, MeantSoFar, line.meant # {}, Chain PROVE MeantSoFar'
<1> DEFINE m == The(line.meant)
           n == at - Chain0 + 1
<1>1. /\ at > 1 /\ at >= Chain0 /\ at <= Len(fv) /\ at \in Nat /\ Len(fv) \in Nat
      /\ Chain0 \in {3, 4} /\ (fv[1] = Tunnel <=> Chain0 = 4)
  BY ArgumentsAreSeq DEF Chain, CmdInv, TypeOK, Chain0
<1>2. EntryRead(fv[at], m.chain[n])
  <2>1. ChainRead(fv, Chain0, m.chain)
    BY StateLineRead DEF TunnelRead, ProxyRead
  <2>2. n \in 1..Len(fv) - Chain0 + 1 /\ Chain0 + n - 1 = at
    BY <1>1
  <2> HIDE DEF m, n
  <2>3. EntryRead(fv[Chain0 + n - 1], m.chain[n])
    BY <2>1, <2>2 DEF ChainRead
  <2> QED
    BY <2>2, <2>3
<1>3. status \in {"reading", "running"} /\ FirstsMeant(m) /\ DestinationMeant(m) /\ ChainMeant(m)
  BY DEF MeantSoFar
<1> DEFINE w == m.chain[n]
<1>4. /\ w = [type |-> <<"socks5">>, address |-> w.address, creds |-> w.creds]
      /\ IsDest(w.address) /\ Reads(fv[at], {<<"socks5">>}, w.creds, w.address)
  BY <1>2 DEF EntryRead
<1>5. Len(cfg.chain) + 1 = n /\ Len(cfg.chain) \in Nat
  BY <1>1 DEF CmdInv, ChainSoFar, Entered
<1> HIDE DEF m, n
<1>6. PICK u : /\ u = Parse[fv[at]]
               /\ \/ ~IsChainEntry(u) /\ Refuse("error")
                  \/ /\ host' = Destination(u, host) /\ proxy_type_str' = The(u.scheme)
                     /\ creds' = Credentials(u)
                     /\ cfg' = [cfg EXCEPT !.chain = Append(@,
                          [type |-> proxy_type_str', address |-> host', creds |-> creds'])]
                     /\ at' = at + 1 /\ UNCHANGED <<line, status>>
  BY DEF Chain, TakeCredentials
<1> DEFINE e == [type |-> <<"socks5">>, address |-> Destination(u, host), creds |-> w.creds]
<1>7. /\ IsChainEntry(u) /\ The(u.scheme) = <<"socks5">> /\ Credentials(u) = w.creds
      /\ \A old : Used(Destination(u, old)) = w.address
  <2> HIDE DEF w
  <2> DEFINE s == {<<"socks5">>}
  <2>1. u = Parse[fv[at]] /\ Reads(fv[at], s, w.creds, w.address) /\ IsDest(w.address)
    BY <1>4, <1>6
  <2>2. s # None /\ The(s) = <<"socks5">>
    BY DEF None, The
  <2> HIDE DEF s
  <2>3. /\ IsProxyInfo(u, TRUE, TRUE) /\ u.scheme = s
        /\ Credentials(u) = w.creds /\ \A old : Used(Destination(u, old)) = w.address
    <3>1. Passes(u, s, w.creds, w.address)
      BY <2>1, ReadPasses, Zenon
    <3> QED
      BY <2>2, <3>1 DEF Passes
  <2>4. The(u.scheme) = <<"socks5">>
    BY <2>2, <2>3, Zenon
  <2> QED
    BY <2>3, <2>4 DEF IsChainEntry, ClientTypes
<1>8. Plainly(e) = w
  <2> HIDE DEF w
  <2>1. Plainly(e) = [type |-> <<"socks5">>, address |-> Used(Destination(u, host)),
                      creds |-> w.creds]
    BY DEF Plainly
  <2> QED
    BY <1>4, <1>7, <2>1
<1>9. /\ cfg' = [cfg EXCEPT !.chain = Append(@, e)] /\ at' = at + 1
      /\ line' = line /\ status' = status /\ fv' = fv
  <2> HIDE DEF w
  <2> QED
    BY <1>6, <1>7 DEF fv
<1> HIDE DEF e
<1>10. /\ cfg'.listen = cfg.listen /\ cfg'.server = cfg.server
       /\ cfg'.destination = cfg.destination /\ cfg'.chain = Append(cfg.chain, e)
  BY <1>9 DEF CmdInv, CfgIsRecord
<1>11. FirstsMeant(m)' /\ DestinationMeant(m)'
  BY <1>1, <1>3, <1>9, <1>10 DEF FirstsMeant, DestinationMeant, m
<1>12. ChainMeant(m)'
  <2>1. /\ Len(cfg'.chain) = n
        /\ \A i \in 1..Len(cfg.chain) : cfg'.chain[i] = cfg.chain[i]
        /\ cfg'.chain[n] = e
    <3>1. PICK S : cfg.chain \in Seq(S)
      BY DEF CmdInv, ChainIsSeq
    <3>2. /\ Len(Append(cfg.chain, e)) = Len(cfg.chain) + 1
          /\ \A i \in 1..Len(cfg.chain) : Append(cfg.chain, e)[i] = cfg.chain[i]
          /\ Append(cfg.chain, e)[Len(cfg.chain) + 1] = e
      BY <3>1, AppendOne
    <3> QED
      BY <1>5, <1>10, <3>2
  <2>2. \A i \in 1..Len(cfg'.chain) : i \in 1..Len(cfg.chain) \/ i = n
    BY <1>5, <2>1
  <2>3. \A i \in 1..Len(cfg'.chain) : Plainly(cfg'.chain[i]) = m.chain[i]
    <3>1. Plainly(cfg'.chain[n]) = m.chain[n]
      BY <1>8, <2>1
    <3>2. \A i \in 1..Len(cfg.chain) : Plainly(cfg'.chain[i]) = m.chain[i]
      BY <1>3, <2>1, Zenon DEF ChainMeant
    <3> QED
      BY <2>2, <3>1, <3>2, Zenon
  <2>4. m' = m
    BY <1>9 DEF m
  <2> QED
    BY <2>3, <2>4 DEF ChainMeant, Plainly, Used, UsingHostname
<1> QED
  BY <1>3, <1>9, <1>11, <1>12 DEF MeantSoFar, m

LEMMA MeantStays ==
  ASSUME MeantSoFar, line.meant # {}, UNCHANGED <<line, at, cfg>>, status' \in {"reading", "running"}
  PROVE  MeantSoFar'
<1> QED
  BY DEF MeantSoFar, FirstsMeant, DestinationMeant, ChainMeant, fv

LEMMA MeantNext == CmdInv /\ MeantSoFar /\ [Next]_vars => MeantSoFar'
<1> SUFFICES ASSUME CmdInv, MeantSoFar, [Next]_vars, line'.meant # {} PROVE MeantSoFar'
  BY DEF MeantSoFar
<1>1. line' = line
  BY DEF Next, Usage, UnknownInType, InType, TunIn, TunOut, InProxy, Chain, Run, Refuse, vars
<1>2. line.meant # {}
  BY <1>1
<1>3. /\ ~TooFew /\ fv[1] \in {Tunnel, Proxy}
  <2>1. /\ fv[1] = Tunnel => Len(fv) >= 3
        /\ fv[1] # Tunnel => Len(fv) >= 2 /\ fv[1] = Proxy
        /\ Len(fv) \in Nat
    BY <1>2, StateLineRead DEF TunnelRead, ProxyRead
  <2> QED
    BY <2>1 DEF TooFew
<1>4. ~Usage /\ ~UnknownInType
  BY <1>3 DEF Usage, UnknownInType
<1>5. CASE InType
  BY <1>2, <1>5, MeantByInType
<1>6. CASE TunIn
  BY <1>2, <1>6, MeantByTunIn
<1>7. CASE TunOut
  BY <1>2, <1>7, MeantByTunOut
<1>8. CASE InProxy
  BY <1>2, <1>8, MeantByInProxy
<1>9. CASE Chain
  BY <1>2, <1>9, MeantByChain
<1>10. CASE Run
  BY <1>2, <1>10, MeantStays DEF Run
<1>11. CASE UNCHANGED vars
  <2>1. status \in {"reading", "running"}
    BY <1>2 DEF MeantSoFar
  <2> QED
    BY <1>2, <1>11, <2>1, MeantStays DEF vars
<1> QED
  BY <1>4, <1>5, <1>6, <1>7, <1>8, <1>9, <1>10, <1>11 DEF Next

\* Every command line as the usage text (main.cpp:37-57) has it, credentials in
\* inProxy and names that begin with a dotted quad left out, with any
\* number of entries in its chain and any names, numbers and addresses in its
\* arguments, is accepted, and the configuration is what it means: neither the
\* parser nor config_from_cmdline refuses one or takes it for something else.
THEOREM DocumentedFormsAreAccepted == Spec => []DocumentedFormsAccepted
<1>1. Init => CmdInv /\ MeantSoFar
  <2> SUFFICES ASSUME Init PROVE MeantSoFar
    BY InitInv
  <2>1. at = 1 /\ status = "reading" /\ cfg.server = <<>> /\ cfg.destination = NoDest
        /\ Len(cfg.chain) = 0
    BY DEF Init, NoConfig
  <2> QED
    BY <2>1 DEF MeantSoFar, FirstsMeant, DestinationMeant, ChainMeant
<1>2. CmdInv /\ MeantSoFar /\ [Next]_vars => (CmdInv /\ MeantSoFar)'
  BY NextInv, MeantNext
<1>3. CmdInv /\ MeantSoFar => DocumentedFormsAccepted
  <2> SUFFICES ASSUME CmdInv, MeantSoFar, line.meant # {}
               PROVE  /\ status \in {"reading", "running"}
                      /\ status = "running" => Meaning = The(line.meant)
    BY DEF DocumentedFormsAccepted
  <2> DEFINE m == The(line.meant)
  <2>1. status \in {"reading", "running"} /\ FirstsMeant(m) /\ DestinationMeant(m) /\ ChainMeant(m)
    BY DEF MeantSoFar
  <2>2. ASSUME status = "running" PROVE Meaning = m
    <3>1. /\ at > 1 /\ at >= Chain0 /\ at = Len(fv) + 1 /\ Len(fv) \in Nat
          /\ Chain0 \in {3, 4} /\ (fv[1] = Tunnel <=> Chain0 = 4)
      BY <2>2, StateLineRead DEF CmdInv, AllLookedAt, Chain0
    <3>2. /\ m = [type |-> m.type, listen |-> m.listen, destination |-> m.destination,
                  server |-> m.server, chain |-> m.chain]
          /\ ChainRead(fv, Chain0, m.chain)
          /\ m.type = IF fv[1] = Tunnel THEN "tunnel" ELSE "proxy"
          /\ fv[1] # Tunnel => fv[1] = Proxy /\ m.destination = NoDest
      BY StateLineRead DEF TunnelRead, ProxyRead
    <3> HIDE DEF m
    <3>3. cfg.type = m.type
      BY <3>1, <3>2 DEF CmdInv, TypeIsFirst, Tunnel, Proxy
    <3>4. cfg.listen = m.listen /\ cfg.server = m.server
      BY <2>1, <3>1 DEF FirstsMeant
    <3>5. Used(cfg.destination) = m.destination
      <4>1. CASE fv[1] = Tunnel
        BY <2>1, <3>1, <4>1 DEF DestinationMeant
      <4>2. CASE fv[1] # Tunnel
        <5>1. Used(NoDest) = NoDest
          BY DEF Used, UsingHostname, NoDest
        <5> QED
          BY <2>1, <3>2, <4>2, <5>1 DEF DestinationMeant
      <4> QED
        BY <4>1, <4>2
    <3>6. [i \in DOMAIN cfg.chain |-> Plainly(cfg.chain[i])] = m.chain
      <4>1. Len(cfg.chain) = Len(fv) - Chain0 + 1
        BY <3>1 DEF CmdInv, ChainSoFar, Entered
      <4>2. DOMAIN cfg.chain = 1..Len(cfg.chain)
        BY DEF CmdInv, ChainIsSeq
      <4>3. m.chain = [i \in 1..Len(fv) - Chain0 + 1 |-> m.chain[i]]
        BY <3>2 DEF ChainRead
      <4>4. \A i \in DOMAIN cfg.chain : Plainly(cfg.chain[i]) = m.chain[i]
        BY <2>1, <4>2 DEF ChainMeant
      <4> QED
        BY <4>1, <4>2, <4>3, <4>4
    <3> DEFINE d == Used(cfg.destination)
               c == [i \in DOMAIN cfg.chain |-> Plainly(cfg.chain[i])]
    <3>7. Meaning = [cfg EXCEPT !.destination = d, !.chain = c]
      BY Zenon DEF Meaning
    <3> HIDE DEF d, c
    <3>8. Meaning = [type |-> cfg.type, listen |-> cfg.listen, destination |-> d,
                     server |-> cfg.server, chain |-> c]
      BY <3>7 DEF CmdInv, CfgIsRecord
    <3>9. d = m.destination /\ c = m.chain
      BY <3>5, <3>6 DEF d, c
    <3> QED
      BY <3>2, <3>3, <3>4, <3>8, <3>9
  <2> QED
    BY <2>1, <2>2
<1> QED
  BY <1>1, <1>2, <1>3, PTL DEF Spec

=============================================================================
