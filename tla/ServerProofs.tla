----------------------------- MODULE ServerProofs ----------------------------
(* The numbers, the log and the sessions of Server, for any set of clients, *)
(* of places in memory and of destinations.                                 *)
EXTENDS Server, FiniteSetTheorems, TLAPS

-----------------------------------------------------------------------------
(* Natural numbers and sequences.                                           *)

\* A set of natural numbers that is not empty has a least element: the sets
\* 0..n, being finite, are well-founded under strict inclusion.
LEMMA LeastNumber ==
  ASSUME NEW T \in SUBSET Nat, T # {}
  PROVE  \E n \in T : \A m \in T : n <= m
<1> DEFINE Segments == {0..n : n \in T}
<1>1. Segments \subseteq FiniteSubsetsOf(Nat)
  <2> SUFFICES ASSUME NEW n \in T PROVE 0..n \in FiniteSubsetsOf(Nat)
    OBVIOUS
  <2>1. IsFiniteSet(0..n)
    BY FS_Interval
  <2> QED
    BY <2>1 DEF FiniteSubsetsOf
<1>2. Segments # {}
  OBVIOUS
<1>3. PICK X \in Segments : \A Y \in Segments : ~ (<<Y, X>> \in StrictSubsetOrdering(Nat))
  <2> HIDE DEF Segments
  <2> QED
    BY <1>1, <1>2, FS_StrictSubsetOrderingWellFounded, WFMin
<1>4. PICK n \in T : X = 0..n
  OBVIOUS
<1>5. ASSUME NEW m \in T, m < n PROVE FALSE
  <2>1. 0..m \subseteq X /\ 0..m # X
    BY <1>4, <1>5
  <2>2. 0..m \in Segments /\ 0..m \subseteq Nat /\ X \subseteq Nat
    BY <1>4
  <2> QED
    BY <2>1, <2>2, <1>3 DEF StrictSubsetOrdering
<1> QED
  BY <1>5

\* Taking one element out of a sequence keeps the others in their order.
LEMMA WithoutOne ==
  ASSUME NEW S, NEW t \in Seq(S), NEW i \in DOMAIN t
  PROVE  /\ Without(t, i) \in Seq(S)
         /\ DOMAIN Without(t, i) = 1..Len(t) - 1
         /\ \A j \in 1..Len(t) - 1 :
              Without(t, i)[j] = IF j < i THEN t[j] ELSE t[j + 1]
<1> DEFINE a == SubSeq(t, 1, i - 1)
           b == SubSeq(t, i + 1, Len(t))
<1>1. i \in 1..Len(t) /\ Len(t) \in Nat
  OBVIOUS
<1>2. a \in Seq(S) /\ Len(a) = i - 1 /\ \A j \in 1..i - 1 : a[j] = t[j]
  BY <1>1
<1>3. b \in Seq(S) /\ Len(b) = Len(t) - i /\ \A j \in 1..Len(t) - i : b[j] = t[i + j]
  BY <1>1
<1>4. a \o b \in Seq(S) /\ Len(a \o b) = Len(t) - 1
  <2> HIDE DEF a, b
  <2> QED
    BY <1>1, <1>2, <1>3
<1>5. ASSUME NEW j \in 1..Len(t) - 1
      PROVE  (a \o b)[j] = IF j < i THEN t[j] ELSE t[j + 1]
  <2>1. (a \o b)[j] = IF j <= Len(a) THEN a[j] ELSE b[j - Len(a)]
    <3> HIDE DEF a, b
    <3> QED
      BY <1>1, <1>2, <1>3
  <2>2. CASE j < i
    <3> HIDE DEF a, b
    <3> QED
      BY <2>1, <2>2, <1>1, <1>2
  <2>3. CASE j >= i
    <3>1. b[j - (i - 1)] = t[j + 1]
      <4>1. j - (i - 1) \in 1..Len(t) - i /\ i + (j - (i - 1)) = j + 1
        BY <2>3, <1>1
      <4> HIDE DEF a, b
      <4> QED
        BY <4>1, <1>3
    <3> HIDE DEF a, b
    <3> QED
      BY <2>1, <2>3, <3>1, <1>1, <1>2
  <2>4. j < i \/ j >= i
    BY <1>1
  <2> HIDE DEF a, b
  <2> QED
    BY <2>2, <2>3, <2>4
<1>6. Without(t, i) = a \o b
  BY DEF Without
<1> HIDE DEF a, b
<1>7. DOMAIN (a \o b) = 1..Len(t) - 1
  BY <1>4
<1> QED
  BY <1>4, <1>5, <1>6, <1>7

-----------------------------------------------------------------------------
(* The table of numbers.                                                    *)

\* A sequence has no more different elements than its length, so that one of
\* the numbers 0..Len(t) is free.
LEMMA SomeNumberFree ==
  ASSUME NEW t \in Seq(Nat)
  PROVE  \E n \in 0..Len(t) : n \notin Used(t)
<1> SUFFICES ASSUME \A n \in 0..Len(t) : n \in Used(t) PROVE FALSE
  OBVIOUS
<1>1. Len(t) \in Nat
  OBVIOUS
<1> DEFINE place == [n \in 0..Len(t) |-> CHOOSE i \in 1..Len(t) : t[i] = n]
<1>2. \A n \in 0..Len(t) : place[n] \in 1..Len(t) /\ t[place[n]] = n
  <2> SUFFICES ASSUME NEW n \in 0..Len(t)
               PROVE  place[n] \in 1..Len(t) /\ t[place[n]] = n
    OBVIOUS
  <2>1. \E i \in 1..Len(t) : t[i] = n
    BY DEF Used
  <2> QED
    BY <2>1
<1>3. IsFiniteSet(0..Len(t)) /\ Cardinality(0..Len(t)) = Len(t) + 1
  BY <1>1, FS_Interval
<1>4. IsFiniteSet(1..Len(t)) /\ Cardinality(1..Len(t)) = Len(t)
  <2>1. Cardinality(1..Len(t)) = IF 1 > Len(t) THEN 0 ELSE Len(t) - 1 + 1
    BY <1>1, FS_Interval
  <2>2. IsFiniteSet(1..Len(t))
    BY <1>1, FS_Interval
  <2> QED
    BY <1>1, <2>1, <2>2
<1>5. place \in [0..Len(t) -> 1..Len(t)]
  BY <1>2
<1>6. PICK x, y \in 0..Len(t) : x # y /\ place[x] = place[y]
  <2> HIDE DEF place
  <2>1. Cardinality(1..Len(t)) < Cardinality(0..Len(t))
    BY <1>1, <1>3, <1>4
  <2> QED
    BY <2>1, <1>3, <1>4, <1>5, FS_PigeonHole
<1> HIDE DEF place
<1> QED
  BY <1>2, <1>6

\* alloc() returns a number that is not in the table.
LEMMA AllocIsFree ==
  ASSUME NEW t \in Seq(Nat)
  PROVE  Alloc(t) \in Nat /\ Alloc(t) \notin Used(t)
<1> DEFINE T == {n \in 0..Len(t) : n \notin Used(t)}
<1>1. Len(t) \in Nat /\ T \subseteq Nat /\ T # {}
  BY SomeNumberFree
<1>2. PICK n \in T : \A m \in T : n <= m
  <2> HIDE DEF T
  <2> QED
    BY <1>1, LeastNumber
<1>3. n \in 0..Len(t) /\ n \notin Used(t) /\ \A m \in 0..n-1 : m \in Used(t)
  BY <1>1, <1>2
<1> QED
  BY <1>1, <1>3 DEF Alloc

\* What the invariant says of a table without regard to the sessions.
NoRepeats(t) == \A i, j \in DOMAIN t : t[i] = t[j] => i = j

LEMMA AppendNew ==
  ASSUME NEW S, NEW t \in Seq(S), NEW n \in S, n \notin Used(t), NoRepeats(t)
  PROVE  /\ Append(t, n) \in Seq(S)
         /\ Used(Append(t, n)) = Used(t) \union {n}
         /\ NoRepeats(Append(t, n))
<1>1. Len(t) \in Nat /\ DOMAIN t = 1..Len(t) /\ DOMAIN Append(t, n) = 1..Len(t) + 1
  OBVIOUS
<1>2. Append(t, n)[Len(t) + 1] = n /\ \A i \in 1..Len(t) : Append(t, n)[i] = t[i]
  BY <1>1
<1>3. Used(Append(t, n)) = Used(t) \union {n}
  <2>1. 1..Len(t) + 1 = (1..Len(t)) \union {Len(t) + 1}
    BY <1>1
  <2> QED
    BY <1>1, <1>2, <2>1 DEF Used
<1>4. NoRepeats(Append(t, n))
  <2> SUFFICES ASSUME NEW i \in 1..Len(t) + 1, NEW j \in 1..Len(t) + 1,
                      Append(t, n)[i] = Append(t, n)[j], i < j
               PROVE  FALSE
    BY <1>1 DEF NoRepeats
  <2>1. i \in 1..Len(t) /\ Append(t, n)[i] = t[i]
    BY <1>1, <1>2
  <2>2. CASE j \in 1..Len(t)
    <3>1. t[i] = t[j]
      BY <1>2, <2>1, <2>2
    <3> QED
      BY <1>1, <2>1, <2>2, <3>1 DEF NoRepeats
  <2>3. CASE j = Len(t) + 1
    BY <1>1, <1>2, <2>1, <2>3 DEF Used
  <2> QED
    BY <1>1, <2>2, <2>3
<1> QED
  BY <1>3, <1>4

LEMMA WithoutIt ==
  ASSUME NEW S, NEW t \in Seq(S), NEW i \in DOMAIN t, NoRepeats(t)
  PROVE  /\ Without(t, i) \in Seq(S)
         /\ Used(Without(t, i)) = Used(t) \ {t[i]}
         /\ NoRepeats(Without(t, i))
<1> DEFINE w == Without(t, i)
           old(j) == IF j < i THEN j ELSE j + 1
<1>1. Len(t) \in Nat /\ i \in 1..Len(t) /\ DOMAIN t = 1..Len(t)
  OBVIOUS
<1>2. w \in Seq(S) /\ DOMAIN w = 1..Len(t) - 1
  BY WithoutOne
<1>3. \A j \in 1..Len(t) - 1 : w[j] = t[old(j)] /\ old(j) \in 1..Len(t) /\ old(j) # i
  BY WithoutOne, <1>1
<1>4. \A k \in 1..Len(t) : k # i => \E j \in 1..Len(t) - 1 : old(j) = k
  <2> SUFFICES ASSUME NEW k \in 1..Len(t), k # i
               PROVE  \E j \in 1..Len(t) - 1 : old(j) = k
    OBVIOUS
  <2>1. CASE k < i
    <3>1. k \in 1..Len(t) - 1 /\ old(k) = k
      BY <1>1, <2>1
    <3> QED
      BY <3>1
  <2>2. CASE k > i
    <3>1. k - 1 \in 1..Len(t) - 1 /\ old(k - 1) = k
      BY <1>1, <2>2
    <3> QED
      BY <3>1
  <2> QED
    BY <1>1, <2>1, <2>2
<1>5. \A j, k \in 1..Len(t) - 1 : old(j) = old(k) => j = k
  BY <1>1
<1> HIDE DEF w, old
<1>6. Used(w) = Used(t) \ {t[i]}
  <2>1. ASSUME NEW j \in 1..Len(t) - 1 PROVE w[j] \in Used(t) \ {t[i]}
    BY <1>1, <1>3, <2>1 DEF NoRepeats, Used
  <2>2. ASSUME NEW k \in 1..Len(t), t[k] # t[i] PROVE t[k] \in Used(w)
    BY <1>1, <1>2, <1>3, <1>4, <2>2 DEF Used
  <2> QED
    BY <1>1, <1>2, <2>1, <2>2 DEF Used
<1>7. NoRepeats(w)
  BY <1>1, <1>2, <1>3, <1>5 DEF NoRepeats
<1> QED
  BY <1>2, <1>6, <1>7 DEF w

\* free() takes out a number that is there.
LEMMA FreeTakesOut ==
  ASSUME NEW t \in Seq(Nat), NoRepeats(t), NEW n \in Used(t)
  PROVE  /\ Free(t, n) \in Seq(Nat)
         /\ Used(Free(t, n)) = Used(t) \ {n}
         /\ NoRepeats(Free(t, n))
<1> DEFINE First(j) == t[j] = n /\ \A k \in 1..j-1 : t[k] # n
<1>1. PICK i \in DOMAIN t : t[i] = n
  BY DEF Used
<1>2. Len(t) \in Nat /\ DOMAIN t = 1..Len(t)
  OBVIOUS
<1>3. First(i)
  BY <1>1, <1>2 DEF NoRepeats
<1>4. (CHOOSE j \in DOMAIN t : First(j)) \in DOMAIN t /\ t[CHOOSE j \in DOMAIN t : First(j)] = n
  BY <1>1, <1>3
<1>5. Free(t, n) = Without(t, CHOOSE j \in DOMAIN t : First(j))
  BY DEF Free
<1> DEFINE i0 == CHOOSE j \in DOMAIN t : First(j)
<1> HIDE DEF i0
<1>6. i0 \in DOMAIN t /\ t[i0] = n /\ Free(t, n) = Without(t, i0)
  BY <1>4, <1>5 DEF i0
<1> QED
  BY <1>6, WithoutIt

-----------------------------------------------------------------------------
(* The invariant.                                                           *)

LEMMA InitInv == Init => ServerInv
<1> SUFFICES ASSUME Init PROVE ServerInv
  OBVIOUS
<1>1. TypeOK
  BY DEF Init, TypeOK
<1>2. Held /\ Peers /\ Queue /\ LogTellsHistory
  BY DEF Init, Held, Peers, Queue, LogTellsHistory
<1>3. NumbersDistinct /\ \A s \in live : uid[s] \in Nat
  BY DEF Init, NumbersDistinct, Used
<1> QED
  BY <1>1, <1>2, <1>3 DEF ServerInv

\* do_accept(): the new object is a free one with a number of its own; the
\* objects that are left are it and those that the handlers keep.
LEMMA DoAcceptInv ==
  ASSUME ServerInv, NEW kept, handlers \subseteq kept, kept \subseteq live, DoAccept(kept)
  PROVE  /\ sess_sptr' \in Slot /\ sess_sptr' \notin live /\ accept' = "pending"
         /\ live' = kept \union {sess_sptr'} /\ live' \subseteq Slot
         /\ uid' \in [Slot -> Nat \union {None}] /\ table' \in Seq(Nat)
         /\ NumbersDistinct' /\ (\A s \in live' : uid'[s] \in Nat)
<1> DEFINE s == sess_sptr'
           old == {sess_sptr} \ (kept \union {None})
           n == Alloc(table)
           taken == Append(table, n)
<1>1. s \in Slot /\ s \notin live /\ s = FreeSlot
  BY DEF DoAccept, FreeSlot, ServerInv, TypeOK
<1>2. /\ table \in Seq(Nat) /\ NoRepeats(table) /\ Used(table) = {uid[t] : t \in live}
      /\ live \subseteq Slot /\ uid \in [Slot -> Nat \union {None}]
      /\ \A t \in live : uid[t] \in Nat
      /\ \A t, u \in live : uid[t] = uid[u] => t = u
  BY DEF ServerInv, TypeOK, NumbersDistinct, NoRepeats
<1>3. n \in Nat /\ n \notin Used(table)
  BY <1>2, AllocIsFree
<1>4. taken \in Seq(Nat) /\ Used(taken) = Used(table) \union {n} /\ NoRepeats(taken)
  <2>1. ASSUME NEW m \in Nat, m \notin Used(table)
        PROVE  /\ Append(table, m) \in Seq(Nat)
               /\ Used(Append(table, m)) = Used(table) \union {m}
               /\ NoRepeats(Append(table, m))
    BY <1>2, <2>1, AppendNew
  <2> QED
    BY <1>3, <2>1
<1>5. /\ live' = (live \union {s}) \ old
      /\ uid' = [t \in Slot |-> IF t = s THEN n ELSE IF t \in old THEN None ELSE uid[t]]
      /\ table' = IF old = {} THEN taken ELSE Free(taken, uid[sess_sptr])
      /\ accept' = "pending"
  BY <1>1 DEF DoAccept
<1> HIDE DEF n, taken
<1>6. live = handlers \union ({sess_sptr} \ {None})
  BY DEF ServerInv, Held
<1>7. live' = kept \union {s}
  BY <1>1, <1>5, <1>6
<1>8. live' \subseteq Slot /\ uid' \in [Slot -> Nat \union {None}]
  BY <1>1, <1>2, <1>3, <1>5, <1>7
<1>9. uid'[s] = n /\ \A t \in kept : uid'[t] = uid[t] /\ t \in live /\ t # s
  BY <1>1, <1>2, <1>5
<1>10. /\ \A t \in live' : uid'[t] \in Nat
       /\ \A t, u \in live' : uid'[t] = uid'[u] => t = u
  BY <1>2, <1>3, <1>7, <1>9
<1>11. {uid'[t] : t \in live'} = {uid[t] : t \in kept} \union {n}
  BY <1>7, <1>9
<1>12. table' \in Seq(Nat) /\ NoRepeats(table') /\ Used(table') = {uid'[t] : t \in live'}
  <2>1. CASE old = {}
    <3>1. live = kept
      BY <1>6, <2>1
    <3> QED
      BY <1>2, <1>4, <1>5, <1>11, <2>1, <3>1
  <2>2. CASE old # {}
    <3>1. sess_sptr \in live /\ live = kept \union {sess_sptr} /\ sess_sptr \notin kept
      BY <1>6, <2>2
    <3>2. uid[sess_sptr] \in Used(taken) /\ uid[sess_sptr] # n
      BY <1>2, <1>3, <1>4, <3>1
    <3>3. /\ table' \in Seq(Nat) /\ NoRepeats(table')
          /\ Used(table') = Used(taken) \ {uid[sess_sptr]}
      BY <1>4, <1>5, <2>2, <3>2, FreeTakesOut
    <3>4. Used(table) \ {uid[sess_sptr]} = {uid[t] : t \in kept}
      BY <1>2, <3>1
    <3> QED
      BY <1>4, <1>11, <3>2, <3>3, <3>4
  <2> QED
    BY <2>1, <2>2
<1>13. NumbersDistinct'
  BY <1>10, <1>12 DEF NumbersDistinct, NoRepeats
<1> QED
  BY <1>1, <1>5, <1>7, <1>8, <1>10, <1>12, <1>13

\* What do_accept() leaves alone keeps the rest of the invariant, when the
\* handlers keep just the sessions whose accept has completed.
LEMMA AcceptNextInv ==
  ASSUME ServerInv, NEW kept, handlers \subseteq kept, kept \subseteq live, DoAccept(kept),
         handlers' = kept, busy' \subseteq kept, peer' = peer, client' = client,
         backlog' = backlog, acpt' = acpt, UNCHANGED sharedVars,
         \A s \in Slot : s \in kept <=> s \in handlers \/ (s = sess_sptr /\ accept = "ok")
  PROVE  ServerInv'
<1>1. /\ sess_sptr' \in Slot /\ sess_sptr' \notin live /\ accept' = "pending"
      /\ live' = kept \union {sess_sptr'} /\ live' \subseteq Slot
      /\ uid' \in [Slot -> Nat \union {None}] /\ table' \in Seq(Nat)
      /\ NumbersDistinct' /\ (\A s \in live' : uid'[s] \in Nat)
  BY DoAcceptInv
<1>2. TypeOK'
  BY <1>1 DEF ServerInv, TypeOK, sharedVars
<1>3. Held'
  BY <1>1, ServerAssumption DEF ServerInv, Held
<1>4. Peers'
  BY <1>1 DEF ServerInv, Peers
<1>5. Queue'
  BY DEF ServerInv, Queue
<1>6. LogTellsHistory'
  BY DEF ServerInv, LogTellsHistory, sharedVars
<1> QED
  BY <1>1, <1>2, <1>3, <1>4, <1>5, <1>6 DEF ServerInv

\* A step that makes and destroys no session leaves the numbers alone.
LEMMA SameNumbers ==
  ASSUME ServerInv, live' = live, uid' = uid, table' = table
  PROVE  NumbersDistinct' /\ \A s \in live' : uid'[s] \in Nat
<1>1. NumbersDistinct' <=> NumbersDistinct
  BY DEF NumbersDistinct, Used
<1>2. (\A s \in live' : uid'[s] \in Nat) <=> (\A s \in live : uid[s] \in Nat)
  OBVIOUS
<1> QED
  BY <1>1, <1>2 DEF ServerInv

LEMMA OpenInv == ServerInv /\ (Open \/ OpenFails) => ServerInv'
<1> SUFFICES ASSUME ServerInv, Open \/ OpenFails PROVE ServerInv'
  OBVIOUS
<1>1. /\ acpt' \in {"new", "listening", "closed"}
      /\ UNCHANGED <<accept, sess_sptr, sessionVars, clientVars, sharedVars>>
  BY DEF Open, OpenFails
<1>2. TypeOK' /\ Held'
  BY <1>1 DEF ServerInv, TypeOK, Held, sessionVars, clientVars, sharedVars
<1>3. NumbersDistinct' /\ (\A s \in live' : uid'[s] \in Nat)
  BY <1>1, SameNumbers DEF sessionVars
<1>4. Peers' /\ Queue' /\ LogTellsHistory'
  BY <1>1 DEF ServerInv, Peers, Queue, LogTellsHistory, sessionVars, clientVars, sharedVars
<1> QED
  BY <1>2, <1>3, <1>4 DEF ServerInv

LEMMA StartInv == ServerInv /\ (Start \/ HandleAcceptFailed) => ServerInv'
<1> SUFFICES ASSUME ServerInv, Start \/ HandleAcceptFailed PROVE ServerInv'
  OBVIOUS
<1>1. /\ accept # "ok" /\ DoAccept(handlers)
      /\ UNCHANGED <<acpt, handlers, busy, peer, clientVars, sharedVars>>
  BY DEF Start, HandleAcceptFailed, ServerInv, Held
<1>2. handlers \subseteq live /\ busy \subseteq handlers
  BY DEF ServerInv, TypeOK
<1> QED
  BY <1>1, <1>2, AcceptNextInv DEF clientVars

LEMMA HandleAcceptedInv == ServerInv /\ HandleAccepted => ServerInv'
<1> SUFFICES ASSUME ServerInv, HandleAccepted PROVE ServerInv'
  OBVIOUS
<1> DEFINE kept == handlers \union {sess_sptr}
<1>1. /\ accept = "ok" /\ handlers' = kept /\ busy' = busy \union {sess_sptr} /\ DoAccept(kept)
      /\ UNCHANGED <<acpt, peer, clientVars, sharedVars>>
  BY DEF HandleAccepted
<1>2. sess_sptr \in live /\ handlers \subseteq live /\ busy \subseteq handlers
  BY <1>1 DEF ServerInv, TypeOK, Held
<1>3. handlers \subseteq kept /\ kept \subseteq live /\ busy' \subseteq kept
  BY <1>1, <1>2
<1>4. \A s \in Slot : s \in kept <=> s \in handlers \/ (s = sess_sptr /\ accept = "ok")
  BY <1>1
<1> HIDE DEF kept
<1> QED
  BY <1>1, <1>3, <1>4, AcceptNextInv DEF clientVars

LEMMA ReachesInv ==
  ASSUME ServerInv, NEW s \in Slot, NEW d \in Dest, Reaches(s, d)
  PROVE  ServerInv'
<1>1. /\ busy' = busy \ {s} /\ reached' = reached \union {d}
      /\ UNCHANGED <<acceptVars, handlers, live, uid, table, peer, clientVars, logging>>
  BY DEF Reaches
<1>2. /\ history \subseteq Dest /\ reached \subseteq Dest /\ log \in Seq(Dest)
      /\ history = reached /\ logging \in BOOLEAN
      /\ NoRepeats(log) /\ Used(log) = IF logging THEN history ELSE {}
  BY DEF ServerInv, TypeOK, LogTellsHistory, NoRepeats, Used
<1>3. /\ history' = reached' /\ history' \subseteq Dest /\ log' \in Seq(Dest)
      /\ NoRepeats(log') /\ Used(log') = IF logging THEN history' ELSE {}
  <2>1. CASE d \in history
    BY <1>1, <1>2, <2>1 DEF Reaches
  <2>2. CASE d \notin history
    <3>1. history' = history \union {d} /\ log' = IF logging THEN Append(log, d) ELSE log
      BY <2>2 DEF Reaches
    <3>2. CASE logging
      <4>1. Append(log, d) \in Seq(Dest) /\ Used(Append(log, d)) = Used(log) \union {d}
            /\ NoRepeats(Append(log, d))
        BY <1>2, <2>2, <3>2, AppendNew
      <4> QED
        BY <1>1, <1>2, <3>1, <3>2, <4>1
    <3>3. CASE ~ logging
      BY <1>1, <1>2, <3>1, <3>3
    <3> QED
      BY <3>2, <3>3
  <2> QED
    BY <2>1, <2>2
<1>4. LogTellsHistory'
  BY <1>1, <1>3 DEF LogTellsHistory, NoRepeats, Used
<1>5. TypeOK' /\ Held'
  BY <1>1, <1>2, <1>3 DEF ServerInv, TypeOK, Held, acceptVars, clientVars
<1>6. NumbersDistinct' /\ (\A t \in live' : uid'[t] \in Nat)
  BY <1>1, SameNumbers
<1>7. Peers' /\ Queue'
  BY <1>1 DEF ServerInv, Peers, Queue, acceptVars, clientVars
<1> QED
  BY <1>4, <1>5, <1>6, <1>7 DEF ServerInv

LEMMA EndsInv ==
  ASSUME ServerInv, NEW s \in Slot, Ends(s)
  PROVE  ServerInv'
<1>1. /\ s \in handlers /\ s \in live /\ s # sess_sptr
      /\ live \subseteq Slot /\ handlers \subseteq live /\ busy \subseteq handlers
  BY DEF Ends, ServerInv, TypeOK, Held
<1>2. /\ handlers' = handlers \ {s} /\ busy' = busy \ {s} /\ live' = live \ {s}
      /\ table' = Free(table, uid[s]) /\ uid' = [uid EXCEPT ![s] = None]
      /\ peer' = [peer EXCEPT ![s] = None] /\ client' = [client EXCEPT ![peer[s]] = "done"]
      /\ UNCHANGED <<acceptVars, backlog, sharedVars>>
  BY DEF Ends
<1>3. /\ peer \in [Slot -> Client \union {None}] /\ peer[s] \in Client
      /\ client[peer[s]] = "accepted"
      /\ \A t \in Slot : t # s => peer[t] # peer[s]
  BY <1>1 DEF ServerInv, TypeOK, Peers
<1>4. /\ table \in Seq(Nat) /\ NoRepeats(table) /\ Used(table) = {uid[t] : t \in live}
      /\ uid \in [Slot -> Nat \union {None}] /\ \A t \in live : uid[t] \in Nat
      /\ \A t, u \in live : uid[t] = uid[u] => t = u
  BY DEF ServerInv, TypeOK, NumbersDistinct, NoRepeats
<1>5. /\ table' \in Seq(Nat) /\ NoRepeats(table') /\ Used(table') = Used(table) \ {uid[s]}
  BY <1>1, <1>2, <1>4, FreeTakesOut
<1>6. uid' \in [Slot -> Nat \union {None}] /\ \A t \in live' : uid'[t] = uid[t] /\ t \in live
  BY <1>1, <1>2, <1>4
<1>7. {uid'[t] : t \in live'} = Used(table) \ {uid[s]}
  BY <1>1, <1>2, <1>4, <1>6
<1>8. NumbersDistinct' /\ (\A t \in live' : uid'[t] \in Nat)
  BY <1>4, <1>5, <1>6, <1>7 DEF NumbersDistinct, NoRepeats
<1>9. peer' \in [Slot -> Client \union {None}]
      /\ client' \in [Client -> {"away", "queued", "accepted", "left", "done"}]
  BY <1>2, <1>3 DEF ServerInv, TypeOK
<1>10. TypeOK'
  BY <1>1, <1>2, <1>5, <1>6, <1>9 DEF ServerInv, TypeOK, acceptVars, sharedVars
<1>11. Held'
  BY <1>1, <1>2 DEF ServerInv, Held, acceptVars
<1>12. Peers'
  <2>1. UNCHANGED <<sess_sptr, accept>>
    BY <1>2 DEF acceptVars
  <2>2. client \in [Client -> {"away", "queued", "accepted", "left", "done"}]
    BY DEF ServerInv, TypeOK
  <2>3. peer'[s] = None /\ \A t \in Slot : t # s => peer'[t] = peer[t]
    BY <1>1, <1>2, <1>3
  <2>4. \A t \in Slot : peer'[t] # None <=> t \in handlers' \/ (t = sess_sptr' /\ accept' = "ok")
    BY <1>1, <1>2, <2>1, <2>3 DEF ServerInv, Peers
  <2>5. \A t \in Slot : peer'[t] # None => client'[peer'[t]] = "accepted"
    BY <1>2, <1>3, <2>2, <2>3 DEF ServerInv, Peers
  <2>6. \A t, u \in Slot : peer'[t] = peer'[u] /\ peer'[t] # None => t = u
    BY <2>3 DEF ServerInv, Peers
  <2>7. \A c \in Client : client'[c] = "accepted" => \E t \in Slot : peer'[t] = c
    <3> SUFFICES ASSUME NEW c \in Client, client'[c] = "accepted"
                 PROVE  \E t \in Slot : peer'[t] = c
      OBVIOUS
    <3>1. c # peer[s] /\ client[c] = "accepted"
      BY <1>2, <1>3, <2>2
    <3>2. PICK t \in Slot : peer[t] = c
      BY <3>1 DEF ServerInv, Peers
    <3> QED
      BY <2>3, <3>1, <3>2
  <2> QED
    BY <2>4, <2>5, <2>6, <2>7 DEF Peers
<1>13. Queue'
  <2>1. client \in [Client -> {"away", "queued", "accepted", "left", "done"}]
        /\ backlog \in Seq(Client) /\ backlog' = backlog
    BY <1>2 DEF ServerInv, TypeOK
  <2>2. \A i \in DOMAIN backlog : backlog[i] \in Client /\ client[backlog[i]] = "queued"
    BY <2>1 DEF ServerInv, Queue
  <2>3. \A i \in DOMAIN backlog : client'[backlog[i]] = "queued"
    BY <1>2, <1>3, <2>1, <2>2
  <2> QED
    BY <2>1, <2>3 DEF ServerInv, Queue
<1>14. LogTellsHistory'
  BY <1>2 DEF ServerInv, LogTellsHistory, sharedVars
<1> QED
  BY <1>8, <1>10, <1>11, <1>12, <1>13, <1>14 DEF ServerInv

LEMMA ConnectsInv ==
  ASSUME ServerInv, NEW c \in Client, Connects(c)
  PROVE  ServerInv'
<1>1. /\ client[c] = "away" /\ client' = [client EXCEPT ![c] = "queued"]
      /\ backlog' = Append(backlog, c)
      /\ UNCHANGED <<acceptVars, sessionVars, sharedVars>>
  BY DEF Connects
<1>2. /\ client \in [Client -> {"away", "queued", "accepted", "left", "done"}]
      /\ backlog \in Seq(Client) /\ NoRepeats(backlog)
      /\ \A i \in DOMAIN backlog : client[backlog[i]] = "queued"
  BY DEF ServerInv, TypeOK, Queue, NoRepeats
<1>3. c \notin Used(backlog)
  BY <1>1, <1>2 DEF Used
<1>4. /\ Append(backlog, c) \in Seq(Client)
      /\ Used(Append(backlog, c)) = Used(backlog) \union {c}
      /\ NoRepeats(Append(backlog, c))
  BY <1>2, <1>3, AppendNew
<1>5. client' \in [Client -> {"away", "queued", "accepted", "left", "done"}]
      /\ \A b \in Client : client'[b] = IF b = c THEN "queued" ELSE client[b]
  BY <1>1, <1>2
<1>6. Queue'
  <2>1. \A b \in Used(backlog) : b \in Client /\ client[b] = "queued"
    BY <1>2 DEF Used
  <2>2. \A b \in Used(backlog') : client'[b] = "queued"
    BY <1>1, <1>4, <1>5, <2>1
  <2> QED
    BY <1>1, <1>4, <2>2 DEF Queue, NoRepeats, Used
<1>7. TypeOK' /\ Held'
  BY <1>1, <1>4, <1>5 DEF ServerInv, TypeOK, Held, acceptVars, sessionVars, sharedVars
<1>8. NumbersDistinct' /\ (\A t \in live' : uid'[t] \in Nat)
  BY <1>1, SameNumbers DEF sessionVars
<1>9. Peers'
  <2>1. \A t \in Slot : peer[t] # None => peer[t] \in Client
    BY DEF ServerInv, TypeOK
  <2> QED
    BY <1>1, <1>5, <2>1 DEF ServerInv, Peers, acceptVars, sessionVars
<1>10. LogTellsHistory'
  BY <1>1 DEF ServerInv, LogTellsHistory, sharedVars
<1> QED
  BY <1>6, <1>7, <1>8, <1>9, <1>10 DEF ServerInv

LEMMA LeavesInv ==
  ASSUME ServerInv, NEW c \in Client, Leaves(c)
  PROVE  ServerInv'
<1>1. PICK i \in DOMAIN backlog : backlog[i] = c /\ backlog' = Without(backlog, i)
  BY DEF Leaves
<1>2. /\ client' = [client EXCEPT ![c] = "left"]
      /\ UNCHANGED <<acceptVars, sessionVars, sharedVars>>
  BY DEF Leaves
<1>3. /\ client \in [Client -> {"away", "queued", "accepted", "left", "done"}]
      /\ backlog \in Seq(Client) /\ NoRepeats(backlog)
      /\ \A j \in DOMAIN backlog : client[backlog[j]] = "queued"
  BY DEF ServerInv, TypeOK, Queue, NoRepeats
<1>4. /\ backlog' \in Seq(Client) /\ NoRepeats(backlog')
      /\ Used(backlog') = Used(backlog) \ {c}
  BY <1>1, <1>3, WithoutIt
<1>5. client[c] = "queued"
      /\ client' \in [Client -> {"away", "queued", "accepted", "left", "done"}]
      /\ \A b \in Client : client'[b] = IF b = c THEN "left" ELSE client[b]
  BY <1>1, <1>2, <1>3
<1>6. Queue'
  <2>1. \A b \in Used(backlog) : b \in Client /\ client[b] = "queued"
    BY <1>3 DEF Used
  <2>2. \A b \in Used(backlog') : client'[b] = "queued"
    BY <1>4, <1>5, <2>1
  <2> QED
    BY <1>4, <2>2 DEF Queue, NoRepeats, Used
<1>7. TypeOK' /\ Held'
  BY <1>2, <1>4, <1>5 DEF ServerInv, TypeOK, Held, acceptVars, sessionVars, sharedVars
<1>8. NumbersDistinct' /\ (\A t \in live' : uid'[t] \in Nat)
  BY <1>2, SameNumbers DEF sessionVars
<1>9. Peers'
  <2>1. \A t \in Slot : peer[t] # None => peer[t] \in Client
    BY DEF ServerInv, TypeOK
  <2> QED
    BY <1>2, <1>5, <2>1 DEF ServerInv, Peers, acceptVars, sessionVars
<1>10. LogTellsHistory'
  BY <1>2 DEF ServerInv, LogTellsHistory, sharedVars
<1> QED
  BY <1>6, <1>7, <1>8, <1>9, <1>10 DEF ServerInv

LEMMA AcceptsInv == ServerInv /\ Accepts => ServerInv'
<1> SUFFICES ASSUME ServerInv, Accepts PROVE ServerInv'
  OBVIOUS
<1> DEFINE c == Head(backlog)
<1>1. /\ accept = "pending" /\ backlog # <<>> /\ accept' = "ok"
      /\ peer' = [peer EXCEPT ![sess_sptr] = c] /\ client' = [client EXCEPT ![c] = "accepted"]
      /\ backlog' = Tail(backlog)
      /\ UNCHANGED <<acpt, sess_sptr, handlers, live, uid, table, busy, sharedVars>>
  BY DEF Accepts
<1>2. /\ client \in [Client -> {"away", "queued", "accepted", "left", "done"}]
      /\ backlog \in Seq(Client) /\ NoRepeats(backlog)
      /\ \A i \in DOMAIN backlog : client[backlog[i]] = "queued"
      /\ peer \in [Slot -> Client \union {None}]
  BY DEF ServerInv, TypeOK, Queue, NoRepeats
<1>3. Len(backlog) \in Nat \ {0} /\ 1 \in DOMAIN backlog /\ c = backlog[1]
  BY <1>1, <1>2
<1>4. c \in Client /\ client[c] = "queued" /\ c # None
  BY <1>2, <1>3, ServerAssumption
<1>5. /\ backlog' \in Seq(Client) /\ DOMAIN backlog' = 1..Len(backlog) - 1
      /\ \A i \in 1..Len(backlog) - 1 : backlog'[i] = backlog[i + 1] /\ i + 1 \in DOMAIN backlog
  BY <1>1, <1>2, <1>3
<1> HIDE DEF c
<1>6. client' \in [Client -> {"away", "queued", "accepted", "left", "done"}]
      /\ \A b \in Client : client'[b] = IF b = c THEN "accepted" ELSE client[b]
  BY <1>1, <1>2, <1>4
<1>7. sess_sptr \in Slot /\ sess_sptr \notin handlers /\ peer[sess_sptr] = None
  BY <1>1 DEF ServerInv, TypeOK, Held, Peers
<1>8. /\ peer' \in [Slot -> Client \union {None}] /\ peer'[sess_sptr] = c
      /\ \A s \in Slot : s # sess_sptr => peer'[s] = peer[s]
  BY <1>1, <1>2, <1>4, <1>7
<1>9. \A s \in Slot : peer[s] # None => peer[s] \in Client /\ peer[s] # c
  BY <1>2, <1>4 DEF ServerInv, Peers
<1>10. Queue'
  <2>1. ASSUME NEW i \in DOMAIN backlog' PROVE client'[backlog'[i]] = "queued"
    <3>1. i \in 1..Len(backlog) - 1 /\ i + 1 \in DOMAIN backlog /\ backlog'[i] = backlog[i + 1]
          /\ i + 1 # 1
      BY <1>3, <1>5, <2>1
    <3>2. backlog[i + 1] # c
      BY <1>2, <1>3, <3>1 DEF NoRepeats
    <3>3. backlog[i + 1] \in Client
      BY <1>2, <3>1
    <3> QED
      BY <1>2, <1>6, <3>1, <3>2, <3>3
  <2>2. ASSUME NEW i \in DOMAIN backlog', NEW j \in DOMAIN backlog', backlog'[i] = backlog'[j]
        PROVE  i = j
    <3>1. /\ i \in Nat /\ j \in Nat /\ i + 1 \in DOMAIN backlog /\ j + 1 \in DOMAIN backlog
          /\ backlog[i + 1] = backlog[j + 1]
      BY <1>3, <1>5, <2>2
    <3>2. i + 1 = j + 1
      BY <1>2, <3>1 DEF NoRepeats
    <3> QED
      BY <3>1, <3>2
  <2> QED
    BY <2>1, <2>2 DEF Queue
<1>11. TypeOK'
  BY <1>1, <1>5, <1>6, <1>8 DEF ServerInv, TypeOK, sharedVars
<1>12. Held'
  BY <1>1 DEF ServerInv, Held
<1>13. Peers'
  <2>1. \A s \in Slot : peer'[s] # None <=> s \in handlers' \/ (s = sess_sptr' /\ accept' = "ok")
    BY <1>1, <1>4, <1>7, <1>8 DEF ServerInv, Peers
  <2>2. \A s \in Slot : peer'[s] # None => client'[peer'[s]] = "accepted"
    BY <1>4, <1>6, <1>8, <1>9 DEF ServerInv, Peers
  <2>3. \A s, t \in Slot : peer'[s] = peer'[t] /\ peer'[s] # None => s = t
    BY <1>8, <1>9 DEF ServerInv, Peers
  <2>4. ASSUME NEW b \in Client, client'[b] = "accepted" PROVE \E s \in Slot : peer'[s] = b
    <3>1. CASE b = c
      BY <1>7, <1>8, <3>1
    <3>2. CASE b # c
      <4>1. PICK s \in Slot : peer[s] = b
        BY <1>6, <2>4, <3>2 DEF ServerInv, Peers
      <4>2. b # None
        BY ServerAssumption
      <4> QED
        BY <1>7, <1>8, <4>1, <4>2
    <3> QED
      BY <3>1, <3>2
  <2> QED
    BY <2>1, <2>2, <2>3, <2>4 DEF Peers
<1>14. NumbersDistinct' /\ (\A t \in live' : uid'[t] \in Nat)
  BY <1>1, SameNumbers
<1>15. LogTellsHistory'
  BY <1>1 DEF ServerInv, LogTellsHistory, sharedVars
<1> QED
  BY <1>10, <1>11, <1>12, <1>13, <1>14, <1>15 DEF ServerInv

LEMMA AcceptFailsInv == ServerInv /\ AcceptFails => ServerInv'
<1> SUFFICES ASSUME ServerInv, AcceptFails PROVE ServerInv'
  OBVIOUS
<1>1. /\ accept = "pending" /\ accept' = "err"
      /\ UNCHANGED <<acpt, sess_sptr, sessionVars, clientVars, sharedVars>>
  BY DEF AcceptFails
<1>2. TypeOK' /\ Held'
  BY <1>1 DEF ServerInv, TypeOK, Held, sessionVars, clientVars, sharedVars
<1>3. NumbersDistinct' /\ (\A s \in live' : uid'[s] \in Nat)
  BY <1>1, SameNumbers DEF sessionVars
<1>4. Peers' /\ Queue' /\ LogTellsHistory'
  BY <1>1 DEF ServerInv, Peers, Queue, LogTellsHistory, sessionVars, clientVars, sharedVars
<1> QED
  BY <1>2, <1>3, <1>4 DEF ServerInv

-----------------------------------------------------------------------------
(* The theorems.                                                            *)

\* Every reachable state of the server satisfies the invariant.
THEOREM ServerCorrect == Spec => []ServerInv
<1>1. Init => ServerInv
  BY InitInv
<1>2. ServerInv /\ [Next]_vars => ServerInv'
  <2> SUFFICES ASSUME ServerInv, [Next]_vars PROVE ServerInv'
    OBVIOUS
  <2>1. CASE Open \/ OpenFails
    BY <2>1, OpenInv
  <2>2. CASE Start \/ HandleAcceptFailed
    BY <2>2, StartInv
  <2>3. CASE HandleAccepted
    BY <2>3, HandleAcceptedInv
  <2>4. ASSUME NEW s \in Slot, Ends(s) PROVE ServerInv'
    BY <2>4, EndsInv
  <2>5. ASSUME NEW s \in Slot, NEW d \in Dest, Reaches(s, d) PROVE ServerInv'
    BY <2>5, ReachesInv
  <2>6. ASSUME NEW c \in Client, Connects(c) PROVE ServerInv'
    BY <2>6, ConnectsInv
  <2>7. ASSUME NEW c \in Client, Leaves(c) PROVE ServerInv'
    BY <2>7, LeavesInv
  <2>8. CASE Accepts
    BY <2>8, AcceptsInv
  <2>9. CASE AcceptFails
    BY <2>9, AcceptFailsInv
  <2>10. CASE UNCHANGED vars
    <3>1. UNCHANGED <<acceptVars, sessionVars, clientVars, sharedVars>>
      BY <2>10 DEF vars
    <3>2. TypeOK' /\ Held'
      BY <3>1 DEF ServerInv, TypeOK, Held, acceptVars, sessionVars, clientVars, sharedVars
    <3>3. NumbersDistinct' /\ (\A s \in live' : uid'[s] \in Nat)
      BY <3>1, SameNumbers DEF sessionVars
    <3>4. Peers' /\ Queue' /\ LogTellsHistory'
      BY <3>1 DEF ServerInv, Peers, Queue, LogTellsHistory, acceptVars, sessionVars,
                  clientVars, sharedVars
    <3> QED
      BY <3>2, <3>3, <3>4 DEF ServerInv
  <2> QED
    BY <2>1, <2>2, <2>3, <2>4, <2>5, <2>6, <2>7, <2>8, <2>9, <2>10 DEF Next
<1> QED
  BY <1>1, <1>2, PTL DEF Spec

\* The variables of the server keep their types.
THEOREM ServerTypeCorrect == Spec => []TypeOK
<1>1. ServerInv => TypeOK
  BY DEF ServerInv
<1> QED
  BY <1>1, ServerCorrect, PTL

\* Numbers are never shared, lost or given back early, however sessions come
\* and go (debug_uid_table.h).
THEOREM NumbersStayDistinct == Spec => []NumbersDistinct
<1>1. ServerInv => NumbersDistinct
  BY DEF ServerInv
<1> QED
  BY <1>1, ServerCorrect, PTL

\* History and log file agree, and no destination is logged twice, whatever
\* order the sessions' handlers run in (session.cpp:95-103).
THEOREM LogIsTrue == Spec => []LogTellsHistory
<1>1. ServerInv => LogTellsHistory
  BY DEF ServerInv
<1> QED
  BY <1>1, ServerCorrect, PTL

\* do_accept() drops no started session and leaks none (server.cpp:71-97).
THEOREM SessionsMatchClients == Spec => []OneSessionPerClient
<1>1. ServerInv => OneSessionPerClient
  <2> SUFFICES ASSUME ServerInv PROVE OneSessionPerClient
    OBVIOUS
  <2>1. /\ live \subseteq Slot /\ peer \in [Slot -> Client \union {None}] /\ Held /\ Peers
        /\ sess_sptr \in Slot \union {None}
    BY DEF ServerInv, TypeOK
  <2>2. ASSUME NEW c \in Client, client[c] = "accepted"
        PROVE  \E s \in live : peer[s] = c /\ \A t \in live : peer[t] = c => t = s
    <3>1. PICK s \in Slot : peer[s] = c
      BY <2>1, <2>2 DEF Peers
    <3>2. peer[s] # None
      BY <3>1, ServerAssumption
    <3>3. s \in live
      BY <2>1, <3>2 DEF Held, Peers
    <3> QED
      BY <2>1, <3>1, <3>2, <3>3 DEF Peers
  <2>3. ASSUME NEW s \in live, s # sess_sptr
        PROVE  peer[s] \in Client /\ client[peer[s]] = "accepted"
    BY <2>1, <2>3 DEF Held, Peers
  <2> QED
    BY <2>2, <2>3 DEF OneSessionPerClient
<1> QED
  BY <1>1, ServerCorrect, PTL

=============================================================================
