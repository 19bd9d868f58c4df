-------------------------- MODULE HttpsServerProofs --------------------------
(***************************************************************************)
(* Proofs about HttpsServer for every stream of characters that a client   *)
(* may send and every limit of a line: the inductive invariant HttpsInv,   *)
(* and what the session relies on when it takes a request from the server  *)
(* and has it answered.                                                    *)
(***************************************************************************)
EXTENDS HttpsServer, SequenceTheorems, TLAPS

-----------------------------------------------------------------------------
(* What has been read.                                                      *)

\* Where the lines of a request end does not depend on what has been read.
LEMMA SameLines ==
  ASSUME request' = request
  PROVE  /\ \A p : LineFeed(p)' = LineFeed(p) /\ BlankLine(p)' = BlankLine(p)
         /\ \A p, n : Unbroken(p, n)' = Unbroken(p, n)
  BY DEF LineFeed, BlankLine, Unbroken

LEMMA RequestFacts ==
  ASSUME TypeOK
  PROVE  /\ request.chars \in Seq(Char) /\ Len(request.chars) \in Nat
         /\ \A i \in 1..Len(request.chars) : request.chars[i] \in Char
         /\ request.first \in FirstLine
         /\ pos \in Nat /\ line \in Seq(Char) /\ Len(line) \in Nat
         /\ MaxLine \in Nat /\ MaxLine > 0
  <1>1. /\ request.chars \in Seq(Char) /\ request.first \in FirstLine
        /\ line \in Seq(Char) /\ pos \in 0..Len(request.chars)
    BY DEF TypeOK, Request
  <1>2. Len(request.chars) \in Nat /\ Len(line) \in Nat
    BY <1>1, LenProperties
  <1>3. \A i \in 1..Len(request.chars) : request.chars[i] \in Char
    BY <1>1, ElementOfSeq
  <1> QED
    BY <1>1, <1>2, <1>3, HttpsAssumption

\* The line with the character that comes next.
NextLine == Append(line, request.chars[pos + 1])

LEMMA NextLineFacts ==
  ASSUME TypeOK, LineSoFar, Reading, pos < Len(request.chars)
  PROVE  /\ NextLine \in Seq(Char) /\ Len(NextLine) = Len(line) + 1
         /\ Len(NextLine) <= MaxLine /\ pos + 1 \in 1..Len(request.chars)
         /\ \A i \in 1..Len(line) : NextLine[i] = line[i]
         /\ NextLine[Len(line) + 1] = request.chars[pos + 1]
         /\ EndsLine(NextLine) = LineFeed(pos + 1)
  <1>1. /\ pos \in Nat /\ pos + 1 \in 1..Len(request.chars)
        /\ request.chars[pos + 1] \in Char /\ line \in Seq(Char) /\ Len(line) \in Nat
    BY RequestFacts
  <1>2. /\ NextLine \in Seq(Char) /\ Len(NextLine) = Len(line) + 1
        /\ \A i \in 1..Len(line) : NextLine[i] = line[i]
        /\ NextLine[Len(line) + 1] = request.chars[pos + 1]
    BY <1>1 DEF NextLine
  <1>3. NextLine # <<>>
    BY <1>1, <1>2
  <1>4. EndsLine(NextLine) = LineFeed(pos + 1)
    BY <1>1, <1>2, <1>3 DEF EndsLine, LineFeed
  <1>5. Len(NextLine) <= MaxLine
    <2>1. Len(line) < MaxLine
      BY DEF LineSoFar
    <2> QED
      BY <1>1, <1>2, <2>1, RequestFacts
  <1> QED
    BY <1>1, <1>2, <1>4, <1>5

\* What trim_line leaves of a line is shorter, and nothing at all if there is
\* nothing in the line but its end.
LEMMA TrimmedFacts ==
  ASSUME NEW l \in Seq(Char), NEW k, k = Len(l)
  PROVE  /\ Trimmed(l) \in Seq(Char) /\ Len(Trimmed(l)) <= k
         /\ Trims(l) => (Trimmed(l) = <<>> <=> k = 1 \/ (k = 2 /\ l[1] = "CR"))
  <1>1. k \in Nat
    BY LenProperties
  <1>2. CASE ~Trims(l)
    BY <1>1, <1>2 DEF Trimmed
  <1>3. CASE Trims(l)
    <2> DEFINE n == IF k >= 2 /\ l[k - 1] = "CR" THEN 2 ELSE 1
               t == SubSeq(l, 1, k - n)
    <2>1. Trimmed(l) = t
      BY <1>3 DEF Trimmed
    <2>2. k >= 1
      BY <1>1, <1>3, EmptySeq DEF Trims, EndsLine
    <2>3. n \in {1, 2} /\ n <= k
      BY <1>1, <2>2
    <2>4. n = k <=> k = 1 \/ (k = 2 /\ l[1] = "CR")
      BY <1>1, <2>2
    <2> HIDE DEF n
    <2>5. \A i \in 1..(k - n) : l[i] \in Char
      <3>1. \A i \in 1..k : l[i] \in Char
        BY ElementOfSeq
      <3> QED
        BY <1>1, <2>3, <3>1
    <2>6. t \in Seq(Char) /\ Len(t) = k - n
      <3>1. /\ t \in Seq(Char)
            /\ Len(t) = IF 1 <= k - n THEN k - n - 1 + 1 ELSE 0
        BY <1>1, <2>3, <2>5, SubSeqProperties
      <3> QED
        BY <1>1, <2>3, <3>1
    <2> HIDE DEF t
    <2>7. t = <<>> <=> k - n = 0
      BY <2>6, EmptySeq
    <2>8. k - n = 0 <=> n = k
      BY <1>1, <2>3
    <2> QED
      BY <1>1, <2>1, <2>3, <2>4, <2>6, <2>7, <2>8
  <1> QED
    BY <1>2, <1>3

-----------------------------------------------------------------------------
(* One more character.                                                      *)

\* No line too long has been passed unless this one now is.
LEMMA NotTooLong ==
  ASSUME TypeOK, LineSoFar, HeadSoFar, Reading, pos < Len(request.chars),
         LineFeed(pos + 1) \/ Len(line) + 1 < MaxLine
  PROVE  \A p \in 1..pos + 1 : ~Unbroken(p, MaxLine)
  <1>1. pos \in Nat /\ Len(line) \in Nat /\ MaxLine \in Nat /\ MaxLine > 0
    BY RequestFacts
  <1>2. ~Unbroken(pos + 1, MaxLine)
    <2> SUFFICES ASSUME Unbroken(pos + 1, MaxLine) PROVE FALSE
      OBVIOUS
    <2>1. MaxLine <= pos + 1 /\ \A i \in pos + 1 - MaxLine + 1..pos + 1 : ~LineFeed(i)
      BY <1>1 DEF Unbroken
    <2>2. Len(line) + 1 < MaxLine
      BY <1>1, <2>1
    <2>3. CASE op = "read_first_line"
      <3>1. pos = Len(line)
        BY <2>3 DEF LineSoFar
      <3> QED
        BY <1>1, <2>1, <2>2, <3>1
    <2>4. CASE op = "read_another_line"
      <3>1. LineFeed(pos - Len(line)) /\ Len(line) <= pos
        BY <2>4 DEF LineSoFar
      <3>2. pos - Len(line) \in pos + 1 - MaxLine + 1..pos + 1
        BY <1>1, <2>2
      <3> QED
        BY <2>1, <3>1, <3>2
    <2> QED
      BY <2>3, <2>4 DEF Reading
  <1>3. \A p \in 1..pos : ~Unbroken(p, MaxLine)
    BY DEF HeadSoFar
  <1> QED
    BY <1>1, <1>2, <1>3

\* The line feed at q + 1 ends a blank line, by what comes before it.
LEMMA BlankAt ==
  ASSUME NEW q \in Nat, LineFeed(q + 1)
  PROVE  BlankLine(q + 1) <=>
           LineFeed(q) \/ (q > 0 /\ request.chars[q] = "CR" /\ LineFeed(q - 1))
  <1>1. q + 1 - 1 = q /\ q + 1 - 2 = q - 1 /\ (q + 1 > 1 <=> q > 0)
    OBVIOUS
  <1> QED
    BY <1>1 DEF BlankLine

\* A line is blank where trim_line leaves nothing of it, the first line apart.
LEMMA BlankIsEmpty ==
  ASSUME TypeOK, LineSoFar, Reading, pos < Len(request.chars), LineFeed(pos + 1)
  PROVE  BlankLine(pos + 1) <=> op = "read_another_line" /\ Trimmed(NextLine) = <<>>
  <1> DEFINE n == Len(line)
             cr == request.chars[pos] = "CR"
             empty == Trimmed(NextLine) = <<>>
  <1>1. pos \in Nat /\ n \in Nat /\ n <= pos
    BY RequestFacts DEF LineSoFar
  <1>2. \A i \in pos - n + 1..pos : ~LineFeed(i)
    BY DEF LineSoFar, Unbroken
  <1>3. NextLine \in Seq(Char) /\ Len(NextLine) = n + 1 /\ Trims(NextLine)
    BY NextLineFacts DEF Trims
  <1>4. 1 <= n => NextLine[1] = line[1]
    BY <1>1, NextLineFacts
  <1>5. \A i \in 1..n : line[i] = request.chars[pos - n + i]
    BY DEF LineSoFar
  <1>6. op = "read_first_line" => pos = n
    BY DEF LineSoFar
  <1>7. op = "read_another_line" => LineFeed(pos - n)
    BY DEF LineSoFar
  <1> HIDE DEF n
  <1>8. empty <=> n = 0 \/ (n = 1 /\ cr)
    <2>1. empty <=> n + 1 = 1 \/ (n + 1 = 2 /\ NextLine[1] = "CR")
      BY <1>3, TrimmedFacts
    <2>2. n = 1 => NextLine[1] = request.chars[pos]
      BY <1>1, <1>4, <1>5
    <2> QED
      BY <1>1, <2>1, <2>2
  <1>9. BlankLine(pos + 1) <=> LineFeed(pos) \/ (pos > 0 /\ cr /\ LineFeed(pos - 1))
    BY <1>1, BlankAt
  <1>10. LineFeed(pos) => pos > 0
    BY DEF LineFeed
  <1>11. LineFeed(pos - 1) => pos - 1 > 0
    BY DEF LineFeed
  <1> HIDE DEF cr, empty
  <1>12. CASE op = "read_first_line"
    <2>1. ~LineFeed(pos) /\ ~LineFeed(pos - 1)
      BY <1>1, <1>2, <1>6, <1>10, <1>11, <1>12
    <2> QED
      BY <1>9, <1>12, <2>1
  <1>13. CASE op = "read_another_line"
    <2>1. CASE n = 0
      <3>1. LineFeed(pos)
        BY <1>1, <1>7, <1>13, <2>1
      <3> QED
        BY <1>8, <1>9, <1>13, <2>1, <3>1 DEF empty
    <2>2. CASE n = 1
      <3>1. ~LineFeed(pos) /\ LineFeed(pos - 1) /\ pos > 0
        BY <1>1, <1>2, <1>7, <1>13, <2>2
      <3> QED
        BY <1>8, <1>9, <1>13, <2>2, <3>1 DEF empty
    <2>3. CASE n > 1
      <3>1. ~LineFeed(pos) /\ ~LineFeed(pos - 1)
        BY <1>1, <1>2, <2>3
      <3>2. ~empty
        BY <1>1, <1>8, <2>3
      <3> QED
        BY <1>9, <3>1, <3>2 DEF empty
    <2> QED
      BY <1>1, <2>1, <2>2, <2>3
  <1> QED
    BY <1>12, <1>13 DEF Reading, empty

\* A character that does not end the line: the line has grown by it.
LEMMA LineGrows ==
  ASSUME TypeOK, LineSoFar, Reading, pos < Len(request.chars), ~LineDone(NextLine),
         pos' = pos + 1, line' = NextLine, op' = op, request' = request
  PROVE  LineSoFar'
  <1> DEFINE n == Len(line)
  <1>1. pos \in Nat /\ n \in Nat /\ n <= pos /\ MaxLine \in Nat
    BY RequestFacts DEF LineSoFar
  <1>2. /\ NextLine \in Seq(Char) /\ Len(line') = n + 1 /\ n + 1 <= MaxLine
        /\ \A i \in 1..n : line'[i] = line[i]
        /\ line'[n + 1] = request.chars[pos + 1]
    BY NextLineFacts
  <1>3. Len(line') # MaxLine /\ ~LineFeed(pos + 1)
    BY NextLineFacts DEF LineDone
  <1>4. /\ \A i \in 1..n : line[i] = request.chars[pos - n + i]
        /\ \A i \in pos - n + 1..pos : ~LineFeed(i)
        /\ op = "read_first_line" => pos = n
        /\ op = "read_another_line" => LineFeed(pos - n)
    BY DEF LineSoFar, Unbroken
  <1>5. \A i : LineFeed(i)' = LineFeed(i)
    BY SameLines
  <1> HIDE DEF n
  <1>6. Len(line') < MaxLine /\ Len(line') <= pos'
    BY <1>1, <1>2, <1>3
  <1>7. \A i \in 1..Len(line') : line'[i] = request.chars[pos' - Len(line') + i]
    <2>1. pos' - Len(line') = pos - n /\ pos - n + (n + 1) = pos + 1
      BY <1>1, <1>2
    <2>2. ASSUME NEW i \in 1..n PROVE line'[i] = request.chars[pos' - Len(line') + i]
      BY <1>2, <1>4, <2>1, <2>2, Zenon
    <2>3. line'[n + 1] = request.chars[pos' - Len(line') + (n + 1)]
      BY <1>2, <2>1, Zenon
    <2>4. \A i \in 1..n + 1 : i \in 1..n \/ i = n + 1
      BY <1>1
    <2>5. \A i \in 1..n + 1 : line'[i] = request.chars[pos' - Len(line') + i]
      BY <2>2, <2>3, <2>4, Zenon
    <2> QED
      BY <1>2, <2>5, Zenon
  <1>8. Unbroken(pos, Len(line))'
    <2>1. \A i \in pos + 1 - (n + 1) + 1..pos + 1 : ~LineFeed(i)
      BY <1>1, <1>3, <1>4
    <2> QED
      BY <1>1, <1>2, <1>5, <2>1 DEF Unbroken
  <1>9. op' = "read_first_line" => pos' = Len(line')
    BY <1>2, <1>4
  <1>10. op' = "read_another_line" => LineFeed(pos - Len(line))'
    <2>1. pos' - Len(line') = pos - n
      BY <1>1, <1>2
    <2> QED
      BY <1>4, <2>1 DEF LineFeed
  <1> QED
    BY <1>6, <1>7, <1>8, <1>9, <1>10 DEF LineSoFar

\* A line that has been taken: the next one begins behind its line feed.
LEMMA LineStarts ==
  ASSUME TypeOK, LineFeed(pos + 1), pos' = pos + 1, line' = <<>>,
         op' = "read_another_line", request' = request
  PROVE  LineSoFar'
  <1>1. pos \in Nat /\ MaxLine \in Nat /\ MaxLine > 0 /\ Len(line') = 0
    BY RequestFacts, EmptySeq
  <1>2. LineFeed(pos - Len(line))'
    BY <1>1, SameLines
  <1>3. Unbroken(pos, Len(line))'
    BY <1>1 DEF Unbroken
  <1> QED
    BY <1>1, <1>2, <1>3 DEF LineSoFar

\* A line that has reached the limit without its end is longer than it.
LEMMA TooLongHere ==
  ASSUME TypeOK, LineSoFar, Reading, pos < Len(request.chars),
         LineDone(NextLine), ~Trims(NextLine)
  PROVE  Unbroken(pos + 1, MaxLine) /\ (pos + 1 = MaxLine \/ LineFeed(pos + 1 - MaxLine))
  <1> DEFINE n == Len(line)
  <1>1. pos \in Nat /\ n \in Nat /\ n <= pos /\ MaxLine \in Nat
    BY RequestFacts DEF LineSoFar
  <1>2. n + 1 = MaxLine /\ ~LineFeed(pos + 1)
    BY NextLineFacts DEF LineDone, Trims
  <1>3. /\ \A i \in pos - n + 1..pos : ~LineFeed(i)
        /\ op = "read_first_line" => pos = n
        /\ op = "read_another_line" => LineFeed(pos - n)
    BY DEF LineSoFar, Unbroken
  <1> HIDE DEF n
  <1>4. \A i \in pos + 1 - MaxLine + 1..pos + 1 : ~LineFeed(i)
    BY <1>1, <1>2, <1>3
  <1>5. pos + 1 - MaxLine = pos - n
    BY <1>1, <1>2
  <1>6. MaxLine <= pos + 1
    BY <1>1, <1>2
  <1> QED
    BY <1>1, <1>2, <1>3, <1>4, <1>5, <1>6 DEF Reading, Unbroken

\* The head goes on behind a character that ends neither it nor a line too long.
LEMMA HeadGoesOn ==
  ASSUME TypeOK, LineSoFar, HeadSoFar, Reading, pos < Len(request.chars),
         LineFeed(pos + 1) \/ Len(line) + 1 < MaxLine, ~BlankLine(pos + 1),
         pos' = pos + 1, request' = request
  PROVE  HeadSoFar'
  <1>1. pos \in Nat /\ MaxLine' = MaxLine
    BY RequestFacts
  <1>2. \A p \in 1..pos + 1 : ~BlankLine(p) /\ ~Unbroken(p, MaxLine)
    BY <1>1, NotTooLong DEF HeadSoFar
  <1>3. \A p \in 1..pos' : ~BlankLine(p)' /\ ~Unbroken(p, MaxLine)'
    BY <1>1, <1>2, SameLines
  <1> QED
    BY <1>3 DEF HeadSoFar

\* While the request is read no handler has been called, nor anything assigned
\* but the version.
LEMMA NothingYet ==
  ASSUME HttpsInv, Reading
  PROVE  /\ op # "none" /\ op # "write" /\ asked = "pending" /\ told = "none"
         /\ dst = "none" /\ reply = NoReply
  <1>1. Outcome
    BY DEF HttpsInv
  <1> QED
    BY <1>1 DEF Outcome, Reading

\* A first line that is accepted has a version and a host that are known.
LEMMA AcceptedParts ==
  ASSUME TypeOK, Acceptable(request.first)
  PROVE  request.first.version \in {"1.0", "1.1"} /\ request.first.host \in {"v4", "v6", "name"}
  <1>1. request.first \in FirstLine
    BY RequestFacts
  <1> QED
    BY <1>1 DEF FirstLine, Acceptable, TargetParsed

\* What a completed line leads to.
LEMMA LineReadStep ==
  ASSUME HttpsInv, CharRead, LineDone(NextLine)
  PROVE  HttpsInv'
  <1>0. TypeOK /\ LineSoFar /\ HeadSoFar /\ Outcome
    BY DEF HttpsInv
  <1>1. /\ Reading /\ pos < Len(request.chars) /\ pos' = pos + 1
        /\ request' = request /\ eof' = eof /\ told' = told /\ reply' = reply
    BY DEF CharRead, Reading, clientVars
  <1>2. IF op = "read_first_line" THEN FirstLineRead(NextLine) ELSE AnotherLineRead(NextLine)
    BY DEF CharRead, NextLine
  <1>3. /\ asked = "pending" /\ told' = "none" /\ dst = "none" /\ reply' = NoReply
    BY <1>1, NothingYet
  <1>4. /\ NextLine \in Seq(Char) /\ Len(NextLine) <= MaxLine
        /\ pos' \in 0..Len(request.chars) /\ pos \in Nat /\ MaxLine \in Nat
        /\ Trims(NextLine) = LineFeed(pos + 1)
    BY <1>0, <1>1, NextLineFacts, RequestFacts DEF Trims
  <1>5. /\ request' \in Request /\ eof' \in BOOLEAN /\ pos' \in 0..Len(request'.chars)
        /\ told' \in {"none", "Succeeded", "refused"}
        /\ reply' \in [ver : {"1.0", "1.1"}, code : {200, 502}] \union {NoReply}
    BY <1>0, <1>1, <1>3, <1>4 DEF TypeOK
  <1>6. Trimmed(NextLine) \in Seq(Char) /\ Len(Trimmed(NextLine)) <= MaxLine
    <2>1. Len(NextLine) \in Nat
      BY <1>4, LenProperties
    <2>2. Trimmed(NextLine) \in Seq(Char) /\ Len(Trimmed(NextLine)) <= Len(NextLine)
      BY <1>4, TrimmedFacts
    <2> QED
      BY <1>4, <2>1, <2>2, LenProperties
  <1>7. /\ Acceptable(request.first)' = Acceptable(request.first)
        /\ Endless(request.first)' = Endless(request.first)
    BY <1>1 DEF Acceptable, Endless, TargetParsed
  <1>8. CASE ~Trims(NextLine)
    <2>1. RequestDone(NextLine, "line_too_long") /\ ver' = ver /\ dst' = dst
      BY <1>2, <1>8 DEF FirstLineRead, AnotherLineRead
    <2>2. /\ asked' = "line_too_long" /\ op' = "none" /\ line' = Trimmed(NextLine)
          /\ dst' = "none"
      BY <1>3, <2>1 DEF RequestDone
    <2>3. TypeOK'
      BY <1>0, <1>5, <1>6, <2>1, <2>2 DEF TypeOK
    <2>4. RefusedLineIsTooLong'
      <3>1. Unbroken(pos + 1, MaxLine) /\ (pos + 1 = MaxLine \/ LineFeed(pos + 1 - MaxLine))
        BY <1>0, <1>1, <1>8, TooLongHere
      <3>2. Unbroken(pos, MaxLine)' /\ (pos' = MaxLine \/ LineFeed(pos - MaxLine)')
        BY <1>1, <1>4, <3>1 DEF Unbroken, LineFeed
      <3> QED
        BY <3>2 DEF RefusedLineIsTooLong
    <2>5. Outcome'
      BY <1>3, <2>2 DEF Outcome, Reading
    <2> QED
      BY <2>2, <2>3, <2>4, <2>5
      DEF HttpsInv, LineSoFar, HeadSoFar, Reading, AcceptedExactly
  <1>9. CASE /\ Trims(NextLine) /\ op = "read_first_line"
             /\ ~Acceptable(request.first) /\ ~Endless(request.first)
    <2>1. /\ asked' = "protocol_violation" /\ op' = "none" /\ line' = Trimmed(NextLine)
          /\ dst' = "none"
      BY <1>2, <1>3, <1>9 DEF FirstLineRead, RequestDone
    <2>2. ver' \in {"1.0", "1.1"}
      <3>1. \/ ver' = ver
            \/ ver' = request.first.version /\ request.first.version # "other"
        <4>1. FirstLineRead(NextLine)
          BY <1>2, <1>9
        <4>2. ver' = IF TargetParsed(request.first) THEN request.first.version ELSE ver
          BY <1>9, <4>1 DEF FirstLineRead
        <4> QED
          BY <4>2 DEF TargetParsed
      <3>2. request.first.version \in {"1.0", "1.1", "other"} /\ ver \in {"1.0", "1.1"}
        BY <1>0, RequestFacts DEF FirstLine, TypeOK
      <3> QED
        BY <3>1, <3>2
    <2>3. TypeOK'
      BY <1>5, <1>6, <2>1, <2>2 DEF TypeOK
    <2>4. Outcome'
      BY <1>3, <2>1 DEF Outcome, Reading
    <2> QED
      BY <2>1, <2>3, <2>4
      DEF HttpsInv, LineSoFar, HeadSoFar, Reading, AcceptedExactly, RefusedLineIsTooLong
  <1>10. CASE /\ Trims(NextLine)
              /\ \/ op = "read_first_line" /\ Acceptable(request.first)
                 \/ op = "read_another_line" /\ Trimmed(NextLine) # <<>>
    <2>1. /\ op' = "read_another_line" /\ line' = <<>> /\ asked' = "pending" /\ dst' = "none"
      <3>1. CASE op = "read_first_line"
        <4>1. ~Endless(request.first)
          BY <1>10, <3>1 DEF Acceptable, Endless
        <4> QED
          BY <1>2, <1>3, <1>10, <3>1, <4>1 DEF FirstLineRead, ReadLine
      <3>2. CASE op = "read_another_line"
        BY <1>2, <1>3, <1>10, <3>2 DEF AnotherLineRead, ReadLine
      <3> QED
        BY <1>10, <3>1, <3>2
    <2>2. Acceptable(request.first) /\ ver' = request.first.version
      BY <1>0, <1>2, <1>10 DEF FirstLineRead, AnotherLineRead, Outcome, Acceptable
    <2>3. ver' \in {"1.0", "1.1"}
      BY <1>0, <2>2, AcceptedParts
    <2>4. TypeOK'
      <3>1. line' \in Seq(Char) /\ Len(line') <= MaxLine
        BY <1>4, <2>1
      <3> QED
        BY <1>5, <2>1, <2>3, <3>1 DEF TypeOK
    <2>5. LineSoFar'
      BY <1>0, <1>1, <1>4, <1>10, <2>1, LineStarts
    <2>6. HeadSoFar'
      <3>1. ~BlankLine(pos + 1)
        BY <1>0, <1>1, <1>4, <1>10, BlankIsEmpty
      <3> QED
        BY <1>0, <1>1, <1>4, <1>10, <3>1, HeadGoesOn
    <2>7. Outcome'
      BY <1>1, <1>3, <1>7, <2>1, <2>2 DEF Outcome, Reading
    <2> QED
      BY <2>1, <2>4, <2>5, <2>6, <2>7 DEF HttpsInv, AcceptedExactly, RefusedLineIsTooLong
  <1>11. CASE Trims(NextLine) /\ op = "read_another_line" /\ Trimmed(NextLine) = <<>>
    <2>1. /\ asked' = "ok" /\ op' = "none" /\ line' = Trimmed(NextLine)
          /\ dst' = request.first.host /\ ver' = ver
      BY <1>2, <1>11 DEF AnotherLineRead, RequestDone
    <2>2. Acceptable(request.first) /\ ver = request.first.version
      BY <1>0, <1>11 DEF Outcome
    <2>3. TypeOK'
      <3>1. ver' \in {"1.0", "1.1"} /\ dst' \in {"v4", "v6", "name"}
        BY <1>0, <2>1, <2>2, AcceptedParts
      <3> QED
        BY <1>5, <1>6, <2>1, <3>1 DEF TypeOK
    <2>4. AcceptedExactly'
      <3>1. BlankLine(pos + 1)
        BY <1>0, <1>1, <1>4, <1>11, BlankIsEmpty
      <3>2. \A p \in 1..pos' : ~Unbroken(p, MaxLine)'
        <4>1. \A p \in 1..pos + 1 : ~Unbroken(p, MaxLine)
          BY <1>0, <1>1, <1>4, <1>11, NotTooLong
        <4> QED
          BY <1>1, <4>1, SameLines
      <3>3. BlankLine(pos)' /\ \A p \in 1..pos' - 1 : ~BlankLine(p)'
        <4>1. \A p \in 1..pos : ~BlankLine(p)
          BY <1>0, <1>1 DEF HeadSoFar
        <4>2. pos' - 1 = pos
          BY <1>1, <1>4
        <4> QED
          BY <1>1, <3>1, <4>1, <4>2, SameLines DEF BlankLine, LineFeed
      <3>4. /\ request.first.version \in {"1.0", "1.1"} /\ dst' = request'.first.host
        BY <1>0, <1>1, <2>1, <2>2, AcceptedParts
      <3> QED
        BY <1>1, <2>2, <3>2, <3>3, <3>4 DEF AcceptedExactly, Acceptable, TargetParsed
    <2>5. Outcome'
      BY <1>1, <1>3, <1>7, <2>1, <2>2 DEF Outcome, Reading
    <2> QED
      BY <2>1, <2>3, <2>4, <2>5 DEF HttpsInv, LineSoFar, HeadSoFar, Reading, RefusedLineIsTooLong
  <1>12. CASE Trims(NextLine) /\ op = "read_first_line" /\ Endless(request.first)
    <2>1. ~Acceptable(request.first) /\ TargetParsed(request.first)
      BY <1>12 DEF Acceptable, Endless
    <2>2. /\ op' = "parse_first_line" /\ line' = Trimmed(NextLine) /\ asked' = "pending"
          /\ dst' = "none" /\ ver' = request.first.version
      BY <1>2, <1>3, <1>12, <2>1 DEF FirstLineRead, Spin
    <2>3. ver' \in {"1.0", "1.1"}
      <3>1. request.first.version \in {"1.0", "1.1", "other"}
        BY <1>0, RequestFacts DEF FirstLine
      <3> QED
        BY <2>1, <2>2, <3>1 DEF TargetParsed
    <2>4. TypeOK'
      BY <1>5, <1>6, <2>2, <2>3 DEF TypeOK
    <2>5. Outcome'
      BY <1>3, <1>7, <1>12, <2>2 DEF Outcome, Reading
    <2> QED
      BY <2>2, <2>4, <2>5
      DEF HttpsInv, LineSoFar, HeadSoFar, Reading, AcceptedExactly, RefusedLineIsTooLong
  <1> QED
    BY <1>1, <1>8, <1>9, <1>10, <1>11, <1>12 DEF Reading

LEMMA CharReadStep ==
  ASSUME HttpsInv, CharRead
  PROVE  HttpsInv'
  <1>0. TypeOK /\ LineSoFar /\ HeadSoFar /\ Outcome
    BY DEF HttpsInv
  <1>1. CASE LineDone(NextLine)
    BY <1>1, LineReadStep
  <1>2. CASE ~LineDone(NextLine)
    <2>1. /\ Reading /\ pos < Len(request.chars) /\ pos' = pos + 1
          /\ request' = request /\ eof' = eof /\ told' = told /\ reply' = reply
      BY DEF CharRead, Reading, clientVars
    <2>2. line' = NextLine /\ op' = op /\ ver' = ver /\ dst' = dst /\ asked' = asked
      BY <1>2 DEF CharRead, NextLine
    <2>3. LineSoFar'
      BY <1>0, <1>2, <2>1, <2>2, LineGrows
    <2>4. TypeOK'
      <3>1. line' \in Seq(Char) /\ Len(line') <= MaxLine /\ pos' \in 0..Len(request'.chars)
        BY <1>0, <2>1, <2>2, NextLineFacts, RequestFacts
      <3> QED
        BY <1>0, <2>1, <2>2, <3>1 DEF TypeOK
    <2>5. HeadSoFar'
      <3>1. Len(NextLine) = Len(line) + 1 /\ Len(NextLine) <= MaxLine /\ ~LineFeed(pos + 1)
        BY <1>0, <1>2, <2>1, NextLineFacts DEF LineDone
      <3>2. Len(NextLine) # MaxLine
        BY <1>2 DEF LineDone
      <3>3. Len(line) + 1 < MaxLine
        BY <1>0, <3>1, <3>2, RequestFacts
      <3>4. pos \in Nat /\ ~BlankLine(pos + 1)
        BY <1>0, <3>1, RequestFacts DEF BlankLine
      <3> QED
        BY <1>0, <2>1, <3>3, <3>4, HeadGoesOn
    <2>6. Outcome'
      BY <1>0, <2>1, <2>2 DEF Outcome, Reading, Acceptable, Endless, TargetParsed
    <2>7. asked' = "pending"
      BY <2>1, <2>2, NothingYet
    <2> QED
      BY <2>3, <2>4, <2>5, <2>6, <2>7 DEF HttpsInv, AcceptedExactly, RefusedLineIsTooLong
  <1> QED
    BY <1>1, <1>2

-----------------------------------------------------------------------------
(* The answer, errors, and the invariant.                                   *)

\* What has been said of the request stays so while nothing more is read.
LEMMA SameRequest ==
  ASSUME request' = request, pos' = pos, asked' = asked, dst' = dst
  PROVE  /\ AcceptedExactly => AcceptedExactly'
         /\ RefusedLineIsTooLong => RefusedLineIsTooLong'
  BY DEF AcceptedExactly, RefusedLineIsTooLong, BlankLine, LineFeed, Unbroken

LEMMA HttpsInvInit == Init => HttpsInv
  <1> SUFFICES ASSUME Init PROVE HttpsInv
    OBVIOUS
  <1>1. request \in Request /\ pos = 0 /\ line = <<>>
    BY HttpsAssumption DEF Init
  <1>2. /\ MaxLine \in Nat /\ MaxLine > 0 /\ Len(request.chars) \in Nat
        /\ Len(line) = 0 /\ line \in Seq(Char)
    <2>1. request.chars \in Seq(Char)
      BY <1>1 DEF Request
    <2> QED
      BY <1>1, <2>1, HttpsAssumption, LenProperties, EmptySeq
  <1>3. /\ op = "read_first_line" /\ ver = "1.0" /\ dst = "none" /\ eof \in BOOLEAN
        /\ asked = "pending" /\ told = "none" /\ reply = NoReply
    BY DEF Init
  <1>4. TypeOK
    BY <1>1, <1>2, <1>3 DEF TypeOK
  <1>5. LineSoFar
    BY <1>1, <1>2, <1>3 DEF LineSoFar, Unbroken
  <1>6. HeadSoFar
    BY <1>1 DEF HeadSoFar
  <1>7. Outcome
    BY <1>3 DEF Outcome, Reading
  <1> QED
    BY <1>3, <1>4, <1>5, <1>6, <1>7 DEF HttpsInv, AcceptedExactly, RefusedLineIsTooLong

LEMMA AnswerStep ==
  ASSUME HttpsInv, NEW mc \in {"Succeeded", "refused"}, Answer(mc)
  PROVE  HttpsInv'
  <1>1. TypeOK /\ Outcome /\ AcceptedExactly /\ RefusedLineIsTooLong
    BY DEF HttpsInv
  <1>2. /\ asked = "ok" /\ told = "none" /\ told' = mc /\ op' = "write"
        /\ UNCHANGED <<request, eof, pos, line, ver, dst, asked, reply>>
    BY DEF Answer, clientVars
  <1>3. TypeOK'
    BY <1>1, <1>2 DEF TypeOK
  <1>4. Outcome'
    BY <1>1, <1>2 DEF Outcome, Reading, Acceptable, Endless, TargetParsed
  <1>5. AcceptedExactly' /\ RefusedLineIsTooLong'
    BY <1>1, <1>2, SameRequest
  <1> QED
    BY <1>2, <1>3, <1>4, <1>5 DEF HttpsInv, LineSoFar, HeadSoFar, Reading

LEMMA AnswerWrittenStep ==
  ASSUME HttpsInv, AnswerWritten
  PROVE  HttpsInv'
  <1>1. TypeOK /\ Outcome /\ AcceptedExactly /\ RefusedLineIsTooLong
    BY DEF HttpsInv
  <1>2. /\ op = "write" /\ op' = "none" /\ reply' = [ver |-> ver, code |-> Code(told)]
        /\ UNCHANGED <<request, eof, pos, line, ver, dst, asked, told>>
    BY DEF AnswerWritten, clientVars
  <1>3. TypeOK'
    BY <1>1, <1>2 DEF TypeOK, Code
  <1>4. Outcome'
    BY <1>1, <1>2 DEF Outcome, Reading, Acceptable, Endless, TargetParsed
  <1>5. AcceptedExactly' /\ RefusedLineIsTooLong'
    BY <1>1, <1>2, SameRequest
  <1> QED
    BY <1>2, <1>3, <1>4, <1>5 DEF HttpsInv, LineSoFar, HeadSoFar, Reading

LEMMA BreaksStep ==
  ASSUME HttpsInv, Breaks
  PROVE  HttpsInv'
  <1>1. TypeOK /\ Outcome /\ AcceptedExactly /\ RefusedLineIsTooLong
    BY DEF HttpsInv
  <1>2. /\ op \in {"read_first_line", "read_another_line", "write"} /\ op' = "none"
        /\ asked' = IF op = "write" THEN asked ELSE "broken"
        /\ UNCHANGED <<request, eof, pos, line, ver, dst, told, reply>>
    BY DEF Breaks, clientVars
  <1>3. TypeOK'
    BY <1>1, <1>2 DEF TypeOK
  <1>4. AcceptedExactly' /\ RefusedLineIsTooLong'
    <2>1. CASE op = "write"
      BY <1>1, <1>2, <2>1, SameRequest
    <2>2. CASE op # "write"
      BY <1>2, <2>2 DEF AcceptedExactly, RefusedLineIsTooLong
    <2> QED
      BY <2>1, <2>2
  <1>5. Outcome'
    <2>1. CASE op = "write"
      BY <1>1, <1>2, <2>1 DEF Outcome, Reading, Acceptable, Endless, TargetParsed
    <2>2. CASE op # "write"
      <3>1. Reading
        BY <1>2, <2>2 DEF Reading
      <3> QED
        BY <1>2, <2>2, <3>1, NothingYet DEF Outcome, Reading
    <2> QED
      BY <2>1, <2>2
  <1> QED
    BY <1>2, <1>3, <1>4, <1>5 DEF HttpsInv, LineSoFar, HeadSoFar, Reading

LEMMA HttpsInvStep ==
  ASSUME HttpsInv, [Next]_vars
  PROVE  HttpsInv'
  <1>1. CASE CharRead
    BY <1>1, CharReadStep
  <1>2. CASE AnswerWritten
    BY <1>2, AnswerWrittenStep
  <1>3. CASE Breaks
    BY <1>3, BreaksStep
  <1>4. ASSUME NEW mc \in {"Succeeded", "refused"}, Answer(mc) PROVE HttpsInv'
    BY <1>4, AnswerStep
  <1>5. CASE UNCHANGED vars
    <2>1. /\ request' = request /\ eof' = eof /\ pos' = pos /\ line' = line /\ op' = op
          /\ ver' = ver /\ dst' = dst /\ asked' = asked /\ told' = told /\ reply' = reply
      BY <1>5 DEF vars, clientVars
    <2>2. TypeOK' /\ Outcome'
      BY <2>1 DEF HttpsInv, TypeOK, Outcome, Reading, Acceptable, Endless,
                       TargetParsed
    <2>3. AcceptedExactly' /\ RefusedLineIsTooLong'
      BY <2>1, SameRequest DEF HttpsInv
    <2>4. LineSoFar'
      BY <2>1 DEF HttpsInv, LineSoFar, Reading, LineFeed, Unbroken
    <2>5. HeadSoFar'
      BY <2>1 DEF HttpsInv, HeadSoFar, Reading, BlankLine, LineFeed, Unbroken
    <2> QED
      BY <2>2, <2>3, <2>4, <2>5 DEF HttpsInv
  <1> QED
    BY <1>1, <1>2, <1>3, <1>4, <1>5 DEF Next, Progress, EndOfStream

\* HttpsInv is inductive: what the line buffer holds and what has been passed
\* of the head, with the handlers called so far.
THEOREM HttpsInvariant == Spec => []HttpsInv
  BY HttpsInvInit, HttpsInvStep, PTL DEF Spec

-----------------------------------------------------------------------------
(* What the session relies on.                                              *)

\* Every variable keeps its type: the buffer of a line never outgrows the
\* limit, and nothing is read past the end of the stream.
THEOREM HttpsTypeCorrect == Spec => []TypeOK
  <1>1. HttpsInv => TypeOK
    BY DEF HttpsInv
  <1> QED
    BY <1>1, HttpsInvariant, PTL

\* A request is accepted at the first blank line of the stream and not a
\* character further, whatever the client sends, in lines of any length: what
\* comes behind the head is for the tunnel.
THEOREM RequestAcceptedExactly == Spec => []AcceptedExactly
  <1>1. HttpsInv => AcceptedExactly
    BY DEF HttpsInv
  <1> QED
    BY <1>1, HttpsInvariant, PTL

\* The error line_too_long is true: MaxLine characters have come without the
\* end of a line, right behind one or at the start of the stream.
THEOREM RefusalIsForLength == Spec => []RefusedLineIsTooLong
  <1>1. HttpsInv => RefusedLineIsTooLong
    BY DEF HttpsInv
  <1> QED
    BY <1>1, HttpsInvariant, PTL

\* The status line tells the client what the session was told, in the version
\* of its request.
THEOREM ReplyTells == Spec => []ReplyIsTrue
  <1>1. HttpsInv => ReplyIsTrue
    <2> SUFFICES ASSUME HttpsInv, reply # NoReply PROVE ReplyIsTrue
      BY DEF ReplyIsTrue
    <2>1. TypeOK /\ Outcome
      BY DEF HttpsInv
    <2>2. reply = [ver |-> ver, code |-> Code(told)] /\ told # "none"
      BY <2>1 DEF Outcome
    <2>3. asked = "ok" /\ ver = request.first.version
      BY <2>1, <2>2 DEF Outcome
    <2>4. reply.ver = ver /\ reply.code = Code(told)
      BY <2>2
    <2> QED
      BY <2>3, <2>4 DEF ReplyIsTrue, Code
  <1> QED
    BY <1>1, HttpsInvariant, PTL

-----------------------------------------------------------------------------
(* The session implements the interface that input uses.                    *)

LEMMA ContractInit ==
  ASSUME Init
  PROVE  Contract!Init
  BY DEF Init, Contract!Init, Phase

LEMMA ContractStep ==
  ASSUME HttpsInv, HttpsInv', [Next]_vars
  PROVE  [Contract!Next]_(Contract!vars)
  <1>0. TypeOK /\ Outcome /\ TypeOK' /\ Outcome'
    BY DEF HttpsInv
  <1>1. CASE CharRead
    <2>1. Reading /\ told' = told /\ reply' = reply
      BY <1>1 DEF CharRead, Reading
    <2>2. Phase = "reading" /\ dst = "none" /\ told' = "none" /\ reply' = NoReply
      BY <2>1, NothingYet DEF Phase
    <2>3. CASE asked' = "pending"
      <3>1. Phase' = "reading" /\ dst' = dst
        BY <1>0, <2>2, <2>3 DEF Phase, Outcome
      <3> QED
        BY <2>2, <3>1 DEF Contract!vars
    <2>4. CASE asked' = "ok"
      <3>1. Phase' = "requested"
        BY <1>0, <2>2, <2>4 DEF Phase, Outcome
      <3>2. dst' \in {"v4", "v6", "name"}
        <4>1. AcceptedExactly' /\ op' # "read_another_line"
          BY <1>0, <2>4 DEF HttpsInv, Outcome, Reading
        <4>2. TypeOK' /\ Acceptable(request.first)' /\ dst' = request'.first.host
          BY <1>0, <2>4 DEF Outcome
        <4>3. request'.first \in FirstLine
          BY <1>0 DEF TypeOK, Request
        <4> QED
          BY <4>2, <4>3 DEF Acceptable, TargetParsed, FirstLine
      <3> QED
        BY <2>2, <3>1, <3>2 DEF Contract!Next, Contract!RequestRead
    <2>5. CASE asked' \notin {"pending", "ok"}
      <3>1. op' # "write"
        BY <1>0, <2>2 DEF Outcome
      <3>2. Phase' = "failed" /\ dst' = dst
        BY <1>0, <2>2, <2>5, <3>1 DEF Phase, Outcome
      <3> QED
        BY <2>2, <3>2 DEF Contract!Next, Contract!Fails
    <2> QED
      BY <2>3, <2>4, <2>5
  <1>2. CASE AnswerWritten
    <2>1. /\ op = "write" /\ op' = "none" /\ reply' = [ver |-> ver, code |-> Code(told)]
          /\ asked' = asked /\ told' = told /\ dst' = dst
      BY <1>2 DEF AnswerWritten
    <2>2. asked = "ok" /\ told # "none"
      BY <1>0, <2>1 DEF Outcome
    <2>3. reply' # NoReply
      <3>1. reply'.code \in {200, 502}
        BY <2>1 DEF Code
      <3> QED
        BY <3>1 DEF NoReply
    <2>4. Phase = "answering" /\ Phase' = "answered"
      BY <1>0, <2>1, <2>2, <2>3 DEF Phase, Outcome
    <2> QED
      BY <2>1, <2>4 DEF Contract!Next, Contract!AnswerWritten
  <1>3. CASE Breaks
    <2>1. /\ op \in {"read_first_line", "read_another_line", "write"} /\ op' = "none"
          /\ told' = told /\ dst' = dst /\ reply' = reply
          /\ asked' = IF op = "write" THEN asked ELSE "broken"
      BY <1>3 DEF Breaks
    <2>2. reply = NoReply
      BY <1>0, <2>1 DEF Outcome
    <2>3. CASE op = "write"
      <3>1. asked = "ok" /\ told # "none"
        BY <1>0, <2>3 DEF Outcome
      <3>2. Phase = "answering" /\ Phase' = "failed"
        BY <2>1, <2>2, <2>3, <3>1 DEF Phase
      <3> QED
        BY <2>1, <3>2 DEF Contract!Next, Contract!Fails
    <2>4. CASE op # "write"
      <3>1. Reading
        BY <2>1, <2>4 DEF Reading
      <3>2. Phase = "reading" /\ Phase' = "failed"
        BY <2>1, <2>2, <2>4, <3>1, NothingYet DEF Phase
      <3> QED
        BY <2>1, <3>2 DEF Contract!Next, Contract!Fails
    <2> QED
      BY <2>3, <2>4
  <1>4. ASSUME NEW mc \in {"Succeeded", "refused"}, Answer(mc)
        PROVE  [Contract!Next]_(Contract!vars)
    <2>1. /\ asked = "ok" /\ told = "none" /\ told' = mc /\ op' = "write"
          /\ asked' = asked /\ dst' = dst
      BY <1>4 DEF Answer
    <2>2. Phase = "requested" /\ Phase' = "answering"
      BY <1>0, <2>1 DEF Phase, Outcome
    <2> QED
      BY <2>1, <2>2 DEF Contract!Next, Contract!StartAnswer
  <1>5. CASE UNCHANGED vars
    BY <1>5 DEF vars, Contract!vars, Phase
  <1> QED
    BY <1>1, <1>2, <1>3, <1>4, <1>5 DEF Next, Progress, EndOfStream

\* The HTTPS session keeps the contract of proxy/server_session.h: each handler
\* is called once and in order, and the user's destination is assigned when
\* the first reports no error and in no other case.
THEOREM HttpsContractKept == Spec => KeepsContract
  <1>1. Init => Contract!Init
    BY ContractInit
  <1>2. HttpsInv /\ HttpsInv' /\ [Next]_vars => [Contract!Next]_(Contract!vars)
    BY ContractStep
  <1> QED
    BY <1>1, <1>2, HttpsInvariant, PTL DEF Spec, KeepsContract, Contract!Spec

=============================================================================
