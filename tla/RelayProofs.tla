----------------------------- MODULE RelayProofs -----------------------------
(***************************************************************************)
(* Proofs about Relay for every buffer size and every length of stream:    *)
(* type correctness, the inductive invariant RelayInv, and from it the     *)
(* safety properties of a tunnel.                                          *)
(***************************************************************************)
EXTENDS Relay, Integers, TLAPS

\* The two sockets are each other's partner.
LEMMA Partners ==
  /\ \A s \in Socket : Other(s) \in Socket /\ Other(s) # s /\ Other(Other(s)) = s
  /\ \A s, x \in Socket : x # s => x = Other(s)
  BY DEF Socket, Other

\* Nothing of direction x changes but, perhaps, that the session closes.
SameDirection(x) ==
  /\ sent'[x] = sent[x] /\ fin'[x] = fin[x] /\ got'[x] = got[x] /\ buf'[x] = buf[x]
  /\ rd'[x] = rd[x] /\ num'[x] = num[x] /\ (open' => open)
  /\ \A y \in Socket : broken[y] => broken'[y]
  /\ wr'[Other(x)] = wr[Other(x)]
  /\ out'[Other(x)] = out[Other(x)] /\ shut'[Other(x)] = shut[Other(x)]
  /\ from'[Other(x)] = from[Other(x)] /\ upto'[Other(x)] = upto[Other(x)]

\* A step that leaves a direction alone keeps its part of the invariant, even if
\* it closes the session or a connection fails.
LEMMA Frame ==
  ASSUME NEW x \in Socket, DirectionInv(x), SameDirection(x)
  PROVE  DirectionInv(x)'
  <1>1. Other(x) \in Socket
    BY Partners
  <1>2. (broken[x] => broken'[x]) /\ (broken[Other(x)] => broken'[Other(x)])
    BY <1>1 DEF SameDirection
  <1> QED
    BY <1>2 DEF SameDirection, DirectionInv, Done, Delivered, Reading, HasRead, Writing,
                HasWritten, AtRest, ErrorsHaveCause

\* What Append does to the bytes delivered so far.
LEMMA AppendByte ==
  ASSUME NEW q \in Seq(Nat), NEW b \in Nat
  PROVE  /\ Append(q, b) \in Seq(Nat)
         /\ Len(Append(q, b)) = Len(q) + 1
         /\ Append(q, b)[Len(q) + 1] = b
         /\ \A i \in 1..Len(q) : Append(q, b)[i] = q[i]
  OBVIOUS

\* The numbers of a direction, as the provers need them.
LEMMA Typed ==
  ASSUME TypeOK, NEW s \in Socket
  PROVE  /\ sent[s] \in Nat /\ got[s] \in Nat /\ sent[s] <= MaxSent
         /\ num[s] \in Nat /\ from[s] \in Nat /\ upto[s] \in Nat
         /\ num[s] <= BufSize /\ upto[s] <= BufSize
         /\ Done(s) \in Nat
  BY RelayAssumption, Partners DEF TypeOK, Done

-----------------------------------------------------------------------------
\* make_tunnel() establishes the invariant.
LEMMA RelayInvInit == Init => RelayInv
  <1> SUFFICES ASSUME Init PROVE RelayInv
    OBVIOUS
  <1> USE Partners, RelayAssumption DEF Init, Idle, Pending
  <1>1. TypeOK
    BY DEF TypeOK
  <1>2. ASSUME NEW s \in Socket PROVE DirectionInv(s)
    BY DEF DirectionInv, Done, Delivered, Reading, HasRead, Writing, HasWritten,
           AtRest, ErrorsHaveCause
  <1>3. GracefulEnd
    BY DEF GracefulEnd
  <1> QED
    BY <1>1, <1>2, <1>3 DEF RelayInv

\* The peers only extend their streams, finish them or fail.
LEMMA PeerSendStep ==
  ASSUME RelayInv, NEW s \in Socket, PeerSend(s)
  PROVE  RelayInv'
  <1> USE Partners, RelayAssumption DEF Idle, Pending
  <1>0. TypeOK /\ DirectionInv(s) /\ DirectionInv(Other(s))
    BY DEF RelayInv
  <1>t. sent[s] \in Nat /\ got[s] \in Nat /\ Done(s) \in Nat
    BY <1>0, Typed
  <1>1. /\ open /\ ~fin[s] /\ ~broken[s] /\ sent[s] < MaxSent
        /\ sent' = [sent EXCEPT ![s] = sent[s] + 1]
        /\ UNCHANGED <<fin, broken, out, got, buf, rd, num, wr, from, upto, shut, open>>
    BY DEF PeerSend, readVars, writeVars
  <1>2. sent'[s] = sent[s] + 1 /\ sent[s] + 1 \in 0..MaxSent
    <2>1. sent'[s] = sent[s] + 1
      BY <1>0, <1>1 DEF TypeOK
    <2>2. sent[s] + 1 \in 0..MaxSent
      BY <1>1, <1>t
    <2> QED
      BY <2>1, <2>2
  <1>3. TypeOK'
    BY <1>0, <1>1, <1>2 DEF TypeOK
  <1>4. DirectionInv(Other(s))'
    BY <1>0, <1>1, Frame DEF TypeOK, SameDirection
  <1>5. Done(s)' = Done(s)
    BY <1>1 DEF Done
  <1>6. (Done(s) <= got[s] /\ got[s] <= sent[s])'
    BY <1>0, <1>1, <1>2, <1>5, <1>t DEF DirectionInv
  <1>7. Delivered(s)'
    BY <1>0, <1>1, <1>5 DEF DirectionInv, Delivered
  <1>8. (Reading(s) /\ HasRead(s) /\ Writing(s) /\ HasWritten(s))'
    BY <1>0, <1>1, <1>5 DEF DirectionInv, Reading, HasRead, Writing, HasWritten
  <1>9. (AtRest(s) /\ ErrorsHaveCause(s))'
    BY <1>0, <1>1 DEF DirectionInv, AtRest, ErrorsHaveCause
  <1>10. GracefulEnd'
    BY <1>0, <1>1 DEF GracefulEnd
  <1> QED
    BY <1>3, <1>4, <1>6, <1>7, <1>8, <1>9, <1>10 DEF RelayInv, DirectionInv

\* A finished stream stays as long as it is.
LEMMA PeerShutStep ==
  ASSUME RelayInv, NEW s \in Socket, PeerShut(s)
  PROVE  RelayInv'
  <1> USE Partners, RelayAssumption DEF PeerShut, peerVars, readVars, writeVars, Idle, Pending
  <1>0. TypeOK /\ DirectionInv(s) /\ DirectionInv(Other(s)) /\ s \in Socket
    BY DEF RelayInv
  <1>1. TypeOK'
    BY <1>0 DEF TypeOK, DirectionInv, Writing
  <1>2. DirectionInv(Other(s))'
    BY <1>0, Frame DEF TypeOK, SameDirection
  <1>3. (Done(s) <= got[s] /\ got[s] <= sent[s])'
    BY <1>0, <1>1 DEF TypeOK, DirectionInv, Done
  <1>4. Delivered(s)'
    BY <1>0, <1>1 DEF TypeOK, DirectionInv, Done, Delivered
  <1>5. Reading(s)'
    BY <1>0, <1>1 DEF TypeOK, DirectionInv, Done, Reading
  <1>6. HasRead(s)'
    BY <1>0, <1>1 DEF TypeOK, DirectionInv, Done, HasRead
  <1>7. Writing(s)'
    BY <1>0, <1>1 DEF TypeOK, DirectionInv, Done, Writing
  <1>8. HasWritten(s)'
    BY <1>0, <1>1 DEF TypeOK, DirectionInv, Done, HasWritten
  <1>9. AtRest(s)'
    BY <1>0, <1>1 DEF TypeOK, DirectionInv, Done, AtRest
  <1>10. ErrorsHaveCause(s)'
    BY <1>0, <1>1 DEF TypeOK, DirectionInv, Done, ErrorsHaveCause
  <1>11. GracefulEnd'
    BY <1>0 DEF RelayInv, TypeOK, GracefulEnd, DirectionInv, AtRest, ErrorsHaveCause
  <1> QED
    BY <1>1, <1>2, <1>3, <1>4, <1>5, <1>6, <1>7, <1>8, <1>9, <1>10, <1>11
    DEF RelayInv, DirectionInv

\* A failure only gives errors a cause.
LEMMA PeerBreakStep ==
  ASSUME RelayInv, NEW s \in Socket, PeerBreak(s)
  PROVE  RelayInv'
  <1> USE Partners, RelayAssumption DEF PeerBreak, peerVars, readVars, writeVars, Idle, Pending
  <1>0. TypeOK /\ DirectionInv(s) /\ DirectionInv(Other(s)) /\ s \in Socket
    BY DEF RelayInv
  <1>1. TypeOK'
    BY <1>0 DEF TypeOK, DirectionInv, Writing
  <1>2. DirectionInv(Other(s))'
    BY <1>0, Frame DEF TypeOK, SameDirection
  <1>3. (Done(s) <= got[s] /\ got[s] <= sent[s])'
    BY <1>0, <1>1 DEF TypeOK, DirectionInv, Done
  <1>4. Delivered(s)'
    BY <1>0, <1>1 DEF TypeOK, DirectionInv, Done, Delivered
  <1>5. Reading(s)'
    BY <1>0, <1>1 DEF TypeOK, DirectionInv, Done, Reading
  <1>6. HasRead(s)'
    BY <1>0, <1>1 DEF TypeOK, DirectionInv, Done, HasRead
  <1>7. Writing(s)'
    BY <1>0, <1>1 DEF TypeOK, DirectionInv, Done, Writing
  <1>8. HasWritten(s)'
    BY <1>0, <1>1 DEF TypeOK, DirectionInv, Done, HasWritten
  <1>9. AtRest(s)'
    BY <1>0, <1>1 DEF TypeOK, DirectionInv, Done, AtRest
  <1>10. ErrorsHaveCause(s)'
    BY <1>0, <1>1 DEF TypeOK, DirectionInv, Done, ErrorsHaveCause
  <1>11. GracefulEnd'
    BY <1>0 DEF RelayInv, TypeOK, GracefulEnd, DirectionInv, AtRest, ErrorsHaveCause
  <1> QED
    BY <1>1, <1>2, <1>3, <1>4, <1>5, <1>6, <1>7, <1>8, <1>9, <1>10, <1>11
    DEF RelayInv, DirectionInv

\* A read fills the buffer with the bytes that follow those delivered.
LEMMA ReadDataStep ==
  ASSUME RelayInv, NEW s \in Socket, ReadData(s)
  PROVE  RelayInv'
  <1> USE Partners, RelayAssumption DEF Idle, Pending
  <1>0. TypeOK /\ DirectionInv(s) /\ DirectionInv(Other(s))
    BY DEF RelayInv
  <1>t. /\ sent[s] \in Nat /\ got[s] \in Nat /\ sent[s] <= MaxSent /\ Done(s) \in Nat
    BY <1>0, Typed
  <1> DEFINE filled(n) ==
        [i \in 1..BufSize |-> IF i <= n THEN got[s] + i ELSE buf[s][i]]
  <1>1. PICK n \in 1..BufSize :
          /\ got[s] + n <= sent[s]
          /\ buf' = [buf EXCEPT ![s] = filled(n)]
          /\ got' = [got EXCEPT ![s] = got[s] + n]
          /\ num' = [num EXCEPT ![s] = n]
    BY DEF ReadData
  <1>2. /\ rd[s] = Pending /\ open
        /\ rd' = [rd EXCEPT ![s] = "ok"]
        /\ UNCHANGED <<sent, fin, broken, out, wr, from, upto, shut, open>>
    BY DEF ReadData, peerVars, writeVars
  <1>3. /\ rd'[s] = "ok" /\ num'[s] = n /\ got'[s] = got[s] + n
        /\ \A i \in 1..n : buf'[s][i] = got[s] + i
    BY <1>0, <1>1, <1>2 DEF TypeOK
  <1>4. /\ wr[Other(s)] = Idle /\ got[s] = Done(s) /\ Done(s)' = Done(s)
        /\ wr'[Other(s)] = Idle
    BY <1>0, <1>2 DEF DirectionInv, Reading, Done
  <1>5. TypeOK'
    <2>1. got[s] + n \in 0..MaxSent
      BY <1>1, <1>t
    <2>2. filled(n) \in [1..BufSize -> Nat]
      <3>1. buf[s] \in [1..BufSize -> Nat]
        BY <1>0 DEF TypeOK
      <3>2. \A i \in 1..BufSize : got[s] + i \in Nat
        BY <1>t
      <3> QED
        BY <3>1, <3>2
    <2>3. got' \in [Socket -> 0..MaxSent]
      BY <1>0, <1>1, <2>1 DEF TypeOK
    <2>4. num' \in [Socket -> 0..BufSize]
      BY <1>0, <1>1 DEF TypeOK
    <2>5. buf' \in [Socket -> [1..BufSize -> Nat]]
      BY <1>0, <1>1, <2>2 DEF TypeOK
    <2> QED
      BY <1>0, <1>2, <2>3, <2>4, <2>5 DEF TypeOK
  <1>6. DirectionInv(Other(s))'
    BY <1>0, <1>1, <1>2, Frame DEF TypeOK, SameDirection
  <1>7. (Done(s) <= got[s] /\ got[s] <= sent[s])'
    BY <1>1, <1>2, <1>3, <1>4, <1>t
  <1>8. Delivered(s)'
    BY <1>0, <1>2, <1>4 DEF DirectionInv, Delivered
  <1>9. (Reading(s) /\ Writing(s) /\ HasWritten(s))'
    BY <1>3, <1>4 DEF Reading, Writing, HasWritten
  <1>10. HasRead(s)'
    <2>1. n > 0 /\ got'[s] = Done(s)' + n
      BY <1>3, <1>4, <1>t
    <2>2. \A i \in 1..n : buf'[s][i] = Done(s)' + i
      BY <1>3, <1>4
    <2> QED
      BY <1>3, <1>4, <2>1, <2>2 DEF HasRead
  <1>11. (AtRest(s) /\ ErrorsHaveCause(s))'
    BY <1>0, <1>2, <1>3, <1>4 DEF DirectionInv, AtRest, ErrorsHaveCause
  <1>12. GracefulEnd'
    BY <1>0, <1>2 DEF GracefulEnd
  <1> QED
    BY <1>5, <1>6, <1>7, <1>8, <1>9, <1>10, <1>11, <1>12 DEF RelayInv, DirectionInv


\* Eof is read after the last byte.
LEMMA ReadEofStep ==
  ASSUME RelayInv, NEW s \in Socket, ReadEof(s)
  PROVE  RelayInv'
  <1> USE Partners, RelayAssumption DEF ReadEof, peerVars, readVars, writeVars, Idle, Pending
  <1>0. TypeOK /\ DirectionInv(s) /\ DirectionInv(Other(s)) /\ s \in Socket
    BY DEF RelayInv
  <1>1. TypeOK'
    BY <1>0 DEF TypeOK, DirectionInv, Writing
  <1>2. DirectionInv(Other(s))'
    BY <1>0, Frame DEF TypeOK, SameDirection
  <1>3. (Done(s) <= got[s] /\ got[s] <= sent[s])'
    BY <1>0, <1>1 DEF TypeOK, DirectionInv, Done
  <1>4. Delivered(s)'
    BY <1>0, <1>1 DEF TypeOK, DirectionInv, Done, Delivered
  <1>5. Reading(s)'
    BY <1>0, <1>1 DEF TypeOK, DirectionInv, Done, Reading
  <1>6. HasRead(s)'
    BY <1>0, <1>1 DEF TypeOK, DirectionInv, Done, HasRead
  <1>7. Writing(s)'
    BY <1>0, <1>1 DEF TypeOK, DirectionInv, Done, Writing
  <1>8. HasWritten(s)'
    BY <1>0, <1>1 DEF TypeOK, DirectionInv, Done, HasWritten
  <1>9. AtRest(s)'
    BY <1>0, <1>1 DEF TypeOK, DirectionInv, Done, AtRest
  <1>10. ErrorsHaveCause(s)'
    BY <1>0, <1>1 DEF TypeOK, DirectionInv, Done, ErrorsHaveCause
  <1>11. GracefulEnd'
    BY <1>0 DEF RelayInv, TypeOK, GracefulEnd, DirectionInv, AtRest, ErrorsHaveCause
  <1> QED
    BY <1>1, <1>2, <1>3, <1>4, <1>5, <1>6, <1>7, <1>8, <1>9, <1>10, <1>11
    DEF RelayInv, DirectionInv

\* A failed read leaves the direction where it was.
LEMMA ReadFailsStep ==
  ASSUME RelayInv, NEW s \in Socket, ReadFails(s)
  PROVE  RelayInv'
  <1> USE Partners, RelayAssumption DEF ReadFails, peerVars, readVars, writeVars, Idle, Pending
  <1>0. TypeOK /\ DirectionInv(s) /\ DirectionInv(Other(s)) /\ s \in Socket
    BY DEF RelayInv
  <1>1. TypeOK'
    BY <1>0 DEF TypeOK, DirectionInv, Writing
  <1>2. DirectionInv(Other(s))'
    BY <1>0, Frame DEF TypeOK, SameDirection
  <1>3. (Done(s) <= got[s] /\ got[s] <= sent[s])'
    BY <1>0, <1>1 DEF TypeOK, DirectionInv, Done
  <1>4. Delivered(s)'
    BY <1>0, <1>1 DEF TypeOK, DirectionInv, Done, Delivered
  <1>5. Reading(s)'
    BY <1>0, <1>1 DEF TypeOK, DirectionInv, Done, Reading
  <1>6. HasRead(s)'
    BY <1>0, <1>1 DEF TypeOK, DirectionInv, Done, HasRead
  <1>7. Writing(s)'
    BY <1>0, <1>1 DEF TypeOK, DirectionInv, Done, Writing
  <1>8. HasWritten(s)'
    BY <1>0, <1>1 DEF TypeOK, DirectionInv, Done, HasWritten
  <1>9. AtRest(s)'
    BY <1>0, <1>1 DEF TypeOK, DirectionInv, Done, AtRest
  <1>10. ErrorsHaveCause(s)'
    BY <1>0, <1>1 DEF TypeOK, DirectionInv, Done, ErrorsHaveCause
  <1>11. GracefulEnd'
    BY <1>0 DEF RelayInv, TypeOK, GracefulEnd, DirectionInv, AtRest, ErrorsHaveCause
  <1> QED
    BY <1>1, <1>2, <1>3, <1>4, <1>5, <1>6, <1>7, <1>8, <1>9, <1>10, <1>11
    DEF RelayInv, DirectionInv

\* A byte written is the next byte of the stream.
LEMMA WriteByteStep ==
  ASSUME RelayInv, NEW s \in Socket, WriteByte(s)
  PROVE  RelayInv'
  <1> USE Partners, RelayAssumption DEF Idle, Pending
  <1> DEFINE d == Other(s)
  <1>0. /\ TypeOK /\ DirectionInv(d) /\ DirectionInv(s)
        /\ d \in Socket /\ d # s /\ Other(d) = s
    BY DEF RelayInv
  <1>t. /\ sent[d] \in Nat /\ got[d] \in Nat /\ Done(d) \in Nat
        /\ from[s] \in Nat /\ upto[s] \in Nat /\ upto[s] <= BufSize
    BY <1>0, Typed
  <1>1. /\ wr[s] = Pending /\ open /\ ~broken[s]
        /\ out' = [out EXCEPT ![s] = Append(out[s], buf[d][from[s] + 1])]
        /\ from' = [from EXCEPT ![s] = from[s] + 1]
        /\ wr' = [wr EXCEPT ![s] = IF from[s] + 1 = upto[s] THEN "ok" ELSE Pending]
        /\ UNCHANGED <<sent, fin, broken, got, buf, rd, num, upto, shut, open>>
    BY DEF WriteByte, peerVars, readVars
  <1>2. /\ rd[d] = Idle
        /\ from[s] < upto[s]
        /\ got[d] = Done(d) + upto[s] - from[s]
        /\ \A i \in from[s]+1..upto[s] : buf[d][i] = Done(d) + i - from[s]
    BY <1>0, <1>1 DEF DirectionInv, Writing
  <1>3. from[s] + 1 \in 1..BufSize /\ from[s] + 1 \in from[s]+1..upto[s]
    BY <1>t, <1>2
  <1>4. buf[d][from[s] + 1] = Done(d) + 1
    <2>1. buf[d][from[s] + 1] = Done(d) + (from[s] + 1) - from[s]
      BY <1>2, <1>3
    <2> QED
      BY <1>t, <2>1
  <1>5. /\ from'[s] = from[s] + 1
        /\ wr'[s] = IF from[s] + 1 = upto[s] THEN "ok" ELSE Pending
        /\ out'[s] = Append(out[s], Done(d) + 1)
        /\ out[s] \in Seq(Nat)
    BY <1>0, <1>1, <1>4 DEF TypeOK
  <1>6. /\ Done(d) = Len(out[s])
        /\ Done(d)' = Done(d) + 1
        /\ out'[s] \in Seq(Nat)
        /\ out'[s][Done(d) + 1] = Done(d) + 1
        /\ \A i \in 1..Done(d) : out'[s][i] = out[s][i]
    BY <1>0, <1>t, <1>5, AppendByte DEF Done
  <1>7. TypeOK'
    <2>1. out' \in [Socket -> Seq(Nat)]
      BY <1>0, <1>1, <1>6 DEF TypeOK
    <2>2. from' \in [Socket -> 0..BufSize]
      <3>1. from[s] + 1 \in 0..BufSize
        BY <1>3
      <3> QED
        BY <1>0, <1>1, <3>1 DEF TypeOK
    <2>3. wr' \in [Socket -> {Idle, Pending, "ok", "err"}]
      BY <1>0, <1>1 DEF TypeOK
    <2> QED
      BY <1>0, <1>1, <2>1, <2>2, <2>3 DEF TypeOK
  <1>8. DirectionInv(s)'
    BY <1>0, <1>1, Frame DEF TypeOK, SameDirection
  <1>9. (Done(d) <= got[d] /\ got[d] <= sent[d])'
    BY <1>0, <1>1, <1>2, <1>6, <1>t DEF DirectionInv
  <1>10. Delivered(d)'
    <2> SUFFICES ASSUME NEW i \in 1..Done(d) + 1 PROVE out'[s][i] = i
      BY <1>0, <1>6 DEF Delivered
    <2>1. CASE i \in 1..Done(d)
      BY <1>0, <1>6, <2>1 DEF DirectionInv, Delivered
    <2>2. CASE i = Done(d) + 1
      BY <1>6, <2>2
    <2> QED
      BY <1>t, <2>1, <2>2
  <1>11. (Reading(d) /\ HasRead(d))'
    BY <1>1, <1>2 DEF Reading, HasRead
  <1>12. Writing(d)'
    <2> SUFFICES ASSUME wr'[s] \in {Pending, "err"} PROVE Writing(d)'
      BY <1>0 DEF Writing
    <2>1. from[s] + 1 < upto[s]
      BY <1>2, <1>5, <1>t
    <2>2. got'[d] = Done(d)' + upto'[s] - from'[s]
      BY <1>1, <1>2, <1>5, <1>6, <1>t
    <2>3. ASSUME NEW i \in from'[s]+1..upto'[s]
          PROVE  buf'[d][i] = Done(d)' + i - from'[s]
      <3>1. i \in from[s]+1..upto[s] /\ i \in Int
        BY <1>1, <1>5, <1>t
      <3>2. buf[d][i] = Done(d) + i - from[s]
        BY <1>2, <3>1
      <3>3. buf'[d][i] = buf[d][i] /\ from'[s] = from[s] + 1 /\ Done(d)' = Done(d) + 1
        BY <1>1, <1>5, <1>6
      <3> HIDE DEF d
      <3>4. Done(d) + i - from[s] = Done(d) + 1 + i - (from[s] + 1)
        BY <1>t, <3>1
      <3> QED
        BY <3>2, <3>3, <3>4
    <2> QED
      BY <1>0, <1>1, <1>2, <1>5, <2>1, <2>2, <2>3 DEF Writing
  <1>13. HasWritten(d)'
    <2> SUFFICES ASSUME wr'[s] = "ok" PROVE HasWritten(d)'
      BY <1>0 DEF HasWritten
    <2>1. from[s] + 1 = upto[s]
      BY <1>5
    <2> QED
      BY <1>0, <1>1, <1>2, <1>6, <1>t, <2>1 DEF HasWritten
  <1>14. (AtRest(d) /\ ErrorsHaveCause(d))'
    BY <1>0, <1>1, <1>2, <1>5 DEF DirectionInv, AtRest, ErrorsHaveCause
  <1>15. GracefulEnd'
    BY <1>1 DEF GracefulEnd
  <1> QED
    BY <1>0, <1>7, <1>8, <1>9, <1>10, <1>11, <1>12, <1>13, <1>14, <1>15
    DEF RelayInv, DirectionInv


\* A failed write leaves the direction where it was.
LEMMA WriteFailsStep ==
  ASSUME RelayInv, NEW s \in Socket, WriteFails(s)
  PROVE  RelayInv'
  <1> USE Partners, RelayAssumption DEF WriteFails, peerVars, readVars, writeVars, Idle, Pending
  <1> DEFINE d == Other(s)
  <1>0. TypeOK /\ DirectionInv(d) /\ DirectionInv(Other(d)) /\ d \in Socket
    BY DEF RelayInv
  <1>1. TypeOK'
    BY <1>0 DEF TypeOK, DirectionInv, Writing
  <1>2. DirectionInv(Other(d))'
    BY <1>0, Frame DEF TypeOK, SameDirection
  <1>3. (Done(d) <= got[d] /\ got[d] <= sent[d])'
    BY <1>0, <1>1 DEF TypeOK, DirectionInv, Done
  <1>4. Delivered(d)'
    BY <1>0, <1>1 DEF TypeOK, DirectionInv, Done, Delivered
  <1>5. Reading(d)'
    BY <1>0, <1>1 DEF TypeOK, DirectionInv, Done, Reading
  <1>6. HasRead(d)'
    BY <1>0, <1>1 DEF TypeOK, DirectionInv, Done, HasRead
  <1>7. Writing(d)'
    BY <1>0, <1>1 DEF TypeOK, DirectionInv, Done, Writing
  <1>8. HasWritten(d)'
    BY <1>0, <1>1 DEF TypeOK, DirectionInv, Done, HasWritten
  <1>9. AtRest(d)'
    BY <1>0, <1>1 DEF TypeOK, DirectionInv, Done, AtRest
  <1>10. ErrorsHaveCause(d)'
    BY <1>0, <1>1 DEF TypeOK, DirectionInv, Done, ErrorsHaveCause
  <1>11. GracefulEnd'
    BY <1>0 DEF RelayInv, TypeOK, GracefulEnd, DirectionInv, AtRest, ErrorsHaveCause
  <1> QED
    BY <1>1, <1>2, <1>3, <1>4, <1>5, <1>6, <1>7, <1>8, <1>9, <1>10, <1>11
    DEF RelayInv, DirectionInv

\* handle_*_read without an error: the write takes over the bytes just read.
LEMMA HandleReadOkStep ==
  ASSUME RelayInv, NEW s \in Socket, HandleReadOk(s)
  PROVE  RelayInv'
  <1> USE Partners, RelayAssumption DEF HandleReadOk, BeginWrite, EndRead, peerVars, readVars, writeVars, Idle, Pending
  <1>0. TypeOK /\ DirectionInv(s) /\ DirectionInv(Other(s)) /\ s \in Socket
    BY DEF RelayInv
  <1>t. /\ sent[s] \in Nat /\ got[s] \in Nat /\ sent[s] <= MaxSent /\ Done(s) \in Nat
        /\ num[s] \in Nat /\ num[s] <= BufSize
        /\ from[Other(s)] \in Nat /\ upto[Other(s)] \in Nat /\ upto[Other(s)] <= BufSize
    BY <1>0, Typed
  <1>1. TypeOK'
    <2>1. upto' \in [Socket -> 0..BufSize] /\ from' \in [Socket -> 0..BufSize]
      BY <1>0 DEF TypeOK
    <2>2. rd' \in [Socket -> {Idle, Pending, "ok", "eof", "err"}]
      BY <1>0 DEF TypeOK
    <2>3. wr' \in [Socket -> {Idle, Pending, "ok", "err"}]
      BY <1>0 DEF TypeOK
    <2> QED
      BY <1>0, <2>1, <2>2, <2>3 DEF TypeOK
  <1>2. DirectionInv(Other(s))'
    BY <1>0, Frame DEF TypeOK, SameDirection
  <1>3. (Done(s) <= got[s] /\ got[s] <= sent[s])'
    BY <1>0, <1>1 DEF TypeOK, DirectionInv, Done
  <1>4. Delivered(s)'
    BY <1>0, <1>1 DEF TypeOK, DirectionInv, Done, Delivered
  <1>5. Reading(s)'
    BY <1>0, <1>1 DEF TypeOK, DirectionInv, Done, Reading
  <1>6. HasRead(s)'
    BY <1>0, <1>1 DEF TypeOK, DirectionInv, Done, HasRead
  <1>7. Writing(s)'
    <2>1. from'[Other(s)] = 0 /\ upto'[Other(s)] = num[s] /\ rd'[s] = Idle
      BY <1>0 DEF TypeOK
    <2>2. Done(s)' = Done(s) /\ Done(s) \in Nat
      BY <1>0, Typed DEF Done
    <2> QED
      BY <1>0, <2>1, <2>2, Typed DEF DirectionInv, HasRead, Writing
  <1>8. HasWritten(s)'
    BY <1>0, <1>1 DEF TypeOK, DirectionInv, Done, HasWritten
  <1>9. AtRest(s)'
    BY <1>0, <1>1 DEF TypeOK, DirectionInv, Done, AtRest
  <1>10. ErrorsHaveCause(s)'
    BY <1>0, <1>1 DEF TypeOK, DirectionInv, Done, ErrorsHaveCause
  <1>11. GracefulEnd'
    BY <1>0 DEF RelayInv, TypeOK, GracefulEnd, DirectionInv, AtRest, ErrorsHaveCause
  <1> QED
    BY <1>1, <1>2, <1>3, <1>4, <1>5, <1>6, <1>7, <1>8, <1>9, <1>10, <1>11
    DEF RelayInv, DirectionInv

\* handle_*_read with eof: the direction is complete.
LEMMA HandleReadEofStep ==
  ASSUME RelayInv, NEW s \in Socket, HandleReadEof(s)
  PROVE  RelayInv'
  <1> USE Partners, RelayAssumption DEF HandleReadEof, EndRead, KeepOpenWhileUsed, peerVars, readVars, writeVars, Idle, Pending
  <1>0. TypeOK /\ DirectionInv(s) /\ DirectionInv(Other(s)) /\ s \in Socket
    BY DEF RelayInv
  <1>1. TypeOK'
    BY <1>0 DEF TypeOK, DirectionInv, Writing
  <1>2. DirectionInv(Other(s))'
    BY <1>0, Frame DEF TypeOK, SameDirection
  <1>3. (Done(s) <= got[s] /\ got[s] <= sent[s])'
    BY <1>0, <1>1 DEF TypeOK, DirectionInv, Done
  <1>4. Delivered(s)'
    BY <1>0, <1>1 DEF TypeOK, DirectionInv, Done, Delivered
  <1>5. Reading(s)'
    BY <1>0, <1>1 DEF TypeOK, DirectionInv, Done, Reading
  <1>6. HasRead(s)'
    BY <1>0, <1>1 DEF TypeOK, DirectionInv, Done, HasRead
  <1>7. Writing(s)'
    BY <1>0, <1>1 DEF TypeOK, DirectionInv, Done, Writing
  <1>8. HasWritten(s)'
    BY <1>0, <1>1 DEF TypeOK, DirectionInv, Done, HasWritten
  <1>9. AtRest(s)'
    BY <1>0 DEF TypeOK, DirectionInv, Done, Reading, AtRest
  <1>10. ErrorsHaveCause(s)'
    BY <1>0, <1>1 DEF TypeOK, DirectionInv, Done, ErrorsHaveCause
  <1>11. GracefulEnd'
    <2> SUFFICES ASSUME ~open', \A y \in Socket : ~broken[y], NEW y \in Socket
                 PROVE  shut'[y]
      BY DEF GracefulEnd
    <2>1. CASE ~open
      BY <1>0, <2>1 DEF RelayInv, GracefulEnd, TypeOK
    <2>2. CASE open /\ y = Other(s)
      BY <1>0, <2>2 DEF TypeOK
    <2>3. CASE open /\ y = s
      <3>1. rd'[Other(s)] = Idle /\ wr'[s] = Idle
        BY <2>3
      <3>2. rd[Other(s)] = Idle /\ wr[s] = Idle
        BY <1>0, <3>1 DEF TypeOK
      <3> QED
        BY <1>0, <2>3, <3>2 DEF DirectionInv, AtRest, TypeOK
    <2> QED
      BY <2>1, <2>2, <2>3
  <1> QED
    BY <1>1, <1>2, <1>3, <1>4, <1>5, <1>6, <1>7, <1>8, <1>9, <1>10, <1>11
    DEF RelayInv, DirectionInv

\* handle_*_read with an error closes the session.
LEMMA HandleReadErrStep ==
  ASSUME RelayInv, NEW s \in Socket, HandleReadErr(s)
  PROVE  RelayInv'
  <1> USE Partners, RelayAssumption DEF HandleReadErr, EndRead, CloseAll, peerVars, readVars, writeVars, Idle, Pending
  <1>0. TypeOK /\ DirectionInv(s) /\ DirectionInv(Other(s)) /\ s \in Socket
    BY DEF RelayInv
  <1>1. TypeOK'
    BY <1>0 DEF TypeOK, DirectionInv, Writing
  <1>2. DirectionInv(Other(s))'
    BY <1>0, Frame DEF TypeOK, SameDirection
  <1>3. (Done(s) <= got[s] /\ got[s] <= sent[s])'
    BY <1>0, <1>1 DEF TypeOK, DirectionInv, Done
  <1>4. Delivered(s)'
    BY <1>0, <1>1 DEF TypeOK, DirectionInv, Done, Delivered
  <1>5. Reading(s)'
    BY <1>0, <1>1 DEF TypeOK, DirectionInv, Done, Reading
  <1>6. HasRead(s)'
    BY <1>0, <1>1 DEF TypeOK, DirectionInv, Done, HasRead
  <1>7. Writing(s)'
    BY <1>0, <1>1 DEF TypeOK, DirectionInv, Done, Writing
  <1>8. HasWritten(s)'
    BY <1>0, <1>1 DEF TypeOK, DirectionInv, Done, HasWritten
  <1>9. AtRest(s)'
    BY <1>0, <1>1 DEF TypeOK, DirectionInv, Done, AtRest
  <1>10. ErrorsHaveCause(s)'
    BY <1>0, <1>1 DEF TypeOK, DirectionInv, Done, ErrorsHaveCause
  <1>11. GracefulEnd'
    BY <1>0 DEF RelayInv, TypeOK, GracefulEnd, DirectionInv, AtRest, ErrorsHaveCause
  <1> QED
    BY <1>1, <1>2, <1>3, <1>4, <1>5, <1>6, <1>7, <1>8, <1>9, <1>10, <1>11
    DEF RelayInv, DirectionInv

\* handle_*_write without an error: the buffer is free for the next read.
LEMMA HandleWriteOkStep ==
  ASSUME RelayInv, NEW s \in Socket, HandleWriteOk(s)
  PROVE  RelayInv'
  <1> USE Partners, RelayAssumption DEF HandleWriteOk, EndWrite, BeginRead, peerVars, readVars, writeVars, Idle, Pending
  <1> DEFINE d == Other(s)
  <1>0. TypeOK /\ DirectionInv(d) /\ DirectionInv(Other(d)) /\ d \in Socket
    BY DEF RelayInv
  <1>1. TypeOK'
    BY <1>0 DEF TypeOK, DirectionInv, Writing
  <1>2. DirectionInv(Other(d))'
    BY <1>0, Frame DEF TypeOK, SameDirection
  <1>3. (Done(d) <= got[d] /\ got[d] <= sent[d])'
    BY <1>0, <1>1 DEF TypeOK, DirectionInv, Done
  <1>4. Delivered(d)'
    BY <1>0, <1>1 DEF TypeOK, DirectionInv, Done, Delivered
  <1>5. Reading(d)'
    BY <1>0, <1>1 DEF TypeOK, DirectionInv, Done, HasWritten, Reading
  <1>6. HasRead(d)'
    BY <1>0, <1>1 DEF TypeOK, DirectionInv, Done, HasRead
  <1>7. Writing(d)'
    BY <1>0, <1>1 DEF TypeOK, DirectionInv, Done, Writing
  <1>8. HasWritten(d)'
    BY <1>0, <1>1 DEF TypeOK, DirectionInv, Done, HasWritten
  <1>9. AtRest(d)'
    BY <1>0, <1>1 DEF TypeOK, DirectionInv, Done, AtRest
  <1>10. ErrorsHaveCause(d)'
    BY <1>0, <1>1 DEF TypeOK, DirectionInv, Done, ErrorsHaveCause
  <1>11. GracefulEnd'
    BY <1>0 DEF RelayInv, TypeOK, GracefulEnd, DirectionInv, AtRest, ErrorsHaveCause
  <1> QED
    BY <1>1, <1>2, <1>3, <1>4, <1>5, <1>6, <1>7, <1>8, <1>9, <1>10, <1>11
    DEF RelayInv, DirectionInv

\* handle_*_write with an error closes the session.
LEMMA HandleWriteErrStep ==
  ASSUME RelayInv, NEW s \in Socket, HandleWriteErr(s)
  PROVE  RelayInv'
  <1> USE Partners, RelayAssumption DEF HandleWriteErr, EndWrite, CloseAll, peerVars, readVars, writeVars, Idle, Pending
  <1> DEFINE d == Other(s)
  <1>0. TypeOK /\ DirectionInv(d) /\ DirectionInv(Other(d)) /\ d \in Socket
    BY DEF RelayInv
  <1>1. TypeOK'
    BY <1>0 DEF TypeOK, DirectionInv, Writing
  <1>2. DirectionInv(Other(d))'
    BY <1>0, Frame DEF TypeOK, SameDirection
  <1>3. (Done(d) <= got[d] /\ got[d] <= sent[d])'
    BY <1>0, <1>1 DEF TypeOK, DirectionInv, Done
  <1>4. Delivered(d)'
    BY <1>0, <1>1 DEF TypeOK, DirectionInv, Done, Delivered
  <1>5. Reading(d)'
    BY <1>0, <1>1 DEF TypeOK, DirectionInv, Done, Reading
  <1>6. HasRead(d)'
    BY <1>0, <1>1 DEF TypeOK, DirectionInv, Done, HasRead
  <1>7. Writing(d)'
    BY <1>0, <1>1 DEF TypeOK, DirectionInv, Done, Writing
  <1>8. HasWritten(d)'
    BY <1>0, <1>1 DEF TypeOK, DirectionInv, Done, HasWritten
  <1>9. AtRest(d)'
    BY <1>0, <1>1 DEF TypeOK, DirectionInv, Done, AtRest
  <1>10. ErrorsHaveCause(d)'
    BY <1>0, <1>1 DEF TypeOK, DirectionInv, Done, ErrorsHaveCause
  <1>11. GracefulEnd'
    BY <1>0 DEF RelayInv, TypeOK, GracefulEnd, DirectionInv, AtRest, ErrorsHaveCause
  <1> QED
    BY <1>1, <1>2, <1>3, <1>4, <1>5, <1>6, <1>7, <1>8, <1>9, <1>10, <1>11
    DEF RelayInv, DirectionInv

-----------------------------------------------------------------------------
\* Every step of the relay preserves the invariant.
LEMMA RelayInvStep == RelayInv /\ [Next]_vars => RelayInv'
  <1> SUFFICES ASSUME RelayInv, [Next]_vars PROVE RelayInv'
    OBVIOUS
  <1>1. ASSUME NEW s \in Socket, Peer(s) PROVE RelayInv'
    BY <1>1, PeerSendStep, PeerShutStep, PeerBreakStep DEF Peer
  <1>2. ASSUME NEW s \in Socket, CompleteRead(s) PROVE RelayInv'
    BY <1>2, ReadDataStep, ReadEofStep, ReadFailsStep DEF CompleteRead
  <1>3. ASSUME NEW s \in Socket, CompleteWrite(s) PROVE RelayInv'
    BY <1>3, WriteByteStep, WriteFailsStep DEF CompleteWrite
  <1>4. ASSUME NEW s \in Socket, HandleRead(s) PROVE RelayInv'
    BY <1>4, HandleReadOkStep, HandleReadEofStep, HandleReadErrStep DEF HandleRead
  <1>5. ASSUME NEW s \in Socket, HandleWrite(s) PROVE RelayInv'
    BY <1>5, HandleWriteOkStep, HandleWriteErrStep DEF HandleWrite
  <1>6. CASE UNCHANGED vars
    BY <1>6 DEF vars, peerVars, readVars, writeVars, RelayInv, TypeOK, DirectionInv, Done,
       Delivered, Reading, HasRead, Writing, HasWritten, AtRest, ErrorsHaveCause,
       GracefulEnd
  <1> QED
    BY <1>1, <1>2, <1>3, <1>4, <1>5, <1>6 DEF Next

\* RelayInv holds in every state of every run, whatever the peers send and
\* whenever the connections fail.
THEOREM RelayInvariant == Spec => []RelayInv
  BY RelayInvInit, RelayInvStep, PTL DEF Spec

\* Type correctness: in particular the write never leaves the read buffer.
THEOREM TypeCorrect == Spec => []TypeOK
  <1>1. RelayInv => TypeOK
    BY DEF RelayInv
  <1> QED
    BY <1>1, RelayInvariant, PTL

\* What a peer has received is always a prefix of what the other one sent:
\* begin_*_write never writes bytes that a later read has overwritten.
THEOREM BytesInOrder == Spec => []InOrder
  <1>1. RelayInv => InOrder
    BY DEF RelayInv, DirectionInv, Done, Delivered, InOrder
  <1> QED
    BY <1>1, RelayInvariant, PTL

\* While the session is open no byte that was read is dropped.
THEOREM BytesNotMislaid == Spec => []NothingMislaid
  <1>1. ASSUME RelayInv, open, NEW s \in Socket
        PROVE  got[s] = Len(out[Other(s)]) + InHand(s)
    <2> USE DEF Idle, Pending
    <2>0. TypeOK /\ DirectionInv(s)
      BY <1>1 DEF RelayInv
    <2>t. got[s] \in Nat /\ Done(s) \in Nat /\ num[s] \in Nat
          /\ from[Other(s)] \in Nat /\ upto[Other(s)] \in Nat
      BY <2>0, Typed, Partners
    <2>1. CASE rd[s] = "ok"
      BY <2>0, <2>t, <2>1 DEF DirectionInv, HasRead, InHand, Done
    <2>2. CASE wr[Other(s)] \in {Pending, "err"}
      <3>1. rd[s] # "ok" /\ got[s] = Done(s) + upto[Other(s)] - from[Other(s)]
        BY <2>0, <2>2 DEF DirectionInv, Writing
      <3> QED
        BY <2>2, <2>t, <3>1 DEF InHand, Done
    <2>3. CASE rd[s] # "ok" /\ wr[Other(s)] \notin {Pending, "err"}
      <3>1. got[s] = Done(s)
        BY <1>1, <2>0, <2>3, Partners DEF TypeOK, DirectionInv, Reading, HasWritten, AtRest
      <3> QED
        BY <2>3, <2>t, <3>1 DEF InHand, Done
    <2> QED
      BY <2>1, <2>2, <2>3
  <1>2. RelayInv => NothingMislaid
    BY <1>1 DEF NothingMislaid
  <1> QED
    BY <1>2, RelayInvariant, PTL

\* At most one operation per direction: a buffer is never read into and
\* written from at the same time.
THEOREM BuffersExclusive == Spec => []BufferExclusive
  <1>1. ASSUME RelayInv, NEW s \in Socket PROVE rd[s] = Idle \/ wr[Other(s)] = Idle
    BY <1>1, Partners DEF RelayInv, TypeOK, DirectionInv, Reading, HasRead, Idle, Pending
  <1>2. RelayInv => BufferExclusive
    BY <1>1 DEF BufferExclusive
  <1> QED
    BY <1>2, RelayInvariant, PTL

\* The end of a stream never overtakes its data.
THEOREM EndsAfterData == Spec => []EndAfterData
  <1>1. RelayInv => EndAfterData
    BY DEF RelayInv, DirectionInv, AtRest, Done, EndAfterData
  <1> QED
    BY <1>1, RelayInvariant, PTL

\* A session that ends without a failure has ended both directions.
THEOREM EndsGracefully == Spec => []GracefulEnd
  <1>1. RelayInv => GracefulEnd
    BY DEF RelayInv
  <1> QED
    BY <1>1, RelayInvariant, PTL

-----------------------------------------------------------------------------
(* Each direction implements Pipe: a step of the relay is, for the          *)
(* direction that starts at s, one step of the pipe or none at all.         *)

PipeStep(s) ==
  LET t == Other(s) IN
  \/ /\ UNCHANGED <<sent[s], fin[s], out[t], DirectionState(s)>>
  \/ /\ DirectionState(s) = "flowing"
     /\ ~fin[s] /\ sent[s] < MaxSent /\ sent'[s] = sent[s] + 1
     /\ UNCHANGED <<fin[s], out[t], DirectionState(s)>>
  \/ /\ DirectionState(s) = "flowing"
     /\ ~fin[s] /\ fin'[s] = TRUE
     /\ UNCHANGED <<sent[s], out[t], DirectionState(s)>>
  \/ /\ DirectionState(s) = "flowing"
     /\ Len(out[t]) < sent[s] /\ out'[t] = Append(out[t], Len(out[t]) + 1)
     /\ UNCHANGED <<sent[s], fin[s], DirectionState(s)>>
  \/ /\ DirectionState(s) = "flowing"
     /\ fin[s] /\ Len(out[t]) = sent[s] /\ DirectionState(s)' = "ended"
     /\ UNCHANGED <<sent[s], fin[s], out[t]>>
  \/ /\ DirectionState(s) = "flowing"
     /\ DirectionState(s)' = "cut"
     /\ UNCHANGED <<sent[s], fin[s], out[t]>>

LEMMA PeerPipeStep ==
  ASSUME RelayInv, NEW x \in Socket, Peer(x), NEW s \in Socket
  PROVE  PipeStep(s)
  <1> USE Partners DEF readVars, writeVars
  <1>1. UNCHANGED <<out[Other(s)], DirectionState(s)>>
    BY DEF Peer, PeerSend, PeerShut, PeerBreak, DirectionState
  <1>2. open /\ (shut[Other(s)] => fin[s])
    BY DEF Peer, PeerSend, PeerShut, PeerBreak, RelayInv, DirectionInv, AtRest
  <1>3. TypeOK
    BY DEF RelayInv
  <1>4. CASE PeerSend(x)
    BY <1>1, <1>2, <1>3, <1>4 DEF PeerSend, TypeOK, PipeStep, DirectionState
  <1>5. CASE PeerShut(x)
    BY <1>1, <1>2, <1>3, <1>5 DEF PeerShut, TypeOK, PipeStep, DirectionState
  <1>6. CASE PeerBreak(x)
    BY <1>1, <1>6 DEF PeerBreak, PipeStep
  <1> QED
    BY <1>4, <1>5, <1>6 DEF Peer

LEMMA CompletionPipeStep ==
  ASSUME RelayInv, NEW x \in Socket, CompleteRead(x) \/ CompleteWrite(x), NEW s \in Socket
  PROVE  PipeStep(s)
  <1> USE Partners DEF peerVars, readVars, writeVars, Idle, Pending
  <1>0. TypeOK /\ DirectionInv(s) /\ DirectionInv(Other(s))
    BY DEF RelayInv
  <1>t. sent[s] \in Nat /\ got[s] \in Nat /\ Done(s) \in Nat
    BY <1>0, Typed
  <1>1. CASE CompleteRead(x) \/ WriteFails(x)
    BY <1>1 DEF CompleteRead, ReadData, ReadEof, ReadFails, WriteFails, PipeStep,
       DirectionState
  <1>2. CASE WriteByte(x) /\ x = s
    BY <1>0, <1>2 DEF WriteByte, TypeOK, PipeStep, DirectionState
  <1>3. CASE WriteByte(x) /\ x = Other(s)
    <2> DEFINE t == Other(s)
    <2>1. /\ open /\ wr[t] = Pending /\ UNCHANGED <<sent, fin, shut, open>>
          /\ out'[t] = Append(out[t], buf[s][from[t] + 1])
      BY <1>0, <1>3 DEF WriteByte, TypeOK
    <2>2. /\ from[t] \in Nat /\ upto[t] \in Nat /\ from[t] < upto[t]
          /\ got[s] = Done(s) + upto[t] - from[t] /\ got[s] <= sent[s]
          /\ \A i \in from[t]+1..upto[t] : buf[s][i] = Done(s) + i - from[t]
      BY <1>0, <2>1, Typed DEF DirectionInv, Writing
    <2>3. Len(out[t]) < sent[s]
      BY <1>t, <2>2 DEF Done
    <2>4. buf[s][from[t] + 1] = Done(s) + (from[t] + 1) - from[t]
      BY <2>2
    <2>5. buf[s][from[t] + 1] = Len(out[t]) + 1
      BY <1>t, <2>2, <2>4 DEF Done
    <2>6. ~shut[t]
      BY <1>0, <2>1 DEF DirectionInv, AtRest
    <2> QED
      BY <2>1, <2>3, <2>5, <2>6 DEF PipeStep, DirectionState
  <1> QED
    BY <1>1, <1>2, <1>3 DEF CompleteWrite

LEMMA HandlerPipeStep ==
  ASSUME RelayInv, NEW x \in Socket, HandleRead(x) \/ HandleWrite(x), NEW s \in Socket
  PROVE  PipeStep(s)
  <1> USE Partners DEF peerVars, readVars, writeVars, Idle, Pending
  <1>0. TypeOK /\ DirectionInv(s)
    BY DEF RelayInv
  <1>1. CASE HandleReadOk(x) \/ HandleWriteOk(x)
    BY <1>1 DEF HandleReadOk, HandleWriteOk, PipeStep, DirectionState
  <1>2. CASE HandleReadErr(x) \/ HandleWriteErr(x)
    BY <1>2 DEF HandleReadErr, HandleWriteErr, CloseAll, PipeStep, DirectionState
  <1>3. CASE HandleReadEof(x)
    <2>1. /\ UNCHANGED <<sent, fin, out>> /\ open' \in BOOLEAN /\ (open' => open)
          /\ shut' = [shut EXCEPT ![Other(x)] = shut[Other(x)] \/ open]
      BY <1>0, <1>3 DEF HandleReadEof, KeepOpenWhileUsed, TypeOK
    <2>2. CASE x = s
      <3>1. fin[s] /\ Len(out[Other(s)]) = sent[s]
        BY <1>0, <1>3, <2>2 DEF HandleReadEof, DirectionInv, Reading, Done
      <3>2. shut'[Other(s)] = (shut[Other(s)] \/ open)
        BY <1>0, <2>1, <2>2 DEF TypeOK
      <3> QED
        BY <1>0, <2>1, <3>1, <3>2 DEF PipeStep, DirectionState, TypeOK
    <2>3. CASE x # s
      <3>1. shut'[Other(s)] = shut[Other(s)]
        BY <1>0, <2>1, <2>3 DEF TypeOK
      <3> QED
        BY <1>0, <2>1, <3>1 DEF PipeStep, DirectionState, TypeOK
    <2> QED
      BY <2>2, <2>3
  <1> QED
    BY <1>1, <1>2, <1>3 DEF HandleRead, HandleWrite

LEMMA RelayPipeStep ==
  ASSUME RelayInv, [Next]_vars, NEW s \in Socket
  PROVE  PipeStep(s)
  <1>1. CASE UNCHANGED vars
    BY <1>1 DEF vars, peerVars, readVars, writeVars, PipeStep, DirectionState
  <1> QED
    BY <1>1, PeerPipeStep, CompletionPipeStep, HandlerPipeStep DEF Next

\* The bytes and the end of stream that reach the output peer come from the
\* input peer as through a pipe (the safety part of UpstreamIsPipe).
THEOREM UpstreamImplementsPipe == Spec => Upstream!PipeSpec
  <1>1. Init => Upstream!PipeInit
    BY DEF Init, Upstream!PipeInit, DirectionState, Socket, Other
  <1>2. RelayInv /\ [Next]_vars => [Upstream!PipeNext]_(Upstream!pipeVars)
    <2> SUFFICES ASSUME RelayInv, [Next]_vars
                 PROVE  [Upstream!PipeNext]_(Upstream!pipeVars)
      OBVIOUS
    <2>1. PipeStep("input") /\ Other("input") = "output"
      BY RelayPipeStep DEF Socket, Other
    <2> QED
      BY <2>1 DEF PipeStep, Upstream!PipeNext, Upstream!Send, Upstream!Finish,
         Upstream!Deliver, Upstream!End, Upstream!Cut, Upstream!pipeVars
  <1> QED
    BY <1>1, <1>2, RelayInvariant, PTL DEF Spec, Upstream!PipeSpec

\* The same for the bytes that reach the input peer.
THEOREM DownstreamImplementsPipe == Spec => Downstream!PipeSpec
  <1>1. Init => Downstream!PipeInit
    BY DEF Init, Downstream!PipeInit, DirectionState, Socket, Other
  <1>2. RelayInv /\ [Next]_vars => [Downstream!PipeNext]_(Downstream!pipeVars)
    <2> SUFFICES ASSUME RelayInv, [Next]_vars
                 PROVE  [Downstream!PipeNext]_(Downstream!pipeVars)
      OBVIOUS
    <2>1. PipeStep("output") /\ Other("output") = "input"
      BY RelayPipeStep DEF Socket, Other
    <2> QED
      BY <2>1 DEF PipeStep, Downstream!PipeNext, Downstream!Send, Downstream!Finish,
         Downstream!Deliver, Downstream!End, Downstream!Cut, Downstream!pipeVars
  <1> QED
    BY <1>1, <1>2, RelayInvariant, PTL DEF Spec, Downstream!PipeSpec

=============================================================================
