-------------------------- MODULE Socks5LinkProofs --------------------------
(***************************************************************************)
(* Proofs about Socks5Link for all credentials, all destinations and any   *)
(* number of relayed bytes.  Each end goes through its own protocol as if  *)
(* it were alone: a step of the near session is a step of Socks5Client, a  *)
(* step of the far one a step of Socks5Server, so that both inductive      *)
(* invariants hold here.  What the two have in common is what is on the    *)
(* connection: the far session reads what the near one has written, and    *)
(* the other way round.                                                    *)
(***************************************************************************)
EXTENDS Socks5Link, SequenceTheorems, TLAPS

\* All that has come from the near session, read by the far one or not, and
\* all that has come back.
ToFar == sTaken \o up
ToNear == cTaken \o down

\* What the two handshakes have written of it.
Sent == SubSeq(ToFar, 1, Len(ToFar) - fromNear)
SentBack == SubSeq(ToNear, 1, Len(ToNear) - fromFar)

Near == INSTANCE Socks5ClientProofs WITH
  Streams <- {}, op <- cOp, need <- cNeed, taken <- cTaken,
  inp <- down, outp <- Sent, eof <- ServerClosed

Far == INSTANCE Socks5ServerProofs WITH
  Streams <- {}, dst <- sDst, op <- sOp, need <- sNeed, taken <- sTaken,
  inp <- up, outp <- SentBack, eof <- ClientClosed

\* The last n bytes are of the tunnel.
EndsInPayload(s, n) == n <= Len(s) /\ \A i \in Len(s) - n + 1..Len(s) : s[i] = Payload

\* Nothing is relayed before the handshake is over, and nothing of the
\* handshake comes after it.
Relaying ==
  /\ fromNear \in Nat /\ EndsInPayload(ToFar, fromNear)
  /\ fromFar \in Nat /\ EndsInPayload(ToNear, fromFar)
  /\ fromNear > 0 => verdict = "Succeeded"
  /\ fromFar > 0 => answered = "ok" /\ told = "Succeeded"

Method == <<5, 0>>

\* The messages, in this order and to the last byte, whatever has failed since.
Messages ==
  /\ Sent \in {<<>>, Near!AuthRequest, Near!AuthRequest \o Near!Secrets,
               (Near!AuthRequest \o Near!Secrets) \o Near!ConnectRequest}
  /\ \/ SentBack \in {<<>>, Method}
     \/ answered = "ok" /\ SentBack = Method \o Far!ReplyTo(told)

LinkInv == Near!ClientInv /\ Far!ServerInv /\ Relaying /\ Messages

-----------------------------------------------------------------------------
(* Sequences.                                                               *)

\* A read moves bytes from one sequence to the other.
LEMMA Moved ==
  ASSUME NEW s \in Seq(Byte), NEW t \in Seq(Byte), NEW n \in Nat, n <= Len(t)
  PROVE  (s \o SubSeq(t, 1, n)) \o SubSeq(t, n + 1, Len(t)) = s \o t
  <1>1. Len(t) \in Nat /\ \A i \in 1..Len(t) : t[i] \in Byte
    BY LenProperties, ElementOfSeq
  <1>2. SubSeq(t, 1, n) \in Seq(Byte) /\ SubSeq(t, n + 1, Len(t)) \in Seq(Byte)
    <2>1. \A i \in 1..n : t[i] \in Byte
      BY <1>1
    <2>2. \A i \in n + 1..Len(t) : t[i] \in Byte
      BY <1>1
    <2>3. 1 \in Int /\ n \in Int /\ n + 1 \in Int /\ Len(t) \in Int
      BY <1>1
    <2> QED
      BY <2>1, <2>2, <2>3, SubSeqProperties
  <1>3. SubSeq(t, 1, n) \o SubSeq(t, n + 1, Len(t)) = SubSeq(t, 1, Len(t))
    <2>1. 1 \in 1..Len(t) + 1 /\ n \in 1 - 1..Len(t) /\ Len(t) \in n..Len(t)
      BY <1>1
    <2> QED
      BY <2>1, ConcatAdjacentSubSeq
  <1>4. SubSeq(t, 1, Len(t)) = t
    BY SubSeqFull
  <1>5. \A u, v \in Seq(Byte) : (s \o u) \o v = s \o (u \o v)
    BY ConcatAssociative
  <1> QED
    <2> DEFINE u == SubSeq(t, 1, n)
               v == SubSeq(t, n + 1, Len(t))
    <2>1. u \in Seq(Byte) /\ v \in Seq(Byte) /\ u \o v = t
      BY <1>2, <1>3, <1>4
    <2> HIDE DEF u, v
    <2>2. (s \o u) \o v = s \o t
      BY <1>5, <2>1
    <2> QED
      BY <2>2 DEF u, v

\* Relaying one more byte leaves what is in front of the payload as it is.
LEMMA Relayed1 ==
  ASSUME NEW s \in Seq(Byte), NEW n \in Nat, EndsInPayload(s, n)
  PROVE  LET r == Append(s, Payload) IN
         /\ r \in Seq(Byte) /\ EndsInPayload(r, n + 1)
         /\ SubSeq(r, 1, Len(r) - (n + 1)) = SubSeq(s, 1, Len(s) - n)
  <1> DEFINE r == Append(s, Payload)
             k == Len(s) - n
  <1>1. Payload \in Byte
    BY DEF Payload, Byte
  <1>2. /\ r \in Seq(Byte) /\ Len(r) = Len(s) + 1
        /\ \A i \in 1..Len(s) : r[i] = s[i]
        /\ r[Len(s) + 1] = Payload
    BY <1>1, AppendProperties
  <1>3. /\ Len(s) \in Nat /\ n <= Len(s) /\ k \in Nat /\ k <= Len(s)
        /\ \A i \in k + 1..Len(s) : s[i] = Payload
    BY LenProperties DEF EndsInPayload
  <1> HIDE DEF r
  <1>4. Len(r) - (n + 1) = k
    BY <1>2, <1>3
  <1>5. EndsInPayload(r, n + 1)
    <2>1. n + 1 <= Len(r)
      BY <1>2, <1>3
    <2>2. \A i \in k + 1..Len(r) : r[i] = Payload
      BY <1>2, <1>3
    <2> QED
      BY <1>4, <2>1, <2>2 DEF EndsInPayload
  <1>6. SubSeq(r, 1, k) = SubSeq(s, 1, k)
    <2> HIDE DEF k
    <2>1. \A i \in 1..k : r[i] = s[i] /\ s[i] \in Byte
      BY <1>2, <1>3, ElementOfSeq
    <2>2. /\ SubSeq(r, 1, k) \in Seq(Byte) /\ SubSeq(s, 1, k) \in Seq(Byte)
          /\ Len(SubSeq(r, 1, k)) = k /\ Len(SubSeq(s, 1, k)) = k
          /\ \A i \in 1..k : SubSeq(r, 1, k)[i] = r[i] /\ SubSeq(s, 1, k)[i] = s[i]
      <3>1. 1 \in Int /\ k \in Int
        BY <1>3
      <3>2. \A i \in 1..k : r[i] \in Byte /\ s[i] \in Byte
        BY <2>1
      <3>3. /\ SubSeq(r, 1, k) \in Seq(Byte)
            /\ Len(SubSeq(r, 1, k)) = IF 1 <= k THEN k - 1 + 1 ELSE 0
            /\ \A i \in 1..k - 1 + 1 : SubSeq(r, 1, k)[i] = r[1 + i - 1]
        BY <3>1, <3>2, SubSeqProperties
      <3>4. /\ SubSeq(s, 1, k) \in Seq(Byte)
            /\ Len(SubSeq(s, 1, k)) = IF 1 <= k THEN k - 1 + 1 ELSE 0
            /\ \A i \in 1..k - 1 + 1 : SubSeq(s, 1, k)[i] = s[1 + i - 1]
        BY <3>1, <3>2, SubSeqProperties
      <3> QED
        BY <1>3, <3>3, <3>4
    <2> QED
      BY <2>1, <2>2, SeqEqual
  <1> QED
    BY <1>2, <1>4, <1>5, <1>6 DEF r

\* Nothing but the tunnel comes behind, so without it all is handshake.
LEMMA AllOfIt ==
  ASSUME NEW s \in Seq(Byte)
  PROVE  EndsInPayload(s, 0) /\ SubSeq(s, 1, Len(s) - 0) = s
  <1>1. Len(s) \in Nat /\ Len(s) - 0 = Len(s) /\ SubSeq(s, 1, Len(s)) = s
    BY LenProperties, SubSeqFull
  <1> QED
    BY <1>1 DEF EndsInPayload

-----------------------------------------------------------------------------
(* The near session's steps.                                                *)

LEMMA SameBytes == Near!Byte = Byte /\ Far!Byte = Byte
  BY DEF Near!Byte, Far!Byte, Byte

LEMMA LinkTypes ==
  ASSUME LinkInv
  PROVE  /\ up \in Seq(Byte) /\ down \in Seq(Byte)
         /\ sTaken \in Seq(Byte) /\ cTaken \in Seq(Byte)
         /\ ToFar \in Seq(Byte) /\ ToNear \in Seq(Byte)
         /\ Sent \in Seq(Byte) /\ SentBack \in Seq(Byte)
         /\ cNeed \in Nat /\ sNeed \in Nat /\ fromNear \in Nat /\ fromFar \in Nat
         /\ ClientClosed \in BOOLEAN /\ ServerClosed \in BOOLEAN
  <1>1. /\ down \in Seq(Byte) /\ cTaken \in Seq(Byte) /\ Sent \in Seq(Byte) /\ cNeed \in Nat
        /\ ServerClosed \in BOOLEAN
    BY SameBytes DEF LinkInv, Near!ClientInv, Near!TypeOK
  <1>2. /\ up \in Seq(Byte) /\ sTaken \in Seq(Byte) /\ SentBack \in Seq(Byte) /\ sNeed \in Nat
        /\ ClientClosed \in BOOLEAN
    BY SameBytes DEF LinkInv, Far!ServerInv, Far!TypeOK
  <1>3. ToFar \in Seq(Byte) /\ ToNear \in Seq(Byte)
    BY <1>1, <1>2, ConcatProperties DEF ToFar, ToNear
  <1>4. fromNear \in Nat /\ fromFar \in Nat
    BY DEF LinkInv, Relaying
  <1> QED
    BY <1>1, <1>2, <1>3, <1>4

\* What the parameters allow is what Socks5Client assumes of its own.
LEMMA NearAssumption == Near!Socks5ClientAssumption
  <1>1. Client!Byte = Near!Byte /\ Client!Port = Near!Port
    BY DEF Client!Byte, Near!Byte, Client!Port, Near!Port, Client!LastPort, Near!LastPort
  <1>2. Client!Text = Near!Text
    BY <1>1 DEF Client!Text, Near!Text
  <1>3. Client!Encodable = Near!Encodable
    BY <1>1, <1>2 DEF Client!Encodable, Near!Encodable
  <1> QED
    BY <1>2, <1>3, LinkAssumption DEF Near!Socks5ClientAssumption

LEMMA FarAssumption == Far!Socks5ServerAssumption
  BY DEF Far!Socks5ServerAssumption

\* The near session's messages, tests and handlers do not depend on which of
\* its streams is which.
LEMMA NearAlike ==
  /\ Client!NoCreds = Near!NoCreds /\ Client!Message = Near!Message
  /\ Client!Got = Near!Got
  /\ \A o : Client!Take(o) <=> Near!Take(o)
  /\ \A o, n : Client!Begin(o, n) <=> Near!Begin(o, n)
  /\ \A o, n : Client!Continue(o, n) <=> Near!Continue(o, n)
  /\ \A e : Client!RequestDone(e) <=> Near!RequestDone(e)
  /\ \A v : Client!ResponseDone(v) <=> Near!ResponseDone(v)
  /\ \A r : Client!RepToMajor(r) = Near!RepToMajor(r)
  <1>1. Client!NoCreds = Near!NoCreds
    BY DEF Client!NoCreds, Near!NoCreds
  <1>2. Client!Got = Near!Got
    BY DEF Client!Got, Near!Got
  <1>3. \A o : Client!Take(o) <=> Near!Take(o)
    BY DEF Client!Take, Near!Take, Client!Got, Near!Got
  <1>4. \A o, n : Client!Begin(o, n) <=> Near!Begin(o, n)
    BY DEF Client!Begin, Near!Begin
  <1>5. \A o, n : Client!Continue(o, n) <=> Near!Continue(o, n)
    BY <1>4 DEF Client!Continue, Near!Continue
  <1>6. \A e : Client!RequestDone(e) <=> Near!RequestDone(e)
    BY <1>4 DEF Client!RequestDone, Near!RequestDone
  <1>7. \A v : Client!ResponseDone(v) <=> Near!ResponseDone(v)
    BY <1>4 DEF Client!ResponseDone, Near!ResponseDone
  <1>8. \A r : Client!RepToMajor(r) = Near!RepToMajor(r)
    BY DEF Client!RepToMajor, Near!RepToMajor
  <1>9. Client!Message = Near!Message
    <2>1. Client!AuthRequest = Near!AuthRequest
      BY <1>1 DEF Client!AuthRequest, Near!AuthRequest
    <2>2. Client!CredsMessage = Near!CredsMessage
      BY DEF Client!CredsMessage, Near!CredsMessage
    <2>3. Client!ConnectRequest = Near!ConnectRequest
      BY DEF Client!ConnectRequest, Near!ConnectRequest, Client!ATYP, Near!ATYP,
        Client!PortBytes, Near!PortBytes
    <2> QED
      BY <2>1, <2>2, <2>3 DEF Client!Message, Near!Message
  <1> QED
    BY <1>1, <1>2, <1>3, <1>4, <1>5, <1>6, <1>7, <1>8, <1>9

\* Where the connection to the far session is left alone.
LEMMA SameToFar ==
  ASSUME UNCHANGED <<sTaken, up, fromNear>>
  PROVE  ToFar' = ToFar /\ Sent' = Sent
  BY DEF ToFar, Sent

\* A read leaves what has come, and takes it from one side to the other.
LEMMA NearReads ==
  ASSUME LinkInv, UNCHANGED <<serverVars, fromNear, fromFar, up>>, NEW o, Client!Take(o)
  PROVE  /\ Near!Take(o) /\ UNCHANGED <<ToFar, Sent, ToNear, SentBack>>
  <1>1. down \in Seq(Byte) /\ cTaken \in Seq(Byte) /\ cNeed \in Nat
    BY LinkTypes
  <1>2. /\ cNeed <= Len(down) /\ down' = SubSeq(down, cNeed + 1, Len(down))
        /\ cTaken' = cTaken \o SubSeq(down, 1, cNeed)
    BY <1>1, LenProperties DEF Client!Take, Client!Got
  <1>3. ToNear' = ToNear
    BY <1>1, <1>2, Moved DEF ToNear
  <1>4. SentBack' = SentBack
    BY <1>3 DEF SentBack
  <1>5. ToFar' = ToFar /\ Sent' = Sent
    BY SameToFar DEF serverVars
  <1> QED
    BY <1>3, <1>4, <1>5, NearAlike

LEMMA NearReadSteps ==
  ASSUME LinkInv, UNCHANGED <<serverVars, fromNear, fromFar>>,
         \/ Client!AuthRespRead \/ Client!CredsReplyRead
         \/ Client!HeaderRead \/ Client!NameLengthRead \/ Client!AddressRead
  PROVE  Near!Next /\ UNCHANGED <<ToFar, Sent, ToNear, SentBack>>
  <1>1. /\ up' = up /\ ServerClosed' = ServerClosed
        /\ \E o : Client!Take(o)
    BY DEF Client!AuthRespRead, Client!CredsReplyRead, Client!HeaderRead,
      Client!NameLengthRead, Client!AddressRead, serverVars, ServerClosed
  <1>2. /\ UNCHANGED <<ToFar, Sent, ToNear, SentBack>>
        /\ \A o : Client!Take(o) <=> Near!Take(o)
    BY <1>1, NearReads, NearAlike
  <1>3. CASE Client!AuthRespRead
    BY <1>1, <1>2, <1>3, NearAlike
    DEF Client!AuthRespRead, Near!AuthRespRead, Near!Next, Near!Progress
  <1>4. CASE Client!CredsReplyRead
    BY <1>1, <1>2, <1>4, NearAlike
    DEF Client!CredsReplyRead, Near!CredsReplyRead, Near!Next, Near!Progress
  <1>5. CASE Client!HeaderRead
    BY <1>1, <1>2, <1>5, NearAlike
    DEF Client!HeaderRead, Near!HeaderRead, Near!Next, Near!Progress
  <1>6. CASE Client!NameLengthRead
    BY <1>1, <1>2, <1>6, NearAlike
    DEF Client!NameLengthRead, Near!NameLengthRead, Near!Next, Near!Progress
  <1>7. CASE Client!AddressRead
    BY <1>1, <1>2, <1>7, NearAlike
    DEF Client!AddressRead, Near!AddressRead, Near!Next, Near!Progress
  <1> QED
    BY <1>2, <1>3, <1>4, <1>5, <1>6, <1>7

\* While the near session still writes nothing has been relayed by it.
LEMMA NearWriteStep ==
  ASSUME LinkInv, UNCHANGED <<serverVars, fromNear, fromFar>>, Client!Written
  PROVE  /\ Near!Written /\ fromNear = 0
         /\ up' \in Seq(Byte) /\ ToFar' = Sent' /\ Sent' \in Seq(Byte)
         /\ UNCHANGED <<ToNear, SentBack>>
  <1>1. fromNear = 0
    <2>1. cOp # "none"
      BY DEF Client!Written, Client!Writes
    <2>2. verdict = "pending"
      BY <2>1 DEF LinkInv, Near!ClientInv, Near!Outcome
    <2> QED
      BY <2>2 DEF LinkInv, Relaying
  <1>2. /\ up \in Seq(Byte) /\ sTaken \in Seq(Byte) /\ ToFar \in Seq(Byte)
        /\ Near!Message \in Seq(Byte)
    <2>1. /\ Near!AuthRequest \in Seq(Byte) /\ Near!CredsMessage \in Seq(Byte)
          /\ Near!ConnectRequest \in Seq(Byte)
      BY SameBytes, NearAssumption, Near!MessageFacts DEF LinkInv, Near!ClientInv
    <2>2. cOp \in {"auth_write_req", "auth_write_creds", "conn_write_req"}
      BY DEF Client!Written, Client!Writes
    <2> QED
      BY <2>1, <2>2, LinkTypes DEF Near!Message
  <1>3. up' = up \o Near!Message
    BY NearAlike DEF Client!Written
  <1>4. ToFar' = ToFar \o Near!Message
    <2>1. \A s, t, m \in Seq(Byte) : s \o (t \o m) = (s \o t) \o m
      BY ConcatAssociative
    <2>2. ToFar' = sTaken \o (up \o Near!Message)
      BY <1>3 DEF ToFar, serverVars
    <2> HIDE DEF ToFar
    <2>3. sTaken \o (up \o Near!Message) = (sTaken \o up) \o Near!Message
      BY <1>2, <2>1
    <2> QED
      BY <2>2, <2>3 DEF ToFar
  <1>5. ToFar' \in Seq(Byte)
    BY <1>2, <1>4, ConcatProperties
  <1>6. Sent = ToFar /\ Sent' = ToFar'
    <2>1. Sent = SubSeq(ToFar, 1, Len(ToFar) - 0) /\ Sent' = SubSeq(ToFar', 1, Len(ToFar') - 0)
      BY <1>1 DEF Sent
    <2> QED
      BY <1>2, <1>5, <2>1, AllOfIt
  <1>7. UNCHANGED <<ToNear, SentBack>>
    BY DEF Client!Written, ToNear, SentBack
  <1>8. ServerClosed' = ServerClosed
    BY DEF serverVars, ServerClosed
  <1>9. Near!Written
    BY <1>4, <1>6, <1>8, NearAlike DEF Client!Written, Near!Written, Client!Writes, Near!Writes
  <1>10. up' \in Seq(Byte)
    BY <1>2, <1>3, ConcatProperties
  <1> QED
    BY <1>1, <1>5, <1>6, <1>7, <1>9, <1>10

LEMMA NearBreakStep ==
  ASSUME LinkInv, UNCHANGED <<serverVars, fromNear, fromFar>>, Client!Breaks
  PROVE  Near!Next /\ UNCHANGED <<ToFar, Sent, ToNear, SentBack>>
  <1>1. /\ UNCHANGED <<up, down, cTaken, ServerClosed>>
    BY DEF Client!Breaks, serverVars, ServerClosed
  <1>2. UNCHANGED <<ToFar, Sent, ToNear, SentBack>>
    BY <1>1 DEF ToFar, Sent, ToNear, SentBack, serverVars
  <1>3. Near!Breaks
    BY <1>1, <1>2, NearAlike DEF Client!Breaks, Near!Breaks, Client!ReadsOfResponse, Near!ReadsOfResponse
  <1> QED
    BY <1>2, <1>3 DEF Near!Next

\* A step of the near session in the link is a step of Socks5Client.
LEMMA NearSteps ==
  ASSUME LinkInv, ClientStep
  PROVE  /\ Near!Next /\ UNCHANGED <<serverVars, fromNear, fromFar, ToNear, SentBack>>
         /\ \/ UNCHANGED <<up, ToFar, Sent>>
            \/ /\ fromNear = 0 /\ up' \in Seq(Byte) /\ Sent' \in Seq(Byte) /\ ToFar' = Sent'
               /\ Near!Written
  <1>1. UNCHANGED <<serverVars, fromNear, fromFar>> /\ Client!Next
    BY DEF ClientStep, NearStep
  <1>2. CASE Client!Written
    BY <1>1, <1>2, NearWriteStep DEF Near!Next, Near!Progress
  <1>3. CASE \/ Client!AuthRespRead \/ Client!CredsReplyRead
             \/ Client!HeaderRead \/ Client!NameLengthRead \/ Client!AddressRead
    <2>1. Near!Next /\ UNCHANGED <<ToFar, Sent, ToNear, SentBack>>
      BY <1>1, <1>3, NearReadSteps
    <2>2. up' = up
      BY <1>3 DEF Client!AuthRespRead, Client!CredsReplyRead, Client!HeaderRead,
        Client!NameLengthRead, Client!AddressRead
    <2> QED
      BY <1>1, <2>1, <2>2
  <1>4. CASE Client!Breaks
    <2>1. Near!Next /\ UNCHANGED <<ToFar, Sent, ToNear, SentBack>>
      BY <1>1, <1>4, NearBreakStep
    <2>2. up' = up
      BY <1>4 DEF Client!Breaks
    <2> QED
      BY <1>1, <2>1, <2>2
  <1> QED
    BY <1>1, <1>2, <1>3, <1>4 DEF Client!Next, Client!Progress, Client!EndOfStream

\* The near session has a step to take only before its verdict.
LEMMA NearAtWork ==
  ASSUME LinkInv, Near!Next
  PROVE  verdict = "pending" /\ fromNear = 0 /\ UNCHANGED <<creds, dst>>
  <1>1. cOp # "none" /\ UNCHANGED <<creds, dst>>
    BY DEF Near!Next, Near!Progress, Near!Written, Near!AuthRespRead, Near!CredsReplyRead,
      Near!HeaderRead, Near!NameLengthRead, Near!AddressRead, Near!EndOfStream, Near!Breaks,
      Near!Take, Near!Writes
  <1>2. verdict = "pending"
    BY <1>1 DEF LinkInv, Near!ClientInv, Near!Outcome
  <1>3. fromNear = 0
    BY <1>2 DEF LinkInv, Relaying
  <1> QED
    BY <1>1, <1>2, <1>3

\* What the near session has written is the next of its messages.
LEMMA NextMessage ==
  ASSUME LinkInv, Near!Written
  PROVE  Sent' \in {Near!AuthRequest, Near!AuthRequest \o Near!Secrets,
                    (Near!AuthRequest \o Near!Secrets) \o Near!ConnectRequest}
  <1>1. /\ Near!TypeOK /\ Near!Stage /\ Sent' = Sent \o Near!Message
        /\ cOp \in {"auth_write_req", "auth_write_creds", "conn_write_req"}
    BY DEF LinkInv, Near!ClientInv, Near!Written, Near!Writes
  <1>2. CASE cOp = "auth_write_req"
    <2>1. Sent = <<>> /\ Near!Message = Near!AuthRequest
      BY <1>1, <1>2 DEF Near!Stage, Near!Message
    <2>2. Near!AuthRequest \in Seq(Byte)
      BY <1>1, SameBytes, NearAssumption, Near!MessageFacts
    <2>3. <<>> \o Near!AuthRequest = Near!AuthRequest
      BY <2>2, ConcatEmptySeq
    <2> QED
      BY <1>1, <2>1, <2>3
  <1>3. CASE cOp = "auth_write_creds"
    BY <1>1, <1>3 DEF Near!Stage, Near!Message, Near!Secrets
  <1>4. CASE cOp = "conn_write_req"
    BY <1>1, <1>4 DEF Near!Stage, Near!Message
  <1> QED
    BY <1>1, <1>2, <1>3, <1>4

LEMMA NearKeepsInv ==
  ASSUME LinkInv, ClientStep
  PROVE  LinkInv'
  <1>1. /\ Near!Next /\ UNCHANGED <<serverVars, fromNear, fromFar, ToNear, SentBack>>
        /\ \/ UNCHANGED <<up, ToFar, Sent>>
           \/ /\ up' \in Seq(Byte) /\ Sent' \in Seq(Byte) /\ ToFar' = Sent'
              /\ Near!Written
    BY NearSteps
  <1>2. verdict = "pending" /\ fromNear = 0 /\ UNCHANGED <<creds, dst>>
    BY <1>1, NearAtWork
  <1>3. Near!ClientInv'
    BY <1>1, NearAssumption, Near!ClientInvNext DEF LinkInv
  <1>4. Far!ServerInv'
    <2>1. up' \in Seq(Far!Byte)
      BY <1>1, LinkTypes, SameBytes
    <2>2. UNCHANGED Far!serverVars
      BY <1>1 DEF serverVars, Far!serverVars
    <2>3. ClientClosed' \in BOOLEAN
      BY DEF ClientClosed
    <2> QED
      BY <1>1, <2>1, <2>2, <2>3, FarAssumption, Far!ServerInvKept DEF LinkInv
  <1>5. Relaying'
    <2>1. EndsInPayload(ToFar, fromNear)'
      <3>1. CASE ToFar' = ToFar
        BY <1>1, <3>1 DEF LinkInv, Relaying, EndsInPayload
      <3>2. CASE ToFar' = Sent' /\ Sent' \in Seq(Byte)
        BY <1>1, <1>2, <3>2, AllOfIt DEF EndsInPayload
      <3> QED
        BY <1>1, <3>1, <3>2
    <2>2. EndsInPayload(ToNear, fromFar)'
      BY <1>1 DEF LinkInv, Relaying, EndsInPayload
    <2> QED
      BY <1>1, <1>2, <2>1, <2>2 DEF LinkInv, Relaying, serverVars
  <1>6. Messages'
    <2>1. /\ UNCHANGED <<Near!AuthRequest, Near!Secrets, Near!ConnectRequest>>
      BY <1>2, NearAssumption, Near!Steady
    <2>2. UNCHANGED <<answered, told, SentBack, Far!ReplyTo(told)>>
      BY <1>1 DEF serverVars
    <2>3. Sent' = Sent \/ Near!Written
      BY <1>1
    <2> QED
      BY <2>1, <2>2, <2>3, NextMessage DEF LinkInv, Messages
  <1> QED
    BY <1>3, <1>4, <1>5, <1>6 DEF LinkInv

-----------------------------------------------------------------------------
(* The tunnel.                                                              *)

\* Neither end's invariant minds what the other does, as long as what it has
\* written itself stands.
LEMMA NearKept ==
  ASSUME LinkInv, UNCHANGED <<clientVars, Sent>>, down' \in Seq(Byte)
  PROVE  Near!ClientInv'
  <1>1. UNCHANGED <<Near!clientVars, Sent>>
    BY DEF clientVars, Near!clientVars
  <1>2. down' \in Seq(Near!Byte) /\ ServerClosed' \in BOOLEAN
    BY SameBytes DEF ServerClosed
  <1> QED
    BY <1>1, <1>2, NearAssumption, Near!ClientInvKept DEF LinkInv

LEMMA FarKept ==
  ASSUME LinkInv, UNCHANGED <<serverVars, SentBack>>, up' \in Seq(Byte)
  PROVE  Far!ServerInv'
  <1>1. UNCHANGED <<Far!serverVars, SentBack>>
    BY DEF serverVars, Far!serverVars
  <1>2. up' \in Seq(Far!Byte) /\ ClientClosed' \in BOOLEAN
    BY SameBytes DEF ClientClosed
  <1> QED
    BY <1>1, <1>2, FarAssumption, Far!ServerInvKept DEF LinkInv

\* The messages stand while neither end writes one.
LEMMA MessagesKept ==
  ASSUME LinkInv, UNCHANGED <<creds, dst, answered, told, Sent, SentBack>>
  PROVE  Messages'
  <1>1. UNCHANGED <<Near!AuthRequest, Near!Secrets, Near!ConnectRequest>>
    BY NearAssumption, Near!Steady
  <1>2. UNCHANGED Far!ReplyTo(told)
    OBVIOUS
  <1> QED
    BY <1>1, <1>2 DEF LinkInv, Messages

LEMMA AppendedBehind ==
  ASSUME NEW s \in Seq(Byte), NEW t \in Seq(Byte)
  PROVE  s \o Append(t, Payload) = Append(s \o t, Payload)
  <1>1. Payload \in Byte
    BY DEF Payload, Byte
  <1>2. Append(t, Payload) = t \o <<Payload>> /\ <<Payload>> \in Seq(Byte)
    BY <1>1, AppendIsConcat
  <1>3. s \o t \in Seq(Byte)
    BY ConcatProperties
  <1>4. Append(s \o t, Payload) = (s \o t) \o <<Payload>>
    BY <1>1, <1>3, AppendIsConcat
  <1>5. \A m \in Seq(Byte) : s \o (t \o m) = (s \o t) \o m
    BY ConcatAssociative
  <1>6. s \o (t \o <<Payload>>) = (s \o t) \o <<Payload>>
    BY <1>2, <1>5
  <1> QED
    BY <1>2, <1>4, <1>6, Zenon

LEMMA NearRelaysKeepsInv ==
  ASSUME LinkInv, NearRelays
  PROVE  LinkInv'
  <1>1. /\ verdict = "Succeeded" /\ up' = Append(up, Payload) /\ fromNear' = fromNear + 1
        /\ UNCHANGED <<clientVars, serverVars, down, fromFar>>
    BY DEF NearRelays
  <1>2. /\ up \in Seq(Byte) /\ down \in Seq(Byte) /\ sTaken \in Seq(Byte)
        /\ ToFar \in Seq(Byte) /\ fromNear \in Nat
    BY LinkTypes
  <1>3. ToFar' = Append(ToFar, Payload)
    BY <1>1, <1>2, AppendedBehind DEF ToFar, serverVars
  <1>4. up' \in Seq(Byte)
    <2>1. Payload \in Byte
      BY DEF Payload, Byte
    <2> QED
      BY <1>1, <1>2, <2>1, AppendProperties
  <1>5. EndsInPayload(ToFar, fromNear)' /\ Sent' = Sent
    <2>1. EndsInPayload(ToFar, fromNear)
      BY DEF LinkInv, Relaying
    <2>2. /\ EndsInPayload(ToFar', fromNear + 1)
          /\ SubSeq(ToFar', 1, Len(ToFar') - (fromNear + 1)) = Sent
      BY <1>2, <1>3, <2>1, Relayed1 DEF Sent
    <2> QED
      BY <1>1, <2>2 DEF Sent, EndsInPayload
  <1>6. ToNear' = ToNear /\ SentBack' = SentBack
    BY <1>1 DEF ToNear, SentBack, clientVars
  <1>7. Near!ClientInv' /\ Far!ServerInv'
    BY <1>1, <1>2, <1>4, <1>5, <1>6, NearKept, FarKept
  <1>8. Relaying'
    <2>1. EndsInPayload(ToNear, fromFar)'
      BY <1>1, <1>6 DEF LinkInv, Relaying, EndsInPayload
    <2>2. fromNear' \in Nat
      BY <1>1, <1>2
    <2> QED
      BY <1>1, <1>5, <2>1, <2>2 DEF LinkInv, Relaying, serverVars, clientVars
  <1>9. Messages'
    BY <1>1, <1>5, <1>6, MessagesKept DEF clientVars, serverVars
  <1> QED
    BY <1>7, <1>8, <1>9 DEF LinkInv

LEMMA FarRelaysKeepsInv ==
  ASSUME LinkInv, FarRelays
  PROVE  LinkInv'
  <1>1. /\ answered = "ok" /\ told = "Succeeded" /\ down' = Append(down, Payload)
        /\ fromFar' = fromFar + 1 /\ UNCHANGED <<clientVars, serverVars, up, fromNear>>
    BY DEF FarRelays
  <1>2. /\ up \in Seq(Byte) /\ down \in Seq(Byte) /\ cTaken \in Seq(Byte)
        /\ ToNear \in Seq(Byte) /\ fromFar \in Nat
    BY LinkTypes
  <1>3. ToNear' = Append(ToNear, Payload)
    BY <1>1, <1>2, AppendedBehind DEF ToNear, clientVars
  <1>4. down' \in Seq(Byte)
    <2>1. Payload \in Byte
      BY DEF Payload, Byte
    <2> QED
      BY <1>1, <1>2, <2>1, AppendProperties
  <1>5. EndsInPayload(ToNear, fromFar)' /\ SentBack' = SentBack
    <2>1. EndsInPayload(ToNear, fromFar)
      BY DEF LinkInv, Relaying
    <2>2. /\ EndsInPayload(ToNear', fromFar + 1)
          /\ SubSeq(ToNear', 1, Len(ToNear') - (fromFar + 1)) = SentBack
      BY <1>2, <1>3, <2>1, Relayed1 DEF SentBack
    <2> QED
      BY <1>1, <2>2 DEF SentBack, EndsInPayload
  <1>6. ToFar' = ToFar /\ Sent' = Sent
    BY <1>1, SameToFar DEF serverVars
  <1>7. Near!ClientInv' /\ Far!ServerInv'
    BY <1>1, <1>2, <1>4, <1>5, <1>6, NearKept, FarKept
  <1>8. Relaying'
    <2>1. EndsInPayload(ToFar, fromNear)'
      BY <1>1, <1>6 DEF LinkInv, Relaying, EndsInPayload
    <2>2. fromFar' \in Nat
      BY <1>1, <1>2
    <2> QED
      BY <1>1, <1>5, <2>1, <2>2 DEF LinkInv, Relaying, serverVars, clientVars
  <1>9. Messages'
    BY <1>1, <1>5, <1>6, MessagesKept DEF clientVars, serverVars
  <1> QED
    BY <1>7, <1>8, <1>9 DEF LinkInv

-----------------------------------------------------------------------------
(* The far session's steps.                                                 *)

LEMMA FarAlike ==
  /\ Server!Got = Far!Got
  /\ \A o : Server!Take(o) <=> Far!Take(o)
  /\ \A o, n : Server!Begin(o, n) <=> Far!Begin(o, n)
  /\ \A o, n : Server!Continue(o, n) <=> Far!Continue(o, n)
  /\ \A e : Server!RequestFails(e) <=> Far!RequestFails(e)
  /\ \A d : Server!Request(d) <=> Far!Request(d)
  /\ \A m : Server!Offered(m) <=> Far!Offered(m)
  /\ \A k, a, n : Server!Destination(k, a, n) = Far!Destination(k, a, n)
  /\ \A a, n : Server!ByName(a, n) = Far!ByName(a, n)
  /\ \A h, l : Server!PortOf(h, l) = Far!PortOf(h, l)
  /\ \A mc : Server!ReplyTo(mc) = Far!ReplyTo(mc)
  <1>1. Server!Got = Far!Got
    BY DEF Server!Got, Far!Got
  <1>2. \A o : Server!Take(o) <=> Far!Take(o)
    BY DEF Server!Take, Far!Take, Server!Got, Far!Got
  <1>3. \A o, n : Server!Begin(o, n) <=> Far!Begin(o, n)
    BY DEF Server!Begin, Far!Begin
  <1>4. \A o, n : Server!Continue(o, n) <=> Far!Continue(o, n)
    BY <1>3 DEF Server!Continue, Far!Continue
  <1>5. \A e : Server!RequestFails(e) <=> Far!RequestFails(e)
    BY <1>3 DEF Server!RequestFails, Far!RequestFails
  <1>6. \A d : Server!Request(d) <=> Far!Request(d)
    BY <1>3 DEF Server!Request, Far!Request
  <1>7. \A m : Server!Offered(m) <=> Far!Offered(m)
    BY <1>1 DEF Server!Offered, Far!Offered
  <1>8. \A k, a, n : Server!Destination(k, a, n) = Far!Destination(k, a, n)
    BY DEF Server!Destination, Far!Destination
  <1>9. \A a, n : Server!ByName(a, n) = Far!ByName(a, n)
    BY <1>8 DEF Server!ByName, Far!ByName, Server!DefaultAddress, Far!DefaultAddress,
      Server!Zeros, Far!Zeros
  <1>10. \A h, l : Server!PortOf(h, l) = Far!PortOf(h, l)
    BY DEF Server!PortOf, Far!PortOf
  <1>11. \A mc : Server!ReplyTo(mc) = Far!ReplyTo(mc)
    BY DEF Server!ReplyTo, Far!ReplyTo, Server!MajorToRep, Far!MajorToRep,
      Server!Zeros, Far!Zeros
  <1> QED
    BY <1>1, <1>2, <1>3, <1>4, <1>5, <1>6, <1>7, <1>8, <1>9, <1>10, <1>11

\* Where the connection to the near session is left alone.
LEMMA SameToNear ==
  ASSUME UNCHANGED <<cTaken, down, fromFar>>
  PROVE  ToNear' = ToNear /\ SentBack' = SentBack
  BY DEF ToNear, SentBack

LEMMA FarReads ==
  ASSUME LinkInv, UNCHANGED <<clientVars, fromNear, fromFar, down>>, NEW o, Server!Take(o)
  PROVE  /\ Far!Take(o) /\ UNCHANGED <<ToFar, Sent, ToNear, SentBack>>
  <1>1. up \in Seq(Byte) /\ sTaken \in Seq(Byte) /\ sNeed \in Nat
    BY LinkTypes
  <1>2. /\ sNeed <= Len(up) /\ up' = SubSeq(up, sNeed + 1, Len(up))
        /\ sTaken' = sTaken \o SubSeq(up, 1, sNeed)
    BY <1>1, LenProperties DEF Server!Take, Server!Got
  <1>3. ToFar' = ToFar
    BY <1>1, <1>2, Moved DEF ToFar
  <1>4. Sent' = Sent
    BY <1>3 DEF Sent
  <1>5. ToNear' = ToNear /\ SentBack' = SentBack
    BY SameToNear DEF clientVars
  <1> QED
    BY <1>3, <1>4, <1>5, FarAlike

LEMMA FarReadSteps ==
  ASSUME LinkInv, UNCHANGED <<clientVars, fromNear, fromFar>>,
         \/ Server!AuthReqRead \/ Server!MethodsRead \/ Server!HeaderRead
         \/ Server!AddrV4Read \/ Server!NameLengthRead \/ Server!AddrNameRead
         \/ Server!AddrV6Read
  PROVE  Far!Next /\ UNCHANGED <<ToFar, Sent, ToNear, SentBack, down>>
  <1>1. /\ down' = down /\ ClientClosed' = ClientClosed
        /\ \E o : Server!Take(o)
    BY DEF Server!AuthReqRead, Server!MethodsRead, Server!HeaderRead, Server!AddrV4Read,
      Server!NameLengthRead, Server!AddrNameRead, Server!AddrV6Read, clientVars, ClientClosed
  <1>2. /\ UNCHANGED <<ToFar, Sent, ToNear, SentBack>>
        /\ \A o : Server!Take(o) <=> Far!Take(o)
    BY <1>1, FarReads, FarAlike
  <1>3. CASE Server!AuthReqRead
    BY <1>1, <1>2, <1>3, FarAlike
    DEF Server!AuthReqRead, Far!AuthReqRead, Far!Next, Far!Progress
  <1>4. CASE Server!MethodsRead
    BY <1>1, <1>2, <1>4, FarAlike
    DEF Server!MethodsRead, Far!MethodsRead, Far!Next, Far!Progress
  <1>5. CASE Server!HeaderRead
    BY <1>1, <1>2, <1>5, FarAlike
    DEF Server!HeaderRead, Far!HeaderRead, Far!Next, Far!Progress
  <1>6. CASE Server!AddrV4Read
    BY <1>1, <1>2, <1>6, FarAlike
    DEF Server!AddrV4Read, Far!AddrV4Read, Far!Next, Far!Progress
  <1>7. CASE Server!NameLengthRead
    BY <1>1, <1>2, <1>7, FarAlike
    DEF Server!NameLengthRead, Far!NameLengthRead, Far!Next, Far!Progress
  <1>8. CASE Server!AddrNameRead
    BY <1>1, <1>2, <1>8, FarAlike
    DEF Server!AddrNameRead, Far!AddrNameRead, Far!Next, Far!Progress
  <1>9. CASE Server!AddrV6Read
    BY <1>1, <1>2, <1>9, FarAlike
    DEF Server!AddrV6Read, Far!AddrV6Read, Far!Next, Far!Progress
  <1> QED
    BY <1>1, <1>2, <1>3, <1>4, <1>5, <1>6, <1>7, <1>8, <1>9

\* Where the far session writes nothing has been relayed by it.
LEMMA FarWrites ==
  ASSUME LinkInv, UNCHANGED <<clientVars, fromNear, fromFar, sTaken, up>>, fromFar = 0,
         NEW m \in Seq(Byte), down' = down \o m
  PROVE  /\ down' \in Seq(Byte) /\ SentBack' = SentBack \o m
         /\ ToNear' = SentBack' /\ SentBack' \in Seq(Byte) /\ UNCHANGED <<ToFar, Sent>>
  <1>1. down \in Seq(Byte) /\ cTaken \in Seq(Byte) /\ ToNear \in Seq(Byte)
    BY LinkTypes
  <1>2. down' \in Seq(Byte)
    BY <1>1, ConcatProperties
  <1>3. ToNear' = ToNear \o m
    <2>1. \A s, t, u \in Seq(Byte) : s \o (t \o u) = (s \o t) \o u
      BY ConcatAssociative
    <2>2. ToNear' = cTaken \o (down \o m)
      BY DEF ToNear, clientVars
    <2> HIDE DEF ToNear
    <2>3. cTaken \o (down \o m) = (cTaken \o down) \o m
      BY <1>1, <2>1
    <2> QED
      BY <2>2, <2>3 DEF ToNear
  <1>4. ToNear' \in Seq(Byte)
    BY <1>1, <1>3, ConcatProperties
  <1>5. SentBack = ToNear /\ SentBack' = ToNear'
    <2>1. /\ SentBack = SubSeq(ToNear, 1, Len(ToNear) - 0)
          /\ SentBack' = SubSeq(ToNear', 1, Len(ToNear') - 0)
      BY DEF SentBack
    <2> QED
      BY <1>1, <1>4, <2>1, AllOfIt
  <1>6. UNCHANGED <<ToFar, Sent>>
    BY SameToFar
  <1> QED
    BY <1>2, <1>3, <1>4, <1>5, <1>6

\* The method is selected while the request is read, and the reply written
\* while there is no answer yet.
LEMMA FarWriteSteps ==
  ASSUME LinkInv, UNCHANGED <<clientVars, fromNear, fromFar>>,
         Server!MethodWritten \/ Server!AnswerWritten
  PROVE  /\ Far!Next /\ fromFar = 0 /\ down' \in Seq(Byte)
         /\ ToNear' = SentBack' /\ SentBack' \in Seq(Byte) /\ UNCHANGED <<ToFar, Sent>>
         /\ \/ SentBack' = Method
            \/ answered' = "ok" /\ SentBack' = Method \o Far!ReplyTo(told')
  <1>1. Far!Outcome /\ Far!TypeOK
    BY DEF LinkInv, Far!ServerInv
  <1>2. ClientClosed' = ClientClosed /\ UNCHANGED <<clientVars, sTaken, up>>
    BY DEF Server!MethodWritten, Server!AnswerWritten, clientVars, ClientClosed
  <1>3. CASE Server!MethodWritten
    <2>1. sOp = "auth_write_resp" /\ down' = down \o Method /\ Method \in Seq(Byte)
      BY <1>3 DEF Server!MethodWritten, Method, Byte
    <2>2. SentBack = <<>> /\ fromFar = 0
      <3>1. asked = "pending" /\ SentBack = <<>>
        BY <1>1, <2>1 DEF Far!Outcome
      <3>2. answered = "pending"
        BY <1>1, <3>1 DEF Far!Outcome
      <3> QED
        BY <3>1, <3>2 DEF LinkInv, Relaying
    <2>3. /\ down' \in Seq(Byte) /\ SentBack' = SentBack \o Method
          /\ ToNear' = SentBack' /\ SentBack' \in Seq(Byte) /\ UNCHANGED <<ToFar, Sent>>
      BY <1>2, <2>1, <2>2, FarWrites
    <2>4. SentBack' = Method
      BY <2>1, <2>2, <2>3, ConcatEmptySeq
    <2>5. Far!MethodWritten
      BY <1>2, <1>3, <2>3, FarAlike DEF Server!MethodWritten, Far!MethodWritten, Method
    <2> QED
      BY <2>2, <2>3, <2>4, <2>5 DEF Far!Next, Far!Progress
  <1>4. CASE Server!AnswerWritten
    <2>1. /\ sOp = "write_connect_response" /\ down' = down \o Far!ReplyTo(told)
          /\ answered' = "ok" /\ told' = told
      BY <1>4, FarAlike DEF Server!AnswerWritten
    <2>2. told # "none" /\ answered = "pending" /\ asked = "ok"
      BY <1>1, <2>1 DEF Far!Outcome
    <2>3. SentBack = Method /\ fromFar = 0
      <3>1. SentBack = Method
        BY <1>1, <2>2 DEF Far!Outcome, Method
      <3>2. fromFar = 0
        BY <2>2 DEF LinkInv, Relaying
      <3> QED
        BY <3>1, <3>2
    <2>4. Far!ReplyTo(told) \in Seq(Byte)
      <3>1. told \in Far!Major
        BY <1>1, <2>2 DEF Far!TypeOK
      <3> QED
        BY <3>1, SameBytes, FarAssumption, Far!ReplyFacts
    <2>5. /\ down' \in Seq(Byte) /\ SentBack' = SentBack \o Far!ReplyTo(told)
          /\ ToNear' = SentBack' /\ SentBack' \in Seq(Byte) /\ UNCHANGED <<ToFar, Sent>>
      BY <1>2, <2>1, <2>3, <2>4, FarWrites
    <2>6. Far!AnswerWritten
      BY <1>2, <1>4, <2>5, FarAlike DEF Server!AnswerWritten, Far!AnswerWritten
    <2> QED
      BY <2>1, <2>3, <2>5, <2>6 DEF Far!Next, Far!Progress
  <1> QED
    BY <1>3, <1>4

\* The call that begins the answer, and errors.
LEMMA FarOtherSteps ==
  ASSUME LinkInv, UNCHANGED <<clientVars, fromNear, fromFar>>,
         Server!Breaks \/ \E mc \in Server!Major : Server!Answer(mc)
  PROVE  Far!Next /\ UNCHANGED <<ToFar, Sent, ToNear, SentBack, down>>
  <1>1. ClientClosed' = ClientClosed /\ UNCHANGED <<clientVars, sTaken, up, down>>
    BY DEF Server!Breaks, Server!Answer, clientVars, ClientClosed
  <1>2. UNCHANGED <<ToFar, Sent, ToNear, SentBack, down>>
    BY <1>1, SameToFar, SameToNear DEF clientVars
  <1>3. CASE Server!Breaks
    BY <1>1, <1>2, <1>3, FarAlike DEF Server!Breaks, Far!Breaks, Far!Next
  <1>4. ASSUME NEW mc \in Server!Major, Server!Answer(mc) PROVE Far!Next
    <2>1. mc \in Far!Major
      BY DEF Server!Major, Far!Major
    <2>2. Far!Answer(mc)
      BY <1>1, <1>2, <1>4, FarAlike DEF Server!Answer, Far!Answer
    <2> QED
      BY <2>1, <2>2 DEF Far!Next
  <1> QED
    BY <1>2, <1>3, <1>4

\* The verdict on a request is passed once, and so is the answer to it.
LEMMA AnsweredForGood ==
  ASSUME LinkInv, Far!Next
  PROVE  answered # "pending" => answered' = answered /\ told' = told
  <1>1. Far!Outcome
    BY DEF LinkInv, Far!ServerInv
  <1>2. answered # "pending" => sOp = "none" /\ told # "none"
    <2>1. Far!TypeOK
      BY DEF LinkInv, Far!ServerInv
    <2> QED
      BY <1>1, <2>1 DEF Far!Outcome, Far!TypeOK, Far!Op
  <1> QED
    BY <1>2 DEF Far!Next, Far!Progress, Far!AuthReqRead, Far!MethodsRead, Far!MethodWritten,
      Far!HeaderRead, Far!AddrV4Read, Far!NameLengthRead, Far!AddrNameRead, Far!AddrV6Read,
      Far!AnswerWritten, Far!EndOfStream, Far!Breaks, Far!Answer, Far!Take, Far!Reads

LEMMA FarKeepsInv ==
  ASSUME LinkInv, ServerStep
  PROVE  LinkInv'
  <1>1. UNCHANGED <<clientVars, fromNear, fromFar>> /\ Server!Next
    BY DEF ServerStep, FarStep
  <1>2. /\ Far!Next /\ UNCHANGED <<ToFar, Sent>>
        /\ \/ UNCHANGED <<down, ToNear, SentBack>>
           \/ /\ fromFar = 0 /\ down' \in Seq(Byte) /\ ToNear' = SentBack'
              /\ SentBack' \in Seq(Byte)
              /\ \/ SentBack' = Method
                 \/ answered' = "ok" /\ SentBack' = Method \o Far!ReplyTo(told')
    BY <1>1, FarReadSteps, FarWriteSteps, FarOtherSteps
    DEF Server!Next, Server!Progress, Server!EndOfStream
  <1>3. answered # "pending" => answered' = answered /\ told' = told
    BY <1>2, AnsweredForGood
  <1>4. Far!ServerInv'
    BY <1>2, FarAssumption, Far!ServerInvNext DEF LinkInv
  <1>5. Near!ClientInv'
    BY <1>1, <1>2, LinkTypes, NearKept
  <1>6. Relaying'
    <2>1. EndsInPayload(ToNear, fromFar)'
      <3>1. CASE ToNear' = ToNear
        BY <1>1, <3>1 DEF LinkInv, Relaying, EndsInPayload
      <3>2. CASE fromFar = 0 /\ ToNear' = SentBack' /\ SentBack' \in Seq(Byte)
        BY <1>1, <3>2, AllOfIt DEF EndsInPayload
      <3> QED
        BY <1>2, <3>1, <3>2
    <2>2. EndsInPayload(ToFar, fromNear)'
      BY <1>1, <1>2 DEF LinkInv, Relaying, EndsInPayload
    <2> QED
      BY <1>1, <1>3, <2>1, <2>2 DEF LinkInv, Relaying, clientVars
  <1>7. Messages'
    <2>1. UNCHANGED <<Near!AuthRequest, Near!Secrets, Near!ConnectRequest>>
      <3>1. UNCHANGED <<creds, dst>>
        BY <1>1 DEF clientVars
      <3> QED
        BY <3>1, NearAssumption, Near!Steady
    <2>2. \/ SentBack' \in {<<>>, Method}
          \/ answered' = "ok" /\ SentBack' = Method \o Far!ReplyTo(told')
      <3>1. CASE SentBack' = SentBack
        <4>1. CASE SentBack \in {<<>>, Method}
          BY <3>1, <4>1
        <4>2. CASE answered = "ok" /\ SentBack = Method \o Far!ReplyTo(told)
          BY <1>3, <3>1, <4>2
        <4> QED
          BY <4>1, <4>2 DEF LinkInv, Messages
      <3> QED
        BY <1>2, <3>1
    <2> QED
      BY <1>2, <2>1, <2>2 DEF LinkInv, Messages, Method
  <1> QED
    BY <1>4, <1>5, <1>6, <1>7 DEF LinkInv

-----------------------------------------------------------------------------
(* The invariant.                                                           *)

LEMMA LinkInvInit == Init => LinkInv
  <1> SUFFICES ASSUME Init PROVE LinkInv
    OBVIOUS
  <1>1. /\ up = <<>> /\ down = <<>> /\ sTaken = <<>> /\ cTaken = <<>>
        /\ fromNear = 0 /\ fromFar = 0
        /\ verdict = "pending" /\ answered = "pending"
    BY DEF Init, Client!ClientInit, Server!ServerInit
  <1>2. <<>> \in Seq(Byte) /\ <<>> \o <<>> = <<>>
    <2>1. <<>> \in Seq(Byte)
      OBVIOUS
    <2> QED
      BY <2>1, ConcatEmptySeq
  <1>3. ToFar = <<>> /\ ToNear = <<>> /\ Sent = <<>> /\ SentBack = <<>>
    <2>1. ToFar = <<>> /\ ToNear = <<>>
      BY <1>1, <1>2 DEF ToFar, ToNear
    <2>2. Sent = SubSeq(ToFar, 1, Len(ToFar) - 0) /\ SentBack = SubSeq(ToNear, 1, Len(ToNear) - 0)
      BY <1>1 DEF Sent, SentBack
    <2> QED
      BY <1>2, <2>1, <2>2, AllOfIt
  <1>4. Near!ClientInv
    <2>1. /\ creds \in Credentials /\ dst \in Destinations /\ cOp = "auth_write_req"
          /\ cNeed = 0 /\ rep = 0 /\ written = "pending"
      BY DEF Init, Client!ClientInit
    <2>2. Near!TypeOK
      <3>1. down \in Seq(Near!Byte) /\ Sent \in Seq(Near!Byte) /\ cTaken \in Seq(Near!Byte)
        BY <1>1, <1>2, <1>3, SameBytes
      <3>2. rep \in Near!Byte /\ ServerClosed \in BOOLEAN
        BY <2>1 DEF Near!Byte, ServerClosed
      <3> QED
        BY <1>1, <2>1, <3>1, <3>2 DEF Near!TypeOK, Near!Op, Near!Writes
    <2>3. Near!Stage
      BY <1>1, <1>3, <2>1 DEF Near!Stage
    <2>4. Near!Outcome
      BY <1>1, <1>3, <2>1
      DEF Near!Outcome, Near!Writes, Near!ReadsOfRequest, Near!ReadsOfResponse, Near!Major
    <2> QED
      BY <2>2, <2>3, <2>4 DEF Near!ClientInv
  <1>5. Far!ServerInv
    <2>1. /\ sDst = [kind |-> "none", addr |-> <<>>, port |-> 0]
          /\ sOp = "auth_read_req" /\ sNeed = 2
          /\ asked = "pending" /\ told = "none"
      BY DEF Init, Server!ServerInit, Server!NoDestination, Server!Destination
    <2>2. Far!TypeOK
      <3>1. up \in Seq(Far!Byte) /\ SentBack \in Seq(Far!Byte) /\ sTaken \in Seq(Far!Byte)
        BY <1>1, <1>2, <1>3, SameBytes
      <3>2. 0 \in Far!Port /\ ClientClosed \in BOOLEAN
        BY DEF Far!Port, Far!LastPort, ClientClosed
      <3> QED
        BY <1>1, <2>1, <3>1, <3>2 DEF Far!TypeOK, Far!Op, Far!Reads
    <2>3. Far!Stage
      BY <1>1, <2>1 DEF Far!Stage
    <2>4. Far!Outcome
      BY <1>1, <1>3, <2>1 DEF Far!Outcome, Far!Reads, Far!NoDestination, Far!Destination
    <2>5. Far!RequestExactlyTaken /\ Far!RequestUnderstood
      BY <2>1 DEF Far!RequestExactlyTaken, Far!RequestUnderstood
    <2> QED
      BY <2>2, <2>3, <2>4, <2>5 DEF Far!ServerInv
  <1>6. Relaying
    <2>1. EndsInPayload(<<>>, 0)
      BY <1>2, AllOfIt
    <2> QED
      BY <1>1, <1>3, <2>1 DEF Relaying
  <1>7. Messages
    BY <1>3 DEF Messages
  <1> QED
    BY <1>4, <1>5, <1>6, <1>7 DEF LinkInv

LEMMA LinkInvNext == LinkInv /\ [Next]_vars => LinkInv'
  <1> SUFFICES ASSUME LinkInv, [Next]_vars PROVE LinkInv'
    OBVIOUS
  <1>1. CASE UNCHANGED vars
    <2>1. UNCHANGED <<clientVars, serverVars, up, down, fromNear, fromFar>>
      BY <1>1 DEF vars
    <2>2. UNCHANGED <<ToFar, Sent, ToNear, SentBack>>
      BY <2>1, SameToFar, SameToNear DEF clientVars, serverVars
    <2>3. up' \in Seq(Byte) /\ down' \in Seq(Byte)
      BY <2>1, LinkTypes
    <2>4. Near!ClientInv' /\ Far!ServerInv'
      BY <2>1, <2>2, <2>3, NearKept, FarKept
    <2>5. Relaying'
      BY <2>1, <2>2 DEF LinkInv, Relaying, EndsInPayload, clientVars, serverVars
    <2>6. Messages'
      BY <2>1, <2>2, MessagesKept DEF clientVars, serverVars
    <2> QED
      BY <2>4, <2>5, <2>6 DEF LinkInv
  <1> QED
    BY <1>1, NearKeepsInv, FarKeepsInv, NearRelaysKeepsInv, FarRelaysKeepsInv DEF Next

\* Whatever is relayed, and whatever breaks at either end, each session keeps
\* to its own protocol, and between them are the messages of the handshake, in
\* order, and behind those the tunnel.
THEOREM LinkInvariant == Spec => []LinkInv
  BY LinkInvInit, LinkInvNext, PTL DEF Spec

-----------------------------------------------------------------------------
(* What has been read at one end is a part of what the other has written.   *)

LEMMA Joined ==
  ASSUME NEW s \in Seq(Byte), NEW t \in Seq(Byte)
  PROVE  /\ s \o t \in Seq(Byte) /\ Len(s \o t) = Len(s) + Len(t)
         /\ \A i \in 1..Len(s) : (s \o t)[i] = s[i]
         /\ \A i \in 1..Len(t) : (s \o t)[Len(s) + i] = t[i]
         /\ Len(s) \in Nat /\ Len(t) \in Nat
  <1>1. s \in Seq(Far!Byte) /\ t \in Seq(Far!Byte)
    BY SameBytes
  <1>2. Len(s) \in Nat /\ Len(t) \in Nat
    BY LenProperties
  <1> QED
    BY <1>1, <1>2, SameBytes, FarAssumption, Far!Joined

\* What is in front of the payload, and the payload, byte by byte.
LEMMA InFront ==
  ASSUME NEW t \in Seq(Byte), NEW n \in Nat, EndsInPayload(t, n)
  PROVE  LET s == SubSeq(t, 1, Len(t) - n) IN
         /\ Len(s) = Len(t) - n /\ Len(s) \in Nat
         /\ \A i \in 1..Len(s) : s[i] = t[i]
         /\ \A i \in Len(s) + 1..Len(t) : t[i] = Payload
  <1> DEFINE k == Len(t) - n
             s == SubSeq(t, 1, k)
  <1>1. Len(t) \in Nat /\ n <= Len(t) /\ k \in Nat /\ k <= Len(t)
    BY LenProperties DEF EndsInPayload
  <1>2. \A i \in k + 1..Len(t) : t[i] = Payload
    BY <1>1 DEF EndsInPayload
  <1> HIDE DEF k
  <1>3. \A i \in 1..k : t[i] \in Byte
    BY <1>1, ElementOfSeq
  <1>4. /\ Len(s) = IF 1 <= k THEN k - 1 + 1 ELSE 0
        /\ \A i \in 1..k - 1 + 1 : s[i] = t[1 + i - 1]
    BY <1>1, <1>3, SubSeqProperties
  <1>5. Len(s) = k /\ \A i \in 1..k : s[i] = t[i]
    BY <1>1, <1>4
  <1> HIDE DEF s
  <1> QED
    BY <1>1, <1>2, <1>5 DEF s, k

\* Once the handshake has been read to its end, the rest is the payload.
LEMMA NothingElse ==
  ASSUME NEW s \in Seq(Byte), NEW t \in Seq(Byte), NEW n \in Nat,
         EndsInPayload(s \o t, n), Len(s) = Len(SubSeq(s \o t, 1, Len(s \o t) - n))
  PROVE  t = Repeated(n)
  <1> DEFINE w == s \o t
             f == SubSeq(w, 1, Len(w) - n)
  <1>1. /\ w \in Seq(Byte) /\ Len(w) = Len(s) + Len(t) /\ Len(s) \in Nat /\ Len(t) \in Nat
        /\ \A i \in 1..Len(t) : w[Len(s) + i] = t[i]
    BY Joined
  <1> HIDE DEF w
  <1>2. /\ Len(f) = Len(w) - n /\ \A i \in Len(f) + 1..Len(w) : w[i] = Payload
    BY <1>1, InFront DEF w
  <1>3. Len(s) = Len(f)
    BY DEF w
  <1> HIDE DEF f
  <1>4. Len(t) = n
    BY <1>1, <1>2, <1>3
  <1>5. ASSUME NEW i \in 1..n PROVE t[i] = Payload
    <2>1. Len(f) + i \in Len(f) + 1..Len(w) /\ i \in 1..Len(t)
      BY <1>1, <1>2, <1>3, <1>4
    <2>2. w[Len(f) + i] = Payload /\ w[Len(f) + i] = t[i]
      BY <1>1, <1>2, <1>3, <2>1
    <2> QED
      BY <2>2
  <1>6. t = [i \in 1..Len(t) |-> t[i]]
    BY LenProperties
  <1> QED
    BY <1>4, <1>5, <1>6 DEF Repeated

-----------------------------------------------------------------------------
(* The reply.                                                               *)

\* There is an answer to a request that was taken, and it is on its way.
LEMMA Answered ==
  ASSUME LinkInv, answered = "ok"
  PROVE  /\ asked = "ok" /\ told \in Far!Major
         /\ SentBack = Method \o Far!ReplyTo(told)
  <1>1. Far!TypeOK /\ Far!Outcome
    BY DEF LinkInv, Far!ServerInv
  <1>2. told # "none" /\ asked = "ok"
    BY <1>1 DEF Far!Outcome
  <1> QED
    BY <1>1, <1>2 DEF Far!TypeOK, Far!Outcome, Method

\* What comes back, if it is more than the method, is a reply of ten bytes.
LEMMA WholeAnswer ==
  ASSUME LinkInv, Len(ToNear) > 2
  PROVE  /\ answered = "ok" /\ asked = "ok" /\ told \in Far!Major
         /\ Len(SentBack) = 12 /\ ToNear[2] = 0 /\ ToNear[6] = 1
         /\ ToNear[4] = 0 <=> told = "Succeeded"
  <1> DEFINE r == Far!ReplyTo(told)
  <1>1. /\ ToNear \in Seq(Byte) /\ fromFar \in Nat /\ EndsInPayload(ToNear, fromFar)
    BY LinkTypes DEF LinkInv, Relaying
  <1>2. /\ Len(SentBack) = Len(ToNear) - fromFar
        /\ \A i \in 1..Len(SentBack) : SentBack[i] = ToNear[i]
    BY <1>1, InFront DEF SentBack
  <1>3. Method \in Seq(Byte) /\ Len(Method) = 2 /\ Method[2] = 0 /\ Len(<<>>) = 0
    BY DEF Method, Byte
  <1>4. answered = "ok"
    <2> SUFFICES ASSUME answered # "ok" PROVE FALSE
      OBVIOUS
    <2>1. fromFar = 0 /\ SentBack \in {<<>>, Method}
      BY <1>1 DEF LinkInv, Relaying, Messages
    <2>2. Len(SentBack) = 0 \/ Len(SentBack) = 2
      BY <1>3, <2>1
    <2>3. Len(ToNear) \in Nat /\ Len(SentBack) = Len(ToNear)
      BY <1>1, <1>2, <2>1, LenProperties
    <2> HIDE DEF SentBack
    <2> QED
      BY <2>2, <2>3
  <1>5. asked = "ok" /\ told \in Far!Major /\ SentBack = Method \o r
    BY <1>4, Answered
  <1>6. /\ r \in Seq(Byte) /\ Len(r) = 10 /\ r[4] = 1
        /\ r[2] = 0 <=> told = "Succeeded"
    <2>1. Far!ATYP.v4 = 1
      BY FarAssumption, Far!AddressTypes
    <2> QED
      BY <1>5, <2>1, SameBytes, FarAssumption, Far!ReplyFacts
  <1> HIDE DEF r
  <1>7. /\ Len(SentBack) = Len(Method) + Len(r)
        /\ \A i \in 1..Len(Method) : SentBack[i] = Method[i]
        /\ \A i \in 1..Len(r) : SentBack[Len(Method) + i] = r[i]
    BY <1>3, <1>5, <1>6, Joined
  <1>8. /\ Len(SentBack) = 12 /\ SentBack[2] = 0 /\ SentBack[4] = r[2] /\ SentBack[6] = r[4]
    BY <1>3, <1>6, <1>7
  <1>9. ToNear[2] = 0 /\ ToNear[4] = r[2] /\ ToNear[6] = r[4]
    BY <1>2, <1>8
  <1> QED
    BY <1>4, <1>5, <1>6, <1>8, <1>9

\* A verdict is on that reply, which has been read to its last byte.
LEMMA VerdictOnAnswer ==
  ASSUME LinkInv, verdict \in Near!Major
  PROVE  /\ answered = "ok" /\ asked = "ok" /\ told \in Far!Major
         /\ Len(cTaken) = Len(SentBack)
         /\ verdict = "Succeeded" <=> told = "Succeeded"
  <1> DEFINE r == Near!Reply
             a == Near!Admission
  <1>1. Near!TypeOK /\ Near!Outcome
    BY DEF LinkInv, Near!ClientInv
  <1>2. /\ Near!HeadAccepted /\ Near!WholeMessage(r)
        /\ verdict = Near!RepToMajor(rep) /\ Near!Admitted
    BY <1>1 DEF Near!Outcome, Near!Major
  <1>3. /\ r \in Seq(Near!Byte) /\ Len(r) = Len(cTaken) - a /\ a \in {2, 4}
        /\ \A i \in 1..Len(r) : r[i] = cTaken[a + i]
    <2>1. Len(cTaken) >= a
      BY <1>2 DEF Near!Admitted
    <2> QED
      BY <1>1, <2>1, NearAssumption, Near!ReplyFacts, Near!InputFacts
  <1>4. Len(r) >= 5 /\ r[2] = rep /\ Len(cTaken) \in Nat
    <2>1. Len(cTaken) \in Nat
      BY LinkTypes, LenProperties
    <2> QED
      BY <1>2, <2>1 DEF Near!WholeMessage, Near!HeadAccepted
  <1> HIDE DEF r
  <1>5. /\ \A i \in 1..Len(cTaken) : ToNear[i] = cTaken[i]
        /\ Len(ToNear) >= Len(cTaken)
    <2>1. cTaken \in Seq(Byte) /\ down \in Seq(Byte)
      BY LinkTypes
    <2>2. /\ Len(ToNear) = Len(cTaken) + Len(down) /\ Len(down) \in Nat
          /\ \A i \in 1..Len(cTaken) : ToNear[i] = cTaken[i]
      BY <2>1, Joined DEF ToNear
    <2> HIDE DEF ToNear
    <2> QED
      BY <1>4, <2>2
  <1>6. /\ answered = "ok" /\ asked = "ok" /\ told \in Far!Major
        /\ Len(SentBack) = 12 /\ ToNear[2] = 0 /\ ToNear[6] = 1
        /\ ToNear[4] = 0 <=> told = "Succeeded"
    <2>1. Len(ToNear) > 2
      <3> HIDE DEF ToNear, a
      <3>1. Len(ToNear) \in Nat
        BY LinkTypes, LenProperties
      <3> QED
        BY <1>3, <1>4, <1>5, <3>1
    <2> QED
      BY <2>1, WholeAnswer
  <1>7. a = 2
    <2>1. cTaken[2] = 0
      BY <1>3, <1>4, <1>5, <1>6
    <2> QED
      BY <1>2, <2>1 DEF Near!Admitted, Near!Admission
  <1> HIDE DEF a
  <1>8. r[2] = ToNear[4] /\ r[4] = 1
    BY <1>3, <1>4, <1>5, <1>6, <1>7
  <1>9. Len(r) = 10
    <2>1. Near!ATYP.v4 = 1 /\ Near!ATYP.v6 = 4 /\ Near!ATYP.name = 3
      BY DEF Near!ATYP
    <2>2. Near!MessageLength(r) = 10
      BY <1>8, <2>1 DEF Near!MessageLength
    <2> QED
      BY <1>2, <2>2 DEF Near!WholeMessage, r
  <1>10. Len(cTaken) = 12
    <2> DEFINE n == Len(cTaken)
               l == Len(r)
    <2>1. n \in Nat /\ l = n - a /\ l = 10
      BY <1>3, <1>4, <1>9
    <2> HIDE DEF n, l
    <2>2. n = 12
      BY <1>7, <2>1
    <2> QED
      BY <2>2 DEF n
  <1>11. verdict = "Succeeded" <=> rep = 0
    BY <1>2 DEF Near!RepToMajor
  <1> QED
    BY <1>4, <1>6, <1>8, <1>10, <1>11

\* The near session takes its connection for complete exactly when the far one
\* has completed it (socks5_rep_to_major_code and major_code_to_rep, across
\* the wire), with any credentials and whatever has been relayed behind the
\* reply.
THEOREM LinkVerdictTrue == Spec => []VerdictIsTrue
  <1>1. LinkInv => VerdictIsTrue
    <2>1. Client!Major = Near!Major /\ "none" \notin Far!Major
      BY DEF Client!Major, Near!Major, Far!Major
    <2> QED
      BY <2>1, VerdictOnAnswer DEF VerdictIsTrue
  <1> QED
    BY <1>1, LinkInvariant, PTL

-----------------------------------------------------------------------------
(* The request.                                                             *)

\* The near session's messages: what is behind a greeting, and the greeting.
LEMMA Written ==
  ASSUME LinkInv
  PROVE  LET g == Near!AuthRequest
             c == Near!ConnectRequest
         IN
         /\ g \in Seq(Byte) /\ Len(g) = 3 /\ g[2] = 1
         /\ g[3] = 0 => Near!NoCreds
         /\ c \in Seq(Byte) /\ Near!WholeMessage(c) /\ Near!Named(c) = dst
         /\ Near!Secrets \in Seq(Byte)
         /\ Near!NoCreds => Near!Secrets = <<>>
         /\ fromNear > 0 => Sent = (g \o Near!Secrets) \o c
  <1>1. Near!TypeOK /\ Near!Outcome
    BY DEF LinkInv, Near!ClientInv
  <1>2. /\ Near!AuthRequest \in Seq(Byte) /\ Len(Near!AuthRequest) = 3
        /\ Near!Secrets \in Seq(Byte) /\ Near!ConnectRequest \in Seq(Byte)
    BY <1>1, SameBytes, NearAssumption, Near!MessageFacts
  <1>3. /\ Near!WholeMessage(Near!ConnectRequest) /\ Near!Named(Near!ConnectRequest) = dst
    BY <1>1, NearAssumption, Near!RequestDecoded
  <1>4. Near!AuthRequest[2] = 1 /\ (Near!AuthRequest[3] = 0 => Near!NoCreds)
    BY DEF Near!AuthRequest
  <1>5. fromNear > 0 => Sent = (Near!AuthRequest \o Near!Secrets) \o Near!ConnectRequest
    <2>1. fromNear > 0 => verdict = "Succeeded"
      BY DEF LinkInv, Relaying
    <2> QED
      BY <1>1, <2>1 DEF Near!Outcome
  <1> QED
    BY <1>2, <1>3, <1>4, <1>5 DEF Near!Secrets

\* What the far session takes for a request starts in the bytes of the near
\* one, and has a greeting in front that offers to go without credentials.
LEMMA Accepted ==
  ASSUME LinkInv, asked = "ok"
  PROVE  LET g == Far!GreetingLength
             r == Far!RequestTaken
         IN
         /\ g \in Nat /\ g >= 3 /\ g = 2 + ToFar[2] /\ \E i \in 3..g : ToFar[i] = 0
         /\ r \in Seq(Byte) /\ Len(r) >= 5 /\ Len(r) \in Nat /\ Far!WholeMessage(r)
         /\ Len(sTaken) = g + Len(r) /\ Len(ToFar) \in Nat /\ Len(sTaken) <= Len(ToFar)
         /\ \A i \in 1..Len(r) : r[i] = ToFar[g + i]
  <1> DEFINE g == Far!GreetingLength
             r == Far!RequestTaken
  <1>1. /\ sTaken \in Seq(Byte) /\ up \in Seq(Byte) /\ ToFar \in Seq(Byte)
        /\ Len(sTaken) \in Nat /\ Len(ToFar) \in Nat
    BY LinkTypes, LenProperties
  <1>2. /\ Len(sTaken) >= 3 /\ \E i \in 3..g : sTaken[i] = 0
        /\ Far!WholeMessage(r)
    BY DEF LinkInv, Far!ServerInv, Far!RequestExactlyTaken
  <1>3. g \in Nat /\ g >= 3 /\ g = 2 + sTaken[2]
    <2>1. sTaken[2] \in Byte
      BY <1>1, <1>2, ElementOfSeq
    <2>2. g = 2 + sTaken[2] /\ sTaken[2] \in Nat
      BY <2>1 DEF Byte, Far!GreetingLength
    <2> HIDE DEF g
    <2>3. PICK i \in 3..g : sTaken[i] = 0
      BY <1>2
    <2> QED
      BY <2>2, <2>3
  <1>4. Len(r) >= 5
    BY <1>2 DEF Far!WholeMessage
  <1>5. g <= Len(sTaken)
    <2> SUFFICES ASSUME g > Len(sTaken) PROVE FALSE
      BY <1>1, <1>3
    <2>1. \A i \in g + 1..Len(sTaken) : sTaken[i] \in Byte
      BY <1>1, <1>3
    <2>2. g + 1 \in Int /\ Len(sTaken) \in Int
      BY <1>1, <1>3
    <2>3. Len(SubSeq(sTaken, g + 1, Len(sTaken))) =
            IF g + 1 <= Len(sTaken) THEN Len(sTaken) - (g + 1) + 1 ELSE 0
      BY <1>1, <2>1, <2>2, SubSeqProperties
    <2>4. Len(r) = 0
      <3>1. Len(SubSeq(sTaken, g + 1, Len(sTaken))) = 0
        BY <1>1, <1>3, <2>3
      <3> QED
        BY <3>1 DEF Far!RequestTaken
    <2> QED
      BY <1>4, <2>4
  <1>6. /\ r \in Seq(Byte) /\ Len(r) = Len(sTaken) - g
        /\ \A i \in 1..(Len(sTaken) - g) : r[i] = sTaken[g + i]
    BY <1>1, <1>3, <1>5, SameBytes, FarAssumption, Far!RequestFacts
  <1>7. /\ Len(ToFar) = Len(sTaken) + Len(up) /\ Len(up) \in Nat
        /\ \A i \in 1..Len(sTaken) : ToFar[i] = sTaken[i]
    BY <1>1, Joined DEF ToFar
  <1> HIDE DEF g, r
  <1>8. Len(sTaken) = g + Len(r) /\ Len(r) \in Nat /\ Len(sTaken) <= Len(ToFar)
    BY <1>1, <1>3, <1>5, <1>6, <1>7
  <1>9. \E i \in 3..g : ToFar[i] = 0
    <2>1. PICK i \in 3..g : sTaken[i] = 0
      BY <1>2
    <2>2. i \in 1..Len(sTaken)
      BY <1>1, <1>3, <1>5
    <2>3. ToFar[i] = 0
      BY <1>7, <2>1, <2>2
    <2> QED
      BY <2>3
  <1>10. g = 2 + ToFar[2]
    BY <1>2, <1>1, <1>3, <1>7
  <1>11. ASSUME NEW i \in 1..Len(r) PROVE r[i] = ToFar[g + i]
    <2>1. g + i \in 1..Len(sTaken) /\ i \in 1..(Len(sTaken) - g)
      BY <1>1, <1>3, <1>8
    <2>2. r[i] = sTaken[g + i] /\ ToFar[g + i] = sTaken[g + i]
      BY <1>6, <1>7, <2>1
    <2> QED
      BY <2>2
  <1> QED
    BY <1>1, <1>2, <1>3, <1>4, <1>6, <1>8, <1>9, <1>10, <1>11 DEF g, r

\* Two whole messages, the one in front of what the other is in front of, are
\* the same: the head of a message tells its length.
LEMMA SameMessage ==
  ASSUME NEW r \in Seq(Byte), NEW c \in Seq(Byte),
         Far!WholeMessage(r), Near!WholeMessage(c), r[4] = c[4], r[5] = c[5]
  PROVE  Len(r) = Len(c)
  <1>1. Far!ATYP = Near!ATYP
    BY DEF Far!ATYP, Near!ATYP
  <1>2. Far!MessageLength(r) = Near!MessageLength(c)
    BY <1>1 DEF Far!MessageLength, Near!MessageLength
  <1> QED
    BY <1>2 DEF Far!WholeMessage, Near!WholeMessage

\* What the far session takes is the request of the near one, and then it has
\* taken all that the near one has written, but for the tunnel.
LEMMA RequestOnWire ==
  ASSUME LinkInv, asked = "ok"
  PROVE  Far!RequestTaken = Near!ConnectRequest /\ Len(sTaken) = Len(Sent)
  <1> DEFINE a == Near!AuthRequest
             p == Near!Secrets
             c == Near!ConnectRequest
             r == Far!RequestTaken
             g == Far!GreetingLength
             s == Sent
             w == ToFar
  <1>1. /\ a \in Seq(Byte) /\ Len(a) = 3 /\ a[2] = 1 /\ (a[3] = 0 => Near!NoCreds)
        /\ c \in Seq(Byte) /\ Near!WholeMessage(c)
        /\ p \in Seq(Byte) /\ (Near!NoCreds => p = <<>>)
        /\ fromNear > 0 => s = (a \o p) \o c
    BY Written
  <1>2. /\ g \in Nat /\ g >= 3 /\ g = 2 + w[2] /\ \E i \in 3..g : w[i] = 0
        /\ r \in Seq(Byte) /\ Len(r) >= 5 /\ Len(r) \in Nat /\ Far!WholeMessage(r)
        /\ Len(sTaken) = g + Len(r) /\ Len(w) \in Nat /\ Len(sTaken) <= Len(w)
        /\ \A i \in 1..Len(r) : r[i] = w[g + i]
    BY Accepted
  <1>3. /\ Len(s) = Len(w) - fromNear /\ \A i \in 1..Len(s) : s[i] = w[i]
        /\ Len(s) \in Nat /\ fromNear \in Nat
    <2>1. w \in Seq(Byte) /\ fromNear \in Nat /\ EndsInPayload(w, fromNear)
      BY LinkTypes DEF LinkInv, Relaying
    <2> QED
      BY <2>1, InFront DEF Sent
  <1>4. s \in {<<>>, a, a \o p, (a \o p) \o c}
    BY DEF LinkInv, Messages
  <1>5. Len(c) >= 5 /\ Len(c) \in Nat
    BY <1>1, LenProperties DEF Near!WholeMessage
  <1> HIDE DEF a, p, c, r, g, s, w
  <1>6. /\ a \o p \in Seq(Byte) /\ Len(a \o p) = Len(a) + Len(p) /\ Len(p) \in Nat
        /\ \A i \in 1..Len(a) : (a \o p)[i] = a[i]
    BY <1>1, Joined
  <1> DEFINE q == a \o p
  <1>7. /\ q \in Seq(Byte) /\ Len(q) = 3 + Len(p) /\ q[1] = a[1] /\ q[2] = 1 /\ q[3] = a[3]
    BY <1>1, <1>6
  <1> HIDE DEF q
  <1>8. /\ Len(q \o c) = Len(q) + Len(c)
        /\ \A i \in 1..Len(q) : (q \o c)[i] = q[i]
        /\ \A i \in 1..Len(c) : (q \o c)[Len(q) + i] = c[i]
    BY <1>1, <1>7, Joined
  <1>9. fromNear > 0 => s = q \o c
    BY <1>1 DEF q
  <1>10. s # <<>> => Len(s) >= 3 /\ s[2] = 1 /\ s[3] = a[3]
    <2>1. CASE s = a
      <3>1. Len(a) >= 3 /\ a[2] = 1
        <4>1. 3 >= 3
          OBVIOUS
        <4> QED
          BY <1>1, <4>1, Zenon
      <3> QED
        BY <2>1, <3>1, Zenon
    <2>2. CASE s = q
      BY <1>6, <1>7, <2>2
    <2>3. CASE s = q \o c
      BY <1>5, <1>6, <1>7, <1>8, <2>3
    <2> QED
      BY <1>4, <2>1, <2>2, <2>3 DEF q
  <1>11. Len(w) >= 8
    BY <1>2
  <1>12. fromNear = 0 => Len(s) = Len(w)
    BY <1>2, <1>3
  <1>13. Len(q \o c) # 0
    BY <1>5, <1>6, <1>7, <1>8
  <1>14. s # <<>>
    <2>1. Len(<<>>) = 0
      OBVIOUS
    <2>2. CASE fromNear = 0
      BY <1>11, <1>12, <2>1, <2>2
    <2>3. CASE fromNear > 0
      BY <1>9, <1>13, <2>1, <2>3
    <2> QED
      BY <1>3, <2>2, <2>3
  <1>15. g = 3 /\ a[3] = 0
    <2>1. w[2] = 1 /\ w[3] = a[3]
      BY <1>3, <1>10, <1>14
    <2> QED
      BY <1>2, <2>1
  <1>16. p = <<>> /\ q = a
    <2>1. p = <<>>
      BY <1>1, <1>15
    <2> QED
      BY <1>1, <2>1, ConcatEmptySeq DEF q
  <1>17. s = q \o c
    <2>1. CASE fromNear > 0
      BY <1>9, <2>1
    <2>2. CASE fromNear = 0
      <3>1. s # a
        <4>1. Len(s) >= 8
          BY <1>11, <1>12, <2>2
        <4>2. Len(s) # 3
          BY <1>3, <4>1
        <4> QED
          BY <1>1, <4>2, Zenon
      <3> QED
        BY <1>4, <1>14, <1>16, <3>1, Zenon DEF q
    <2> QED
      BY <1>3, <2>1, <2>2
  <1>18. Len(s) = 3 + Len(c) /\ \A i \in 1..Len(c) : s[3 + i] = c[i]
    BY <1>1, <1>8, <1>16, <1>17
  <1>19. ASSUME NEW i \in 1..Len(r), i <= Len(c) PROVE r[i] = c[i]
    <2>1. r[i] = w[3 + i]
      BY <1>2, <1>15, <1>19
    <2>2. i \in 1..Len(c) /\ 3 + i \in 1..Len(s)
      BY <1>5, <1>18, <1>19
    <2> QED
      BY <1>3, <1>18, <2>1, <2>2
  <1>20. Len(r) = Len(c)
    <2>1. /\ 4 \in 1..Len(r) /\ 4 <= Len(c)
          /\ 5 \in 1..Len(r) /\ 5 <= Len(c)
      BY <1>2, <1>5
    <2>2. r[4] = c[4] /\ r[5] = c[5]
      BY <1>19, <2>1
    <2> QED
      BY <1>1, <1>2, <2>2, SameMessage
  <1>21. r = c
    <2>1. \A i \in 1..Len(r) : r[i] = c[i]
      BY <1>5, <1>19, <1>20
    <2> QED
      BY <1>1, <1>2, <1>20, <2>1, SeqEqual
  <1>22. Len(sTaken) = Len(s)
    BY <1>2, <1>15, <1>18, <1>20
  <1> QED
    BY <1>21, <1>22 DEF r, c, s

\* The far session connects to the destination that the near one was given, by
\* IPv4 address or by name with its port, by IPv6 address without it
\* (conn_write_req against the conn_read_req_addr_*_handlers, across the wire).
THEOREM LinkDestinationArrives == Spec => []DestinationArrives
  <1>1. LinkInv => DestinationArrives
    <2> SUFFICES ASSUME LinkInv, asked = "ok" PROVE DestinationArrives
      BY DEF DestinationArrives
    <2> DEFINE c == Near!ConnectRequest
    <2>1. Far!RequestTaken = c
      BY RequestOnWire
    <2>2. /\ Near!WholeMessage(c) /\ Near!Named(c) = dst /\ c \in Seq(Byte)
          /\ Far!WholeMessage(c)
      BY <2>1, Written, Accepted
    <2>3. Far!RequestUnderstood
      BY DEF LinkInv, Far!ServerInv
    <2>4. dst.kind = "name" => dst.addr # <<>>
      <3>1. Near!TypeOK
        BY DEF LinkInv, Near!ClientInv
      <3> QED
        BY <3>1, NearAssumption, Near!InputFacts DEF Near!Encodable
    <2>5. /\ Far!ATYP.v4 = 1 /\ Far!ATYP.v6 = 4 /\ Far!ATYP.name = 3
          /\ Near!ATYP.v4 = 1 /\ Near!ATYP.v6 = 4 /\ Near!ATYP.name = 3
      BY DEF Far!ATYP, Near!ATYP
    <2> HIDE DEF c
    <2>6. Far!Named(c) = Near!Named(c)
      BY DEF Far!Named, Near!Named, Far!ATYP, Near!ATYP, Far!Destination, Near!Destination,
        Far!PortOf, Near!PortOf
    <2>7. c[4] \in {1, 3, 4}
      BY <2>2 DEF Near!WholeMessage
    <2>8. CASE c[4] = 4
      <3>1. dst.kind = "v6"
        BY <2>2, <2>5, <2>8 DEF Near!Named, Near!Destination
      <3>2. sDst.kind = "v6" /\ sDst.addr = dst.addr
        BY <2>1, <2>2, <2>3, <2>5, <2>6, <2>8 DEF Far!RequestUnderstood
      <3> QED
        BY <3>1, <3>2 DEF DestinationArrives
    <2>9. CASE c[4] # 4
      <3>1. Far!Nameable(c)
        <4> SUFFICES ASSUME c[4] = 3, c[5] = 0 PROVE FALSE
          BY <2>5 DEF Far!Nameable
        <4>1. Len(c) = 7
          BY <2>2, <2>5 DEF Near!WholeMessage, Near!MessageLength
        <4>2. dst.kind = "name" /\ dst.addr = SubSeq(c, 6, Len(c) - 2)
          BY <2>2, <2>5 DEF Near!Named, Near!Destination
        <4>3. SubSeq(c, 6, 5) = <<>>
          BY <2>2, SubSeqEmpty
        <4> QED
          BY <2>4, <4>1, <4>2, <4>3
      <3>2. sDst = dst
        BY <2>1, <2>2, <2>3, <2>5, <2>6, <2>9, <3>1 DEF Far!RequestUnderstood
      <3> QED
        BY <3>2 DEF DestinationArrives
    <2> QED
      BY <2>8, <2>9
  <1> QED
    BY <1>1, LinkInvariant, PTL

-----------------------------------------------------------------------------
(* The tunnel between the two.                                              *)

\* From where the tunnel begins, each end finds under way the bytes that the
\* other has relayed, all of them and nothing else, however early they were
\* sent.
THEOREM LinkPayloadIntact == Spec => []PayloadIntact
  <1>1. LinkInv => PayloadIntact
    <2> SUFFICES ASSUME LinkInv PROVE PayloadIntact
      OBVIOUS
    <2>1. /\ up \in Seq(Byte) /\ down \in Seq(Byte) /\ sTaken \in Seq(Byte)
          /\ cTaken \in Seq(Byte) /\ fromNear \in Nat /\ fromFar \in Nat
          /\ EndsInPayload(sTaken \o up, fromNear) /\ EndsInPayload(cTaken \o down, fromFar)
      BY LinkTypes DEF LinkInv, Relaying, ToFar, ToNear
    <2>2. ASSUME verdict = "Succeeded" PROVE down = Repeated(fromFar)
      <3>1. Len(cTaken) = Len(SentBack)
        BY <2>2, VerdictOnAnswer DEF Near!Major
      <3> QED
        BY <2>1, <3>1, NothingElse DEF SentBack, ToNear
    <2>3. ASSUME answered = "ok" PROVE up = Repeated(fromNear)
      <3>1. Len(sTaken) = Len(Sent)
        BY <2>3, Answered, RequestOnWire
      <3> QED
        BY <2>1, <3>1, NothingElse DEF Sent, ToFar
    <2> QED
      BY <2>2, <2>3 DEF PayloadIntact
  <1> QED
    BY <1>1, LinkInvariant, PTL

=============================================================================
