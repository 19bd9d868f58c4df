------------------------- MODULE Socks5ServerProofs -------------------------
(***************************************************************************)
(* Proofs about Socks5Server for every stream of bytes that a client may   *)
(* send: the inductive invariant ServerInv, and what the session relies on *)
(* when it takes a request from the server and has it answered.            *)
(***************************************************************************)
EXTENDS Socks5Server, SequenceTheorems, TLAPS

-----------------------------------------------------------------------------
(* Sequences of bytes.                                                      *)

\* A part of t, element by element.
LEMMA PartOf ==
  ASSUME NEW t \in Seq(Byte), NEW a \in Nat, NEW n \in Nat, a + n <= Len(t)
  PROVE  /\ SubSeq(t, a + 1, a + n) \in Seq(Byte)
         /\ Len(SubSeq(t, a + 1, a + n)) = n
         /\ \A i \in 1..n : SubSeq(t, a + 1, a + n)[i] = t[a + i]
  <1> DEFINE r == SubSeq(t, a + 1, a + n)
  <1>1. Len(t) \in Nat
    BY LenProperties
  <1>2. \A i \in (a + 1)..(a + n) : t[i] \in Byte
    BY <1>1, ElementOfSeq
  <1>3. a + 1 \in Int /\ a + n \in Int
    BY <1>1
  <1>4. /\ r \in Seq(Byte)
        /\ Len(r) = IF a + 1 <= a + n THEN a + n - (a + 1) + 1 ELSE 0
        /\ \A i \in 1..(a + n - (a + 1) + 1) : r[i] = t[a + 1 + i - 1]
    BY <1>2, <1>3, SubSeqProperties
  <1> QED
    BY <1>1, <1>4

\* Two parts with the same bytes are the same.
LEMMA SamePart ==
  ASSUME NEW s \in Seq(Byte), NEW t \in Seq(Byte),
         NEW a \in Nat, NEW b \in Nat, NEW n \in Nat,
         a + n <= Len(s), b + n <= Len(t), \A i \in 1..n : s[a + i] = t[b + i]
  PROVE  SubSeq(s, a + 1, a + n) = SubSeq(t, b + 1, b + n)
  <1> DEFINE p == SubSeq(s, a + 1, a + n)
             q == SubSeq(t, b + 1, b + n)
  <1>1. p \in Seq(Byte) /\ Len(p) = n /\ \A i \in 1..n : p[i] = s[a + i]
    BY PartOf
  <1>2. q \in Seq(Byte) /\ Len(q) = n /\ \A i \in 1..n : q[i] = t[b + i]
    BY PartOf
  <1> HIDE DEF p, q
  <1>3. Len(p) = Len(q) /\ \A i \in 1..Len(p) : p[i] = q[i]
    BY <1>1, <1>2
  <1>4. p = q
    BY <1>1, <1>2, <1>3, SeqEqual
  <1> QED
    BY <1>4 DEF p, q

\* A concatenation, element by element.
LEMMA Joined ==
  ASSUME NEW s \in Seq(Byte), NEW t \in Seq(Byte)
  PROVE  /\ s \o t \in Seq(Byte) /\ Len(s \o t) = Len(s) + Len(t)
         /\ \A i \in 1..Len(s) : (s \o t)[i] = s[i]
         /\ \A i \in 1..Len(t) : (s \o t)[Len(s) + i] = t[i]
  <1>1. Len(s) \in Nat /\ Len(t) \in Nat
    BY LenProperties
  <1>2. /\ s \o t \in Seq(Byte) /\ Len(s \o t) = Len(s) + Len(t)
        /\ \A i \in 1..(Len(s) + Len(t)) :
             (s \o t)[i] = IF i <= Len(s) THEN s[i] ELSE t[i - Len(s)]
    BY ConcatProperties
  <1> QED
    BY <1>1, <1>2

\* Values that a byte holds.
LEMMA ByteFacts ==
  /\ \A n \in Byte : n \in Nat /\ n <= 255
  /\ {0, 1, 5, 7} \subseteq Byte
  BY DEF Byte

\* Two bytes make a port.
LEMMA PortMade ==
  /\ 0 \in Port
  /\ \A hi, lo \in Byte : PortOf(hi, lo) \in Port
  <1>0. LastPort \in Nat /\ \A n \in Nat : n <= 65535 => n <= LastPort
    BY DEF LastPort
  <1>1. \A n \in Nat : n <= 65535 => n \in Port
    BY <1>0 DEF Port
  <1>2. ASSUME NEW hi \in Nat, NEW lo \in Nat, hi <= 255, lo <= 255
        PROVE  256 * hi + lo \in Nat /\ 256 * hi + lo <= 65535
    BY <1>2
  <1>3. \A n \in Byte : n \in Nat /\ n <= 255
    BY DEF Byte
  <1>4. ASSUME NEW hi \in Byte, NEW lo \in Byte PROVE PortOf(hi, lo) \in Port
    <2>1. hi \in Nat /\ hi <= 255 /\ lo \in Nat /\ lo <= 255
      BY <1>3
    <2>2. 256 * hi + lo \in Nat /\ 256 * hi + lo <= 65535
      BY <1>2, <2>1
    <2> QED
      BY <1>1, <2>2 DEF PortOf
  <1> QED
    BY <1>1, <1>4

LEMMA AddressTypes == ATYP.v4 = 1 /\ ATYP.name = 3 /\ ATYP.v6 = 4
  BY DEF ATYP

-----------------------------------------------------------------------------
(* What has been read.                                                      *)

\* A read moves need bytes from the connection to what has been taken.
LEMMA TakeStep ==
  ASSUME TypeOK, NEW o, Take(o)
  PROVE  /\ op = o /\ inp' \in Seq(Byte) /\ taken' \in Seq(Byte)
         /\ Got \in Seq(Byte) /\ Len(Got) = need /\ need \in Nat
         /\ Len(taken) \in Nat /\ Len(taken') = Len(taken) + need
         /\ \A i \in 1..Len(taken) : taken'[i] = taken[i]
         /\ \A i \in 1..need : taken'[Len(taken) + i] = Got[i] /\ Got[i] \in Byte
  <1>1. need \in Nat /\ Len(inp) \in Nat /\ need <= Len(inp) /\ inp \in Seq(Byte)
        /\ taken \in Seq(Byte) /\ Len(taken) \in Nat
    BY LenProperties DEF Take, TypeOK
  <1>2. inp' \in Seq(Byte)
    <2>1. need + (Len(inp) - need) = Len(inp) /\ Len(inp) - need \in Nat
      BY <1>1
    <2> DEFINE n == Len(inp) - need
    <2>2. SubSeq(inp, need + 1, need + n) \in Seq(Byte)
      BY <1>1, <2>1, PartOf
    <2> QED
      BY <2>1, <2>2 DEF Take
  <1>3. Got \in Seq(Byte) /\ Len(Got) = need
    <2>1. SubSeq(inp, 0 + 1, 0 + need) \in Seq(Byte) /\ Len(SubSeq(inp, 0 + 1, 0 + need)) = need
      <3>1. 0 \in Nat /\ 0 + need <= Len(inp)
        BY <1>1
      <3> QED
        BY <1>1, <3>1, PartOf
    <2> QED
      BY <1>1, <2>1 DEF Got
  <1>4. \A i \in 1..need : Got[i] \in Byte
    BY <1>3, ElementOfSeq
  <1>5. taken' = taken \o Got /\ op = o
    BY DEF Take
  <1>6. /\ taken' \in Seq(Byte) /\ Len(taken') = Len(taken) + Len(Got)
        /\ \A i \in 1..Len(taken) : taken'[i] = taken[i]
        /\ \A i \in 1..Len(Got) : taken'[Len(taken) + i] = Got[i]
    BY <1>1, <1>3, <1>5, Joined
  <1> QED
    BY <1>1, <1>2, <1>3, <1>4, <1>5, <1>6

\* The greeting that has been read has a length.
LEMMA GreetingFacts ==
  ASSUME TypeOK, Greeted
  PROVE  /\ GreetingLength \in Nat /\ GreetingLength >= 3
         /\ GreetingLength <= Len(taken) /\ Len(taken) \in Nat
         /\ taken \in Seq(Byte)
  <1>1. taken \in Seq(Byte) /\ Len(taken) \in Nat /\ Len(taken) >= 3
    BY LenProperties DEF TypeOK, Greeted
  <1>2. taken[2] \in Byte
    BY <1>1, ElementOfSeq
  <1>3. taken[2] \in Nat
    BY <1>2, ByteFacts
  <1>4. PICK i \in 3..GreetingLength : taken[i] = 0
    BY DEF Greeted
  <1>5. GreetingLength \in Nat /\ GreetingLength >= 3
    BY <1>3, <1>4 DEF GreetingLength
  <1> QED
    BY <1>1, <1>5 DEF Greeted

\* Reading more leaves the greeting, and the head of the request, in place.
LEMMA GreetingKept ==
  ASSUME TypeOK, NEW o, Take(o), Greeted
  PROVE  /\ Greeted' /\ GreetingLength' = GreetingLength
         /\ Len(taken') \in Nat
         /\ \A atyp : HeadTaken(atyp) => HeadTaken(atyp)'
  <1> DEFINE g == GreetingLength
  <1>1. /\ g \in Nat /\ g >= 3 /\ g <= Len(taken) /\ Len(taken) \in Nat
        /\ need \in Nat /\ Len(taken') = Len(taken) + need
        /\ \A i \in 1..Len(taken) : taken'[i] = taken[i]
    BY GreetingFacts, TakeStep
  <1>2. taken'[1] = 5 /\ taken'[2] = taken[2] /\ Len(taken') >= 3
    BY <1>1 DEF Greeted
  <1>3. GreetingLength' = g
    BY <1>2 DEF GreetingLength
  <1>4. \E i \in 3..g : taken'[i] = 0
    <2>1. PICK i \in 3..g : taken[i] = 0
      BY DEF Greeted
    <2>2. i \in 1..Len(taken)
      BY <1>1
    <2> QED
      BY <1>1, <2>1, <2>2
  <1> HIDE DEF g
  <1>5. Greeted'
    BY <1>1, <1>2, <1>3, <1>4 DEF Greeted
  <1>6. ASSUME NEW atyp, HeadTaken(atyp) PROVE HeadTaken(atyp)'
    <2>1. /\ Len(taken) >= g + 4 /\ taken[g + 1] = 5 /\ taken[g + 2] = 1
          /\ taken[g + 4] = atyp
      BY <1>6 DEF HeadTaken, g
    <2>2. taken'[g + 1] = 5 /\ taken'[g + 2] = 1 /\ taken'[g + 4] = atyp
      BY <1>1, <2>1
    <2>3. Len(taken') >= g + 4
      BY <1>1, <2>1
    <2> QED
      BY <1>3, <1>5, <2>2, <2>3 DEF HeadTaken
  <1>7. Len(taken') \in Nat
    BY <1>1
  <1> QED
    BY <1>3, <1>5, <1>6, <1>7 DEF g

\* Behind a greeting comes the request.
LEMMA RequestFacts ==
  ASSUME taken \in Seq(Byte), GreetingLength \in Nat, GreetingLength <= Len(taken)
  PROVE  /\ RequestTaken \in Seq(Byte)
         /\ Len(RequestTaken) = Len(taken) - GreetingLength
         /\ \A i \in 1..(Len(taken) - GreetingLength) :
              /\ RequestTaken[i] = taken[GreetingLength + i]
              /\ RequestTaken[i] \in Byte
  <1> DEFINE g == GreetingLength
             n == Len(taken) - g
  <1>1. Len(taken) \in Nat
    BY LenProperties
  <1>2. n \in Nat /\ g + n = Len(taken)
    BY <1>1
  <1>3. RequestTaken = SubSeq(taken, g + 1, g + n)
    BY <1>2 DEF RequestTaken
  <1> HIDE DEF g, n
  <1>4. /\ RequestTaken \in Seq(Byte) /\ Len(RequestTaken) = n
        /\ \A i \in 1..n : RequestTaken[i] = taken[g + i]
    <2>1. g \in Nat /\ g + n <= Len(taken)
      BY <1>1, <1>2 DEF g
    <2> QED
      BY <1>2, <1>3, <2>1, PartOf
  <1>5. \A i \in 1..n : RequestTaken[i] \in Byte
    BY <1>4, ElementOfSeq
  <1> QED
    BY <1>4, <1>5 DEF g, n

\* A greeting with a method that the server speaks is whole.
LEMMA GreetingWhole ==
  ASSUME TypeOK, Greeted
  PROVE  WholeGreeting(SubSeq(taken, 1, GreetingLength))
  <1> DEFINE g == GreetingLength
             s == SubSeq(taken, 1, g)
  <1>1. g \in Nat /\ g >= 3 /\ g <= Len(taken) /\ taken \in Seq(Byte)
    BY GreetingFacts
  <1>2. Len(s) = g /\ \A i \in 1..g : s[i] = taken[i]
    <2>1. 0 \in Nat /\ 0 + g <= Len(taken)
      BY <1>1
    <2> HIDE DEF g
    <2>2. /\ Len(SubSeq(taken, 0 + 1, 0 + g)) = g
          /\ \A i \in 1..g : SubSeq(taken, 0 + 1, 0 + g)[i] = taken[0 + i]
      BY <1>1, <2>1, PartOf
    <2> QED
      BY <1>1, <2>2
  <1>3. g = 2 + taken[2]
    BY DEF GreetingLength
  <1> HIDE DEF s, g
  <1>4. s[1] = 5 /\ s[2] = taken[2]
    BY <1>1, <1>2 DEF Greeted
  <1>5. WholeGreeting(s)
    BY <1>1, <1>2, <1>3, <1>4 DEF WholeGreeting
  <1> QED
    BY <1>5 DEF s, g

-----------------------------------------------------------------------------
(* The invariant.                                                           *)

LEMMA InvInit == Init => ServerInv
  <1> SUFFICES ASSUME Init PROVE ServerInv
    OBVIOUS
  <1>1. /\ dst = [kind |-> "none", addr |-> <<>>, port |-> 0]
        /\ op = "auth_read_req" /\ need = 2 /\ asked = "pending" /\ told = "none"
        /\ answered = "pending" /\ taken = <<>> /\ outp = <<>> /\ eof \in BOOLEAN
        /\ inp \in Seq(Byte)
    BY Socks5ServerAssumption DEF Init, ServerInit, NoDestination, Destination
  <1>3. TypeOK
    BY <1>1, PortMade DEF TypeOK, Op, Reads
  <1>4. Stage
    BY <1>1 DEF Stage
  <1>5. Outcome
    BY <1>1 DEF Outcome, Reads, NoDestination, Destination
  <1> QED
    BY <1>1, <1>3, <1>4, <1>5 DEF ServerInv, RequestExactlyTaken, RequestUnderstood

\* The request cannot be read.
LEMMA RequestRefused ==
  ASSUME ServerInv, op \in Reads \union {"auth_write_resp"},
         NEW err \in Error, RequestFails(err),
         UNCHANGED <<told, answered, outp, eof>>,
         inp' \in Seq(Byte), taken' \in Seq(Byte)
  PROVE  ServerInv'
  <1>1. /\ asked = "pending" /\ told = "none" /\ answered = "pending"
        /\ dst = NoDestination
    BY DEF ServerInv, Outcome
  <1>2. asked' = err /\ op' = "none" /\ need' = 0 /\ dst' = dst
    BY DEF RequestFails, Begin
  <1>3. err # "ok" /\ err # "pending"
    BY DEF Error
  <1>4. TypeOK'
    BY <1>2 DEF ServerInv, TypeOK, Op
  <1>5. Stage'
    BY <1>2 DEF Stage
  <1>6. Outcome'
    BY <1>1, <1>2, <1>3 DEF Outcome, Reads
  <1> QED
    BY <1>2, <1>3, <1>4, <1>5, <1>6 DEF ServerInv, RequestExactlyTaken, RequestUnderstood

\* The session goes on to another field of the request.
LEMMA RequestContinued ==
  ASSUME ServerInv, op \in Reads, NEW o \in Reads \union {"auth_write_resp"},
         NEW n \in Nat, n <= 257, Continue(o, n),
         UNCHANGED <<told, answered, outp, eof>>,
         inp' \in Seq(Byte), taken' \in Seq(Byte), Stage',
         o \in {"auth_read_req", "auth_read_req_methods", "auth_write_resp"} <=>
           op \in {"auth_read_req", "auth_read_req_methods", "auth_write_resp"}
  PROVE  ServerInv'
  <1>1. /\ asked = "pending" /\ told = "none" /\ answered = "pending"
        /\ dst = NoDestination
    BY DEF ServerInv, Outcome
  <1>2. asked' = asked /\ op' = o /\ need' = n /\ dst' = dst
    BY DEF Continue, Begin
  <1>3. TypeOK'
    <2>1. need' \in 0..257
      BY <1>2
    <2> QED
      BY <1>2, <2>1 DEF ServerInv, TypeOK, Op
  <1>4. Outcome'
    BY <1>1, <1>2 DEF ServerInv, Outcome, Reads
  <1> QED
    BY <1>1, <1>2, <1>3, <1>4 DEF ServerInv, RequestExactlyTaken, RequestUnderstood

\* The request has been read to its end.
LEMMA RequestAccepted ==
  ASSUME ServerInv, op \in Reads \ {"auth_read_req", "auth_read_req_methods"},
         NEW d \in RequestedSet, Request(d),
         UNCHANGED <<told, answered, outp, eof>>,
         inp' \in Seq(Byte), taken' \in Seq(Byte), Greeted',
         WholeMessage(RequestTaken'), RequestTaken'[2] = 1,
         RequestTaken'[4] # ATYP.v6 /\ Nameable(RequestTaken') => d = Named(RequestTaken'),
         RequestTaken'[4] = ATYP.v6 => d.kind = "v6" /\ d.addr = Named(RequestTaken').addr
  PROVE  ServerInv'
  <1>1. /\ asked = "pending" /\ told = "none" /\ answered = "pending"
        /\ outp = <<5, 0>>
    BY DEF ServerInv, Outcome
  <1>2. asked' = "ok" /\ op' = "none" /\ need' = 0 /\ dst' = d
    BY DEF Request, Begin
  <1>3. d.kind \in {"v4", "v6", "name"} /\ d.addr \in Seq(Byte) /\ d.port \in Port
    BY DEF RequestedSet
  <1>4. TypeOK'
    BY <1>2, <1>3 DEF ServerInv, TypeOK, Op
  <1>5. Stage'
    BY <1>2 DEF Stage
  <1>6. Outcome'
    BY <1>1, <1>2 DEF Outcome, Reads
  <1>7. WholeGreeting(SubSeq(taken, 1, GreetingLength))'
    BY <1>4, GreetingWhole, PTL
  <1>8. RequestExactlyTaken'
    BY <1>7 DEF RequestExactlyTaken, Greeted
  <1>9. RequestUnderstood'
    BY <1>2 DEF RequestUnderstood
  <1> QED
    BY <1>4, <1>5, <1>6, <1>8, <1>9 DEF ServerInv

-----------------------------------------------------------------------------
(* The steps.                                                               *)

\* auth_read_req_handler
LEMMA AuthReqReadStep == ServerInv /\ AuthReqRead => ServerInv'
  <1> SUFFICES ASSUME ServerInv, AuthReqRead PROVE ServerInv'
    OBVIOUS
  <1>1. /\ TypeOK /\ Take("auth_read_req") /\ op = "auth_read_req"
        /\ need = 2 /\ taken = <<>>
        /\ UNCHANGED <<told, answered, outp, eof>>
    BY DEF ServerInv, Stage, AuthReqRead, Take
  <1>2. /\ inp' \in Seq(Byte) /\ taken' \in Seq(Byte) /\ Len(taken') = 2
        /\ taken'[1] = Got[1] /\ taken'[2] = Got[2] /\ Got[2] \in Byte
    BY <1>1, TakeStep
  <1>3. CASE RequestFails("protocol_violation")
    BY <1>1, <1>2, <1>3, RequestRefused DEF Reads, Error
  <1>4. CASE Got[1] = 5 /\ Got[2] # 0 /\ Continue("auth_read_req_methods", Got[2])
    <2>1. op' = "auth_read_req_methods" /\ need' = Got[2]
      BY <1>4 DEF Continue, Begin
    <2>2. Stage'
      BY <1>2, <1>4, <2>1 DEF Stage
    <2>3. Got[2] \in Nat /\ Got[2] <= 257
      BY <1>2, ByteFacts
    <2> QED
      BY <1>1, <1>2, <1>4, <2>2, <2>3, RequestContinued DEF Reads
  <1> QED
    BY <1>3, <1>4 DEF AuthReqRead

\* auth_read_req_methods_handler
LEMMA MethodsReadStep == ServerInv /\ MethodsRead => ServerInv'
  <1> SUFFICES ASSUME ServerInv, MethodsRead PROVE ServerInv'
    OBVIOUS
  <1>1. /\ TypeOK /\ Take("auth_read_req_methods") /\ op = "auth_read_req_methods"
        /\ Len(taken) = 2 /\ taken[1] = 5 /\ taken[2] # 0 /\ need = taken[2]
        /\ UNCHANGED <<told, answered, outp, eof>>
    BY DEF ServerInv, Stage, MethodsRead, Take
  <1>2. /\ inp' \in Seq(Byte) /\ taken' \in Seq(Byte) /\ Len(taken') = 2 + need
        /\ taken'[1] = taken[1] /\ taken'[2] = taken[2]
        /\ \A i \in 1..need : taken'[2 + i] = Got[i]
        /\ need \in Nat /\ need # 0
    BY <1>1, TakeStep
  <1>3. CASE RequestFails("protocol_violation")
    BY <1>1, <1>2, <1>3, RequestRefused DEF Reads, Error
  <1>4. CASE Offered(0) /\ Continue("auth_write_resp", 0)
    <2>1. op' = "auth_write_resp" /\ need' = 0
      BY <1>4 DEF Continue, Begin
    <2>2. GreetingLength' = 2 + need
      BY <1>1, <1>2 DEF GreetingLength
    <2>3. Greeted'
      <3>1. PICK i \in 1..need : Got[i] = 0
        BY <1>4 DEF Offered
      <3>2. 2 + i \in 3..(2 + need) /\ taken'[2 + i] = 0
        BY <1>2, <3>1
      <3> QED
        BY <1>1, <1>2, <2>2, <3>2 DEF Greeted
    <2>4. Stage'
      BY <1>2, <2>1, <2>2, <2>3 DEF Stage
    <2> QED
      BY <1>1, <1>2, <1>4, <2>4, RequestContinued DEF Reads
  <1> QED
    BY <1>3, <1>4 DEF MethodsRead

\* auth_write_resp and its handler
LEMMA MethodWrittenStep == ServerInv /\ MethodWritten => ServerInv'
  <1> SUFFICES ASSUME ServerInv, MethodWritten PROVE ServerInv'
    OBVIOUS
  <1>1. /\ TypeOK /\ op = "auth_write_resp" /\ asked = "pending" /\ told = "none"
        /\ answered = "pending" /\ dst = NoDestination /\ outp = <<>>
        /\ Greeted /\ Len(taken) = GreetingLength
    BY DEF ServerInv, Stage, Outcome, MethodWritten, Reads
  <1>2. /\ op' = "conn_read_req" /\ need' = 4 /\ outp' = <<5, 0>>
        /\ UNCHANGED <<dst, asked, told, answered, inp, taken, eof>>
    <2>1. outp' = <<>> \o <<5, 0>>
      BY <1>1 DEF MethodWritten
    <2>2. <<5, 0>> \in Seq(Nat)
      OBVIOUS
    <2>3. outp' = <<5, 0>>
      BY <2>1, <2>2, ConcatEmptySeq
    <2> QED
      BY <2>3 DEF MethodWritten, Continue, Begin
  <1>3. TypeOK'
    <2>1. outp' \in Seq(Byte)
      BY <1>2, ByteFacts
    <2> QED
      BY <1>1, <1>2, <2>1 DEF TypeOK, Op, Reads
  <1>4. Greeted' /\ GreetingLength' = GreetingLength
    BY <1>1, <1>2 DEF Greeted, GreetingLength
  <1>5. Stage'
    BY <1>1, <1>2, <1>4 DEF Stage
  <1>6. Outcome'
    BY <1>1, <1>2 DEF Outcome, Reads
  <1> QED
    BY <1>1, <1>2, <1>3, <1>5, <1>6 DEF ServerInv, RequestExactlyTaken, RequestUnderstood

\* conn_read_req_handler
LEMMA HeaderReadStep == ServerInv /\ HeaderRead => ServerInv'
  <1> SUFFICES ASSUME ServerInv, HeaderRead PROVE ServerInv'
    OBVIOUS
  <1>1. /\ TypeOK /\ Take("conn_read_req") /\ op = "conn_read_req"
        /\ Greeted /\ Len(taken) = GreetingLength /\ need = 4
        /\ UNCHANGED <<told, answered, outp, eof>>
    BY DEF ServerInv, Stage, HeaderRead, Take
  <1>2. /\ inp' \in Seq(Byte) /\ taken' \in Seq(Byte)
        /\ Greeted' /\ GreetingLength' = GreetingLength /\ GreetingLength \in Nat
        /\ Len(taken') = GreetingLength + 4
        /\ \A i \in 1..4 : taken'[GreetingLength + i] = Got[i]
    BY <1>1, TakeStep, GreetingKept, GreetingFacts
  <1>3. ASSUME NEW err \in Error, RequestFails(err) PROVE ServerInv'
    BY <1>1, <1>2, <1>3, RequestRefused DEF Reads
  <1>4. ASSUME Got[1] = 5, Got[2] = 1, NEW atyp, Got[4] = atyp
        PROVE  HeadTaken(atyp)'
    <2>1. /\ taken'[GreetingLength' + 1] = 5 /\ taken'[GreetingLength' + 2] = 1
          /\ taken'[GreetingLength' + 4] = atyp
      BY <1>2, <1>4
    <2>2. Len(taken') >= GreetingLength' + 4
      BY <1>2
    <2> QED
      BY <1>2, <2>1, <2>2 DEF HeadTaken
  <1>5. ASSUME NEW o \in Reads, NEW n \in Nat, n <= 257, Continue(o, n), Got[1] = 5, Got[2] = 1,
               \/ o = "conn_read_req_addr_ipv4" /\ n = 6 /\ Got[4] = ATYP.v4
               \/ o = "conn_read_req_addr_domainname" /\ n = 1 /\ Got[4] = ATYP.name
               \/ o = "conn_read_req_addr_ipv6" /\ n = 18 /\ Got[4] = ATYP.v6
        PROVE  ServerInv'
    <2>1. op' = o /\ need' = n
      BY <1>5 DEF Continue, Begin
    <2>2. Len(taken') = GreetingLength' + 4
      BY <1>2
    <2>3. /\ Got[4] = ATYP.v4 => HeadTaken(ATYP.v4)'
          /\ Got[4] = ATYP.name => HeadTaken(ATYP.name)'
          /\ Got[4] = ATYP.v6 => HeadTaken(ATYP.v6)'
      BY <1>4, <1>5
    <2>4. Stage'
      BY <1>5, <2>1, <2>2, <2>3 DEF Stage
    <2> QED
      BY <1>1, <1>2, <1>5, <2>4, RequestContinued DEF Reads
  <1>6. CASE \E err \in Error : RequestFails(err)
    BY <1>3, <1>6
  <1>7. CASE /\ Got[1] = 5 /\ Got[2] = 1
             /\ \/ Got[4] = 1 /\ Continue("conn_read_req_addr_ipv4", 6)
                \/ Got[4] = 3 /\ Continue("conn_read_req_addr_domainname", 1)
                \/ Got[4] = 4 /\ Continue("conn_read_req_addr_ipv6", 18)
    BY <1>5, <1>7, AddressTypes DEF Reads
  <1> QED
    BY <1>6, <1>7 DEF HeaderRead, Error

\* A whole request by the length of its address.
LEMMA WholeByLength ==
  ASSUME NEW m \in Seq(Byte), m[1] = 5, Len(m) >= 5,
         \/ m[4] = 1 /\ Len(m) = 10
         \/ m[4] = 4 /\ Len(m) = 22
         \/ m[4] = 3 /\ Len(m) = 7 + m[5]
  PROVE  WholeMessage(m)
  BY AddressTypes DEF WholeMessage, MessageLength

\* What a read of the address adds to the request.
LEMMA AddressTaken ==
  ASSUME TypeOK, NEW o, Take(o), NEW atyp, HeadTaken(atyp)
  PROVE  /\ Greeted' /\ RequestTaken' \in Seq(Byte) /\ RequestTaken \in Seq(Byte)
         /\ Len(RequestTaken) = Len(taken) - GreetingLength /\ Len(RequestTaken) >= 4
         /\ Len(RequestTaken') = Len(RequestTaken) + need
         /\ RequestTaken'[1] = 5 /\ RequestTaken'[2] = 1 /\ RequestTaken'[4] = atyp
         /\ \A i \in 1..Len(RequestTaken) :
              /\ RequestTaken'[i] = RequestTaken[i]
              /\ RequestTaken[i] = taken[GreetingLength + i]
         /\ \A i \in 1..need : RequestTaken'[Len(RequestTaken) + i] = Got[i]
         /\ Len(RequestTaken) \in Nat
  <1> DEFINE g == GreetingLength
             n == Len(taken) - g
             r == RequestTaken
  <1>1. /\ Greeted /\ Len(taken) >= g + 4
        /\ taken[g + 1] = 5 /\ taken[g + 2] = 1 /\ taken[g + 4] = atyp
    BY DEF HeadTaken
  <1>2. /\ g \in Nat /\ g <= Len(taken) /\ Len(taken) \in Nat /\ taken \in Seq(Byte)
        /\ Greeted' /\ GreetingLength' = g /\ taken' \in Seq(Byte)
        /\ Len(taken') = Len(taken) + need /\ need \in Nat
        /\ \A i \in 1..Len(taken) : taken'[i] = taken[i]
        /\ \A i \in 1..need : taken'[Len(taken) + i] = Got[i]
    BY <1>1, GreetingFacts, GreetingKept, TakeStep
  <1>3. /\ r \in Seq(Byte) /\ Len(r) = n
        /\ \A i \in 1..n : r[i] = taken[g + i]
    BY <1>2, RequestFacts
  <1>4. /\ r' \in Seq(Byte) /\ Len(r') = Len(taken') - g
        /\ \A i \in 1..(Len(taken') - g) : r'[i] = taken'[g + i]
    <2>1. /\ taken' \in Seq(Byte) /\ GreetingLength' \in Nat
          /\ GreetingLength' <= Len(taken')
      BY <1>2
    <2>2. /\ RequestTaken' \in Seq(Byte)
          /\ Len(RequestTaken') = Len(taken') - GreetingLength'
          /\ \A i \in 1..(Len(taken') - GreetingLength') :
               RequestTaken'[i] = taken'[GreetingLength' + i]
      <3> DEFINE m == Len(taken') - GreetingLength'
      <3>2. m \in Nat /\ GreetingLength' + m = Len(taken')
        BY <1>2
      <3>3. RequestTaken' = SubSeq(taken', GreetingLength' + 1, GreetingLength' + m)
        BY <3>2 DEF RequestTaken
      <3> HIDE DEF m
      <3>4. GreetingLength' + m <= Len(taken')
        BY <1>2, <3>2
      <3>5. /\ RequestTaken' \in Seq(Byte) /\ Len(RequestTaken') = m
            /\ \A i \in 1..m : RequestTaken'[i] = taken'[GreetingLength' + i]
        BY <2>1, <3>2, <3>3, <3>4, PartOf
      <3> QED
        BY <3>5 DEF m
    <2> QED
      BY <1>2, <2>2
  <1> HIDE DEF g, r
  <1>5. n \in Nat /\ n >= 4 /\ Len(taken') - g = n + need
    BY <1>1, <1>2
  <1>6. ASSUME NEW i \in 1..n PROVE r'[i] = r[i]
    <2>1. g + i \in 1..Len(taken) /\ i \in 1..(Len(taken') - g)
      BY <1>2, <1>5
    <2> QED
      BY <1>2, <1>3, <1>4, <2>1
  <1>7. ASSUME NEW i \in 1..need PROVE r'[n + i] = Got[i]
    <2>1. n + i \in 1..(Len(taken') - g) /\ g + (n + i) = Len(taken) + i
      BY <1>2, <1>5
    <2>2. r'[n + i] = taken'[g + (n + i)]
      BY <1>4, <2>1
    <2> QED
      BY <1>2, <2>1, <2>2
  <1>8. r[1] = 5 /\ r[2] = 1 /\ r[4] = atyp
    BY <1>1, <1>3, <1>5
  <1>9. r'[1] = 5 /\ r'[2] = 1 /\ r'[4] = atyp
    BY <1>5, <1>6, <1>8
  <1> QED
    BY <1>2, <1>3, <1>4, <1>5, <1>6, <1>7, <1>9 DEF g, r

\* The bytes of an address or a name stand in the request as they were read.
LEMMA AddressInPlace ==
  ASSUME TypeOK, NEW o, Take(o), NEW atyp, HeadTaken(atyp),
         NEW k \in Nat, k <= need
  PROVE  /\ SubSeq(Got, 1, k) \in Seq(Byte)
         /\ SubSeq(Got, 1, k) = SubSeq(RequestTaken', Len(RequestTaken) + 1, Len(RequestTaken) + k)
  <1> DEFINE n == Len(RequestTaken)
             r == RequestTaken'
  <1>1. /\ n \in Nat /\ r \in Seq(Byte) /\ Len(r) = n + need
        /\ \A i \in 1..need : r[n + i] = Got[i]
    BY AddressTaken
  <1>2. Got \in Seq(Byte) /\ Len(Got) = need /\ need \in Nat
    BY TakeStep
  <1> HIDE DEF n, r
  <1>3. 0 \in Nat /\ 0 + k <= Len(Got) /\ n + k <= Len(r)
    BY <1>1, <1>2
  <1>4. \A i \in 1..k : Got[0 + i] = r[n + i]
    BY <1>1, <1>2
  <1>5. SubSeq(Got, 0 + 1, 0 + k) = SubSeq(r, n + 1, n + k)
    BY <1>1, <1>2, <1>3, <1>4, SamePart
  <1>6. SubSeq(Got, 0 + 1, 0 + k) \in Seq(Byte)
    BY <1>2, <1>3, PartOf
  <1> QED
    BY <1>5, <1>6 DEF n, r

\* conn_read_req_addr_ipv4_handler
LEMMA AddrV4ReadStep == ServerInv /\ AddrV4Read => ServerInv'
  <1> SUFFICES ASSUME ServerInv, AddrV4Read PROVE ServerInv'
    OBVIOUS
  <1> DEFINE r == RequestTaken'
             a == SubSeq(Got, 1, 4)
             p == PortOf(Got[5], Got[6])
             d == Destination("v4", a, p)
  <1>1. /\ TypeOK /\ Take("conn_read_req_addr_ipv4") /\ op = "conn_read_req_addr_ipv4"
        /\ HeadTaken(ATYP.v4) /\ Len(taken) = GreetingLength + 4 /\ need = 6
        /\ Request(d) /\ UNCHANGED <<told, answered, outp, eof>>
    BY DEF ServerInv, Stage, AddrV4Read, Take
  <1>2. inp' \in Seq(Byte) /\ taken' \in Seq(Byte) /\ \A i \in 1..6 : Got[i] \in Byte
    BY <1>1, TakeStep
  <1>3. GreetingLength \in Nat
    BY <1>1, GreetingFacts DEF HeadTaken
  <1>4. /\ Greeted' /\ r \in Seq(Byte) /\ Len(RequestTaken) = 4 /\ Len(r) = 10
        /\ r[1] = 5 /\ r[2] = 1 /\ r[4] = ATYP.v4
        /\ r[9] = Got[5] /\ r[10] = Got[6]
    <2> DEFINE n == Len(RequestTaken)
    <2>1. /\ Greeted' /\ r \in Seq(Byte) /\ n = Len(taken) - GreetingLength
          /\ Len(r) = n + need /\ r[1] = 5 /\ r[2] = 1 /\ r[4] = ATYP.v4
          /\ \A i \in 1..need : r[n + i] = Got[i]
      BY <1>1, AddressTaken
    <2> HIDE DEF n, r, a, p, d
    <2>2. n = 4 /\ Len(r) = 10
      BY <1>1, <1>3, <2>1
    <2>3. r[9] = Got[5] /\ r[10] = Got[6]
      <3>1. n + 5 = 9 /\ n + 6 = 10 /\ 5 \in 1..need /\ 6 \in 1..need
        BY <1>1, <2>2
      <3> QED
        BY <2>1, <3>1
    <2> QED
      BY <2>1, <2>2, <2>3 DEF n
  <1>5. a \in Seq(Byte) /\ a = SubSeq(r, 5, 8)
    <2>1. 4 \in Nat /\ 4 <= need
      BY <1>1
    <2>2. a \in Seq(Byte) /\ a = SubSeq(r, Len(RequestTaken) + 1, Len(RequestTaken) + 4)
      BY <1>1, <2>1, AddressInPlace
    <2> QED
      BY <1>4, <2>2
  <1>6. p \in Port
    BY <1>2, PortMade
  <1> HIDE DEF r, a
  <1>7. WholeMessage(r)
    <2>1. /\ Len(r) >= 5 /\ r[1] = 5 /\ r \in Seq(Byte)
          /\ \/ r[4] = 1 /\ Len(r) = 10
             \/ r[4] = 4 /\ Len(r) = 22
      BY <1>4, AddressTypes
    <2> QED
      BY <2>1, WholeByLength
  <1>8. Named(r) = d
    <2>1. PortOf(r[Len(r) - 1], r[Len(r)]) = p
      BY <1>4
    <2>2. /\ r[4] = ATYP.v4 /\ r[4] # ATYP.v6 /\ r[4] # ATYP.name
          /\ SubSeq(r, 5, 8) = a
      BY <1>4, <1>5, AddressTypes
    <2> HIDE DEF p
    <2> QED
      BY <2>1, <2>2 DEF Named, Destination
  <1> HIDE DEF p
  <1>9. d \in RequestedSet
    BY <1>5, <1>6 DEF RequestedSet, Destination
  <1> HIDE DEF d
  <1> QED
    BY <1>1, <1>2, <1>4, <1>7, <1>8, <1>9, AddressTypes, RequestAccepted DEF Reads, r

\* conn_read_req_addr_ipv6_handler: the address is the one in the request; of
\* the port nothing is claimed.
LEMMA AddrV6ReadStep == ServerInv /\ AddrV6Read => ServerInv'
  <1> SUFFICES ASSUME ServerInv, AddrV6Read PROVE ServerInv'
    OBVIOUS
  <1> DEFINE r == RequestTaken'
             a == SubSeq(Got, 1, 16)
             p == PortOf(Got[18], Got[17])
             d == Destination("v6", a, p)
  <1>1. /\ TypeOK /\ Take("conn_read_req_addr_ipv6") /\ op = "conn_read_req_addr_ipv6"
        /\ HeadTaken(ATYP.v6) /\ Len(taken) = GreetingLength + 4 /\ need = 18
        /\ Request(d) /\ UNCHANGED <<told, answered, outp, eof>>
    BY DEF ServerInv, Stage, AddrV6Read, Take
  <1>2. inp' \in Seq(Byte) /\ taken' \in Seq(Byte) /\ \A i \in 1..18 : Got[i] \in Byte
    BY <1>1, TakeStep
  <1>3. GreetingLength \in Nat
    BY <1>1, GreetingFacts DEF HeadTaken
  <1>4. /\ Greeted' /\ r \in Seq(Byte) /\ Len(RequestTaken) = 4 /\ Len(r) = 22
        /\ r[1] = 5 /\ r[2] = 1 /\ r[4] = ATYP.v6
    <2> DEFINE n == Len(RequestTaken)
    <2>1. /\ Greeted' /\ r \in Seq(Byte) /\ n = Len(taken) - GreetingLength
          /\ Len(r) = n + need /\ r[1] = 5 /\ r[2] = 1 /\ r[4] = ATYP.v6
      BY <1>1, AddressTaken
    <2> HIDE DEF n, r, a, p, d
    <2>2. n = 4 /\ Len(r) = 22
      BY <1>1, <1>3, <2>1
    <2> QED
      BY <2>1, <2>2 DEF n
  <1>5. a \in Seq(Byte) /\ a = SubSeq(r, 5, 20)
    <2>1. 16 \in Nat /\ 16 <= need
      BY <1>1
    <2>2. a \in Seq(Byte) /\ a = SubSeq(r, Len(RequestTaken) + 1, Len(RequestTaken) + 16)
      BY <1>1, <2>1, AddressInPlace
    <2> QED
      BY <1>4, <2>2
  <1>6. p \in Port
    BY <1>2, PortMade
  <1> HIDE DEF r, a
  <1>7. WholeMessage(r)
    <2>1. /\ Len(r) >= 5 /\ r[1] = 5 /\ r \in Seq(Byte)
          /\ \/ r[4] = 1 /\ Len(r) = 10
             \/ r[4] = 4 /\ Len(r) = 22
      BY <1>4, AddressTypes
    <2> QED
      BY <2>1, WholeByLength
  <1> HIDE DEF p
  <1>8. d.kind = "v6" /\ d.addr = Named(r).addr
    <2>1. r[4] # ATYP.v4 /\ r[4] = ATYP.v6 /\ r[4] # ATYP.name
      BY <1>4, AddressTypes
    <2>2. Named(r).addr = a
      BY <1>5, <2>1 DEF Named, Destination
    <2> QED
      BY <2>2 DEF Destination
  <1>9. d \in RequestedSet
    BY <1>5, <1>6 DEF RequestedSet, Destination
  <1> HIDE DEF d
  <1> QED
    BY <1>1, <1>2, <1>4, <1>7, <1>8, <1>9, RequestAccepted DEF Reads, r

\* conn_read_req_addr_domainname_handler
LEMMA NameLengthReadStep == ServerInv /\ NameLengthRead => ServerInv'
  <1> SUFFICES ASSUME ServerInv, NameLengthRead PROVE ServerInv'
    OBVIOUS
  <1>1. /\ TypeOK /\ Take("conn_read_req_addr_domainname")
        /\ op = "conn_read_req_addr_domainname"
        /\ HeadTaken(ATYP.name) /\ Len(taken) = GreetingLength + 4 /\ need = 1
        /\ Continue("conn_read_req_addr_domainname_str", Got[1] + 2)
        /\ UNCHANGED <<told, answered, outp, eof>>
    BY DEF ServerInv, Stage, NameLengthRead, Take
  <1>2. /\ inp' \in Seq(Byte) /\ taken' \in Seq(Byte) /\ Got[1] \in Byte
        /\ Len(taken') = Len(taken) + 1 /\ taken'[Len(taken) + 1] = Got[1]
    BY <1>1, TakeStep
  <1>3. /\ Greeted /\ GreetingLength \in Nat /\ GreetingLength' = GreetingLength
        /\ HeadTaken(ATYP.name)'
    <2>1. Greeted
      BY <1>1 DEF HeadTaken
    <2> QED
      BY <1>1, <2>1, GreetingFacts, GreetingKept
  <1>4. /\ op' = "conn_read_req_addr_domainname_str" /\ need' = Got[1] + 2
        /\ Len(taken') = GreetingLength' + 5
        /\ taken'[GreetingLength' + 5] = Got[1]
    BY <1>1, <1>2, <1>3 DEF Continue, Begin
  <1>5. Stage'
    BY <1>3, <1>4 DEF Stage
  <1>6. Got[1] + 2 \in Nat /\ Got[1] + 2 <= 257
    BY <1>2, ByteFacts
  <1> QED
    BY <1>1, <1>2, <1>5, <1>6, RequestContinued DEF Reads

\* conn_read_req_addr_domainname_str_handler
LEMMA AddrNameReadStep == ServerInv /\ AddrNameRead => ServerInv'
  <1> SUFFICES ASSUME ServerInv, AddrNameRead PROVE ServerInv'
    OBVIOUS
  <1> DEFINE r == RequestTaken'
             a == SubSeq(Got, 1, need - 2)
             p == PortOf(Got[need - 1], Got[need])
             d == ByName(a, p)
  <1>1. /\ TypeOK /\ Take("conn_read_req_addr_domainname_str")
        /\ op = "conn_read_req_addr_domainname_str"
        /\ HeadTaken(ATYP.name) /\ Len(taken) = GreetingLength + 5
        /\ need = taken[GreetingLength + 5] + 2
        /\ Request(d) /\ UNCHANGED <<told, answered, outp, eof>>
    BY DEF ServerInv, Stage, AddrNameRead, Take
  <1>2. /\ inp' \in Seq(Byte) /\ taken' \in Seq(Byte) /\ need \in Nat
        /\ \A i \in 1..need : Got[i] \in Byte
    BY <1>1, TakeStep
  <1>3. /\ GreetingLength \in Nat /\ Len(RequestTaken) = 5
        /\ Len(taken) \in Nat /\ taken \in Seq(Byte)
    <2>1. Len(RequestTaken) = Len(taken) - GreetingLength
      BY <1>1, AddressTaken
    <2>2. /\ GreetingLength \in Nat /\ Len(taken) \in Nat /\ taken \in Seq(Byte)
          /\ Len(taken) = GreetingLength + 5
      BY <1>1, GreetingFacts DEF HeadTaken
    <2> HIDE DEF r, a, p, d
    <2> QED
      BY <2>1, <2>2
  <1>10. taken[GreetingLength + 5] \in Nat
    <2>1. taken[GreetingLength + 5] \in Byte
      BY <1>1, <1>3, ElementOfSeq
    <2> QED
      BY <2>1, ByteFacts
  <1>11. need - 2 \in Nat /\ need >= 2 /\ need \in Nat
    BY <1>1, <1>2, <1>10
  <1>4. /\ Greeted' /\ r \in Seq(Byte) /\ Len(r) = 5 + need
        /\ r[1] = 5 /\ r[2] = 1 /\ r[4] = ATYP.name
        /\ \A i \in 1..5 : r[i] = RequestTaken[i]
        /\ RequestTaken[5] = taken[GreetingLength + 5]
        /\ \A i \in 1..need : r[5 + i] = Got[i]
    BY <1>1, <1>3, AddressTaken
  <1>5. a \in Seq(Byte) /\ a = SubSeq(r, 6, 5 + (need - 2)) /\ Len(a) = need - 2
    <2>1. need - 2 \in Nat /\ need - 2 <= need
      BY <1>11
    <2>2. a \in Seq(Byte) /\ a = SubSeq(r, Len(RequestTaken) + 1, Len(RequestTaken) + (need - 2))
      BY <1>1, <2>1, AddressInPlace
    <2>3. a = SubSeq(r, 5 + 1, 5 + (need - 2))
      BY <1>3, <2>2
    <2> HIDE DEF r, a
    <2>4. Len(SubSeq(r, 5 + 1, 5 + (need - 2))) = need - 2
      <3>1. 5 \in Nat /\ 5 + (need - 2) <= Len(r)
        BY <1>4, <1>11
      <3> QED
        BY <1>4, <2>1, <3>1, PartOf
    <2>5. Len(a) = need - 2
      BY <2>3, <2>4
    <2>6. 5 + 1 = 6
      OBVIOUS
    <2> QED
      BY <2>2, <2>3, <2>5, <2>6
  <1>6. p \in Port
    <2>1. Got[need - 1] \in Byte /\ Got[need] \in Byte
      BY <1>2, <1>11
    <2> QED
      BY <2>1, PortMade
  <1> HIDE DEF r, a
  <1>12. r[5] = need - 2 /\ Len(r) = 7 + r[5]
    BY <1>1, <1>4, <1>10
  <1>7. WholeMessage(r)
    BY <1>4, <1>11, <1>12, AddressTypes, WholeByLength
  <1>8. Nameable(r) => Named(r) = d
    <2>1. PortOf(r[Len(r) - 1], r[Len(r)]) = p
      <3>1. /\ Len(r) - 1 = 5 + (need - 1) /\ Len(r) = 5 + need
            /\ need - 1 \in 1..need /\ need \in 1..need
        BY <1>4, <1>11
      <3> QED
        BY <1>4, <3>1
    <2>2. r[4] # ATYP.v4 /\ r[4] # ATYP.v6 /\ r[4] = ATYP.name
      BY <1>4, AddressTypes
    <2>3. SubSeq(r, 6, Len(r) - 2) = a
      <3>1. Len(r) - 2 = 5 + (need - 2)
        BY <1>4, <1>11
      <3> QED
        BY <1>5, <3>1
    <2> HIDE DEF p
    <2>4. Named(r) = Destination("name", a, p)
      BY <2>1, <2>2, <2>3 DEF Named
    <2>5. Nameable(r) => a # <<>>
      BY <1>5, <1>12, <2>2, EmptySeq DEF Nameable
    <2> QED
      BY <2>4, <2>5 DEF ByName
  <1> HIDE DEF p
  <1>9. d \in RequestedSet
    <2>1. DefaultAddress \in Seq(Byte)
      <3>1. DefaultAddress = [i \in 1..4 |-> 0]
        BY DEF DefaultAddress, Zeros
      <3> QED
        BY <3>1, ByteFacts
    <2>2. CASE a = <<>>
      BY <1>6, <2>1, <2>2 DEF RequestedSet, ByName, Destination
    <2>3. CASE a # <<>>
      BY <1>5, <1>6, <2>3 DEF RequestedSet, ByName, Destination
    <2> QED
      BY <2>2, <2>3
  <1> HIDE DEF d
  <1> QED
    BY <1>1, <1>2, <1>4, <1>7, <1>8, <1>9, AddressTypes, RequestAccepted DEF Reads, r

\* What the answer is made of.
LEMMA ReplyFacts ==
  ASSUME NEW mc \in Major
  PROVE  /\ ReplyTo(mc) \in Seq(Byte) /\ Len(ReplyTo(mc)) = 10
         /\ ReplyTo(mc)[1] = 5 /\ ReplyTo(mc)[4] = ATYP.v4
         /\ ReplyTo(mc)[2] = MajorToRep(mc)
         /\ MajorToRep(mc) = 0 <=> mc = "Succeeded"
  <1>1. /\ MajorToRep(mc) \in {0, 1, 5, 7}
        /\ MajorToRep(mc) = 0 <=> mc = "Succeeded"
    BY DEF MajorToRep, Major
  <1> DEFINE k == MajorToRep(mc)
             head == <<5, k, 0, 1>>
             tail == Zeros(6)
  <1>2. k \in Byte /\ 5 \in Byte /\ 0 \in Byte /\ 1 \in Byte
    BY <1>1, ByteFacts
  <1> HIDE DEF k
  <1>3. /\ head \in Seq(Byte) /\ Len(head) = 4
        /\ head[1] = 5 /\ head[2] = k /\ head[4] = 1
    BY <1>2
  <1>4. tail \in Seq(Byte) /\ Len(tail) = 6
    <2>1. tail = [i \in 1..6 |-> 0]
      BY DEF Zeros
    <2> HIDE DEF tail
    <2>2. tail \in Seq(Byte)
      BY <1>2, <2>1
    <2>3. DOMAIN tail = 1..6
      BY <2>1
    <2>4. Len(tail) = 6
      BY <2>2, <2>3, LenProperties
    <2> QED
      BY <2>2, <2>4
  <1> HIDE DEF head, tail
  <1>5. /\ head \o tail \in Seq(Byte) /\ Len(head \o tail) = 10
        /\ \A i \in 1..4 : (head \o tail)[i] = head[i]
    <2>1. /\ head \o tail \in Seq(Byte) /\ Len(head \o tail) = Len(head) + Len(tail)
          /\ \A i \in 1..Len(head) : (head \o tail)[i] = head[i]
      <3>1. head \in Seq(Byte) /\ tail \in Seq(Byte)
        BY <1>3, <1>4
      <3> QED
        BY <3>1, Joined
    <2> QED
      BY <1>3, <1>4, <2>1
  <1>6. ReplyTo(mc) = head \o tail
    BY DEF ReplyTo, head, tail, k
  <1> QED
    BY <1>1, <1>3, <1>5, <1>6, AddressTypes DEF k

\* write_connect_response is called
LEMMA AnswerStep == ASSUME ServerInv, NEW mc \in Major, Answer(mc) PROVE ServerInv'
  <1>1. /\ asked = "ok" /\ told = "none" /\ answered = "pending" /\ outp = <<5, 0>>
        /\ dst \in RequestedSet
        /\ told' = mc /\ op' = "write_connect_response" /\ need' = 0
        /\ UNCHANGED <<dst, asked, answered, inp, outp, taken, eof>>
    BY DEF ServerInv, Outcome, Answer, Begin
  <1>2. mc # "none"
    BY DEF Major
  <1>3. TypeOK'
    BY <1>1 DEF ServerInv, TypeOK, Op
  <1>4. Stage'
    BY <1>1 DEF Stage
  <1>5. Outcome'
    BY <1>1, <1>2 DEF Outcome, Reads
  <1>6. RequestExactlyTaken' /\ RequestUnderstood'
    BY <1>1 DEF ServerInv, RequestExactlyTaken, RequestUnderstood, RequestTaken, GreetingLength
  <1> QED
    BY <1>3, <1>4, <1>5, <1>6 DEF ServerInv

\* and completes, or does not.
LEMMA AnswerWrittenStep == ServerInv /\ AnswerWritten => ServerInv'
  <1> SUFFICES ASSUME ServerInv, AnswerWritten PROVE ServerInv'
    OBVIOUS
  <1>1. /\ asked = "ok" /\ told # "none" /\ answered = "pending" /\ outp = <<5, 0>>
        /\ told \in Major /\ outp' = outp \o ReplyTo(told) /\ dst \in RequestedSet
        /\ answered' = "ok" /\ op' = "none" /\ need' = 0
        /\ UNCHANGED <<dst, asked, told, inp, taken, eof>>
    <2>1. asked = "ok"
      <3>1. op = "write_connect_response"
        BY DEF AnswerWritten
      <3>2. told # "none"
        BY <3>1 DEF ServerInv, Outcome
      <3> QED
        BY <3>2 DEF ServerInv, Outcome
    <2> QED
      BY <2>1 DEF ServerInv, Outcome, AnswerWritten, Begin, TypeOK
  <1>2. outp' \in Seq(Byte)
    <2>1. <<5, 0>> \in Seq(Byte) /\ ReplyTo(told) \in Seq(Byte)
      BY <1>1, ByteFacts, ReplyFacts
    <2> QED
      BY <1>1, <2>1, Joined
  <1>3. TypeOK'
    BY <1>1, <1>2 DEF ServerInv, TypeOK, Op
  <1>4. Stage'
    BY <1>1 DEF Stage
  <1>5. Outcome'
    <2>1. ReplyTo(told') = ReplyTo(told)
      BY <1>1
    <2> QED
      BY <1>1, <2>1 DEF Outcome, Reads
  <1>6. RequestExactlyTaken' /\ RequestUnderstood'
    BY <1>1 DEF ServerInv, RequestExactlyTaken, RequestUnderstood, RequestTaken, GreetingLength
  <1> QED
    BY <1>3, <1>4, <1>5, <1>6 DEF ServerInv

LEMMA BreaksStep == ServerInv /\ Breaks => ServerInv'
  <1> SUFFICES ASSUME ServerInv, Breaks PROVE ServerInv'
    OBVIOUS
  <1>1. CASE op = "write_connect_response"
    <2>1. /\ told # "none" /\ answered = "pending"
          /\ answered' = "broken" /\ op' = "none" /\ need' = 0
          /\ UNCHANGED <<dst, asked, told, inp, outp, taken, eof>>
      BY <1>1 DEF ServerInv, Outcome, Breaks, Begin
    <2>2. asked = "ok" /\ outp = <<5, 0>> /\ dst \in RequestedSet
      BY <2>1 DEF ServerInv, Outcome
    <2>3. TypeOK'
      BY <2>1 DEF ServerInv, TypeOK, Op
    <2>4. Stage'
      BY <2>1 DEF Stage
    <2>5. Outcome'
      BY <2>1, <2>2 DEF Outcome, Reads
    <2>6. RequestExactlyTaken' /\ RequestUnderstood'
      BY <2>1 DEF ServerInv, RequestExactlyTaken, RequestUnderstood, RequestTaken, GreetingLength
    <2> QED
      BY <2>3, <2>4, <2>5, <2>6 DEF ServerInv
  <1>2. CASE op # "write_connect_response"
    <2>1. /\ op \in Reads \union {"auth_write_resp"} /\ RequestFails("broken")
          /\ UNCHANGED <<answered, told, inp, outp, taken, eof>>
      BY <1>2 DEF ServerInv, TypeOK, Op, Breaks
    <2>2. inp' \in Seq(Byte) /\ taken' \in Seq(Byte) /\ "broken" \in Error
      BY <2>1 DEF ServerInv, TypeOK, Error
    <2> QED
      BY <2>1, <2>2, RequestRefused
  <1> QED
    BY <1>1, <1>2

-----------------------------------------------------------------------------
(* The theorems.                                                            *)

\* What arrives from the client while the session waits, or the end of it,
\* changes nothing that the invariant speaks of.
LEMMA ServerInvKept ==
  ASSUME ServerInv, UNCHANGED <<serverVars, outp>>, inp' \in Seq(Byte), eof' \in BOOLEAN
  PROVE  ServerInv'
  <1>1. TypeOK'
    BY DEF ServerInv, TypeOK, serverVars
  <1>2. Stage'
    BY DEF ServerInv, Stage, HeadTaken, Greeted, GreetingLength, serverVars
  <1>3. Outcome'
    <2>1. ReplyTo(told') = ReplyTo(told)
      BY DEF serverVars
    <2> QED
      BY <2>1 DEF ServerInv, Outcome, serverVars
  <1>4. RequestExactlyTaken' /\ RequestUnderstood'
    BY DEF ServerInv, RequestExactlyTaken, RequestUnderstood, RequestTaken, GreetingLength,
           serverVars
  <1> QED
    BY <1>1, <1>2, <1>3, <1>4 DEF ServerInv

LEMMA ServerInvNext == ServerInv /\ [Next]_vars => ServerInv'
  <1> SUFFICES ASSUME ServerInv, [Next]_vars PROVE ServerInv'
    OBVIOUS
  <1>1. CASE UNCHANGED vars
    BY <1>1, ServerInvKept DEF ServerInv, TypeOK, vars
  <1>2. CASE AuthReqRead \/ MethodsRead \/ MethodWritten \/ HeaderRead
    BY <1>2, AuthReqReadStep, MethodsReadStep, MethodWrittenStep, HeaderReadStep
  <1>3. CASE AddrV4Read \/ NameLengthRead \/ AddrNameRead \/ AddrV6Read
    BY <1>3, AddrV4ReadStep, NameLengthReadStep, AddrNameReadStep, AddrV6ReadStep
  <1>4. CASE AnswerWritten \/ EndOfStream \/ Breaks
    BY <1>4, AnswerWrittenStep, BreaksStep DEF EndOfStream
  <1>5. CASE \E mc \in Major : Answer(mc)
    BY <1>5, AnswerStep
  <1> QED
    BY <1>1, <1>2, <1>3, <1>4, <1>5 DEF Next, Progress

\* Nothing that a client sends, in whatever pieces and however cut short,
\* leads out of the invariant.
THEOREM ServerInvariant == Spec => []ServerInv
  BY InvInit, ServerInvNext, PTL DEF Spec

\* No read is larger than the name and port it is meant for, and what the
\* handlers are called with is what the code can report.
THEOREM ServerTypeCorrect == Spec => []TypeOK
  <1>1. ServerInv => TypeOK
    BY DEF ServerInv
  <1> QED
    BY <1>1, ServerInvariant, PTL

\* A request that is accepted has been read to its last byte and no further,
\* behind a whole greeting that offers to go without authentication
\* (auth_read_req to conn_read_req_addr_ipv6_handler).
THEOREM RequestTakenExactly == Spec => []RequestExactlyTaken
  <1>1. ServerInv => RequestExactlyTaken
    BY DEF ServerInv
  <1> QED
    BY <1>1, ServerInvariant, PTL

\* The user's destination is the one that the request names, for every
\* address and every name that is not empty (conn_read_req_addr_ipv4_handler,
\* conn_read_req_addr_domainname_str_handler); of an IPv6 destination it is the
\* address (conn_read_req_addr_ipv6_handler).
THEOREM DestinationUnderstood == Spec => []RequestUnderstood
  <1>1. ServerInv => RequestUnderstood
    BY DEF ServerInv
  <1> QED
    BY <1>1, ServerInvariant, PTL

\* What the client reads after the method is one whole reply, and it grants
\* the request exactly if the session has connected
\* (write_connect_response, major_code_to_rep).
THEOREM ReplyTells == Spec => []ReplyIsTrue
  <1>1. ServerInv => ReplyIsTrue
    <2> SUFFICES ASSUME ServerInv, answered = "ok" PROVE ReplyIsTrue
      BY DEF ReplyIsTrue
    <2> DEFINE r == ReplyTo(told)
               head == <<5, 0>>
    <2>1. told # "none" /\ told \in Major
      BY DEF ServerInv, Outcome, TypeOK
    <2>2. outp = head \o r
      BY <2>1 DEF ServerInv, Outcome
    <2>3. /\ r \in Seq(Byte) /\ Len(r) = 10 /\ r[1] = 5 /\ r[4] = ATYP.v4
          /\ r[2] = 0 <=> told = "Succeeded"
      BY <2>1, ReplyFacts
    <2>4. head \in Seq(Byte) /\ Len(head) = 2
      BY ByteFacts
    <2> HIDE DEF r, head
    <2>5. /\ outp \in Seq(Byte) /\ Len(outp) = 12
          /\ \A i \in 1..10 : outp[2 + i] = r[i]
      <3>1. /\ head \o r \in Seq(Byte) /\ Len(head \o r) = Len(head) + Len(r)
            /\ \A i \in 1..Len(r) : (head \o r)[Len(head) + i] = r[i]
        <4>1. head \in Seq(Byte) /\ r \in Seq(Byte)
          BY <2>3, <2>4
        <4> QED
          BY <4>1, Joined
      <3>2. Len(head) = 2 /\ Len(r) = 10 /\ Len(head) + Len(r) = 12
        BY <2>3, <2>4
      <3> QED
        BY <2>2, <3>1, <3>2
    <2>6. SubSeq(outp, 2 + 1, 2 + 10) = SubSeq(r, 0 + 1, 0 + 10)
      BY <2>3, <2>5, SamePart
    <2>7. SubSeq(r, 0 + 1, 0 + 10) = r
      <3>1. /\ SubSeq(r, 0 + 1, 0 + 10) \in Seq(Byte)
            /\ Len(SubSeq(r, 0 + 1, 0 + 10)) = 10
            /\ \A i \in 1..10 : SubSeq(r, 0 + 1, 0 + 10)[i] = r[0 + i]
        <4>1. r \in Seq(Byte) /\ 0 \in Nat /\ 10 \in Nat /\ 0 + 10 <= Len(r)
          BY <2>3
        <4> QED
          BY <4>1, PartOf
      <3>2. /\ r \in Seq(Byte) /\ Len(SubSeq(r, 0 + 1, 0 + 10)) = Len(r)
            /\ \A i \in 1..Len(r) : SubSeq(r, 0 + 1, 0 + 10)[i] = r[i]
        BY <2>3, <3>1
      <3> QED
        BY <3>1, <3>2, SeqEqual
    <2>8. SubSeq(outp, 3, Len(outp)) = r
      <3>1. 2 + 1 = 3 /\ 2 + 10 = Len(outp)
        BY <2>5
      <3> QED
        BY <2>6, <2>7, <3>1
    <2>9. WholeMessage(r)
      <3>1. r \in Seq(Byte) /\ r[1] = 5 /\ Len(r) >= 5 /\ r[4] = 1 /\ Len(r) = 10
        BY <2>3, AddressTypes
      <3> QED
        BY <3>1, WholeByLength
    <2> QED
      BY <2>3, <2>8, <2>9 DEF ReplyIsTrue
  <1> QED
    BY <1>1, ServerInvariant, PTL

-----------------------------------------------------------------------------
(* The interface that input uses.                                           *)

LEMMA ErrorsApart ==
  "ok" \notin Error /\ "pending" \notin Error /\ "none" \notin Major
  BY DEF Error, Major

\* A step calls no handler and takes no answer, or the one that is due.
LEMMA HandlersCalled ==
  ASSUME ServerInv, [Next]_vars
  PROVE  \/ UNCHANGED <<asked, told, answered, dst>>
         \/ /\ asked = "pending" /\ told = "none" /\ answered = "pending"
            /\ UNCHANGED <<told, answered>>
            /\ \/ asked' \in Error /\ UNCHANGED dst
               \/ asked' = "ok" /\ dst' \in RequestedSet
         \/ /\ asked = "ok" /\ told = "none" /\ answered = "pending"
            /\ told' \in Major /\ UNCHANGED <<asked, answered, dst>>
         \/ /\ asked = "ok" /\ told # "none" /\ answered = "pending"
            /\ answered' \in {"ok", "broken"} /\ UNCHANGED <<asked, told, dst>>
  <1> DEFINE Told ==
        \/ UNCHANGED <<asked, told, answered, dst>>
        \/ /\ asked = "pending" /\ told = "none" /\ answered = "pending"
           /\ UNCHANGED <<told, answered>>
           /\ \/ asked' \in Error /\ UNCHANGED dst
              \/ asked' = "ok" /\ dst' \in RequestedSet
        \/ /\ asked = "ok" /\ told = "none" /\ answered = "pending"
           /\ told' \in Major /\ UNCHANGED <<asked, answered, dst>>
        \/ /\ asked = "ok" /\ told # "none" /\ answered = "pending"
           /\ answered' \in {"ok", "broken"} /\ UNCHANGED <<asked, told, dst>>
  <1>1. /\ op \in Reads \union {"auth_write_resp"} =>
             asked = "pending" /\ told = "none" /\ answered = "pending"
        /\ op = "write_connect_response" =>
             asked = "ok" /\ told # "none" /\ answered = "pending"
        /\ told = "none" => answered = "pending"
    BY DEF ServerInv, Outcome
  <1>2. ASSUME op \in Reads \union {"auth_write_resp"}, UNCHANGED <<told, answered>>,
               NEW err \in Error, RequestFails(err)
        PROVE  Told
    BY <1>1, <1>2 DEF RequestFails
  <1>3. ASSUME UNCHANGED <<told, answered>>, NEW o, NEW n, Continue(o, n)
        PROVE  Told
    BY <1>3 DEF Continue
  <1>4. ASSUME op \in Reads, UNCHANGED <<told, answered>>, asked' = "ok", dst' \in RequestedSet
        PROVE  Told
    BY <1>1, <1>4
  <1>5. Error = {"protocol_violation", "unsupported_command", "broken"}
    BY DEF Error
  <1> HIDE DEF Told
  <1>6. AuthReqRead \/ MethodsRead \/ MethodWritten \/ HeaderRead \/ NameLengthRead => Told
    BY <1>2, <1>3, <1>5 DEF AuthReqRead, MethodsRead, MethodWritten, HeaderRead,
                            NameLengthRead, Take, Reads
  <1>7. AddrV4Read \/ AddrNameRead \/ AddrV6Read => Told
    <2> SUFFICES ASSUME AddrV4Read \/ AddrNameRead \/ AddrV6Read PROVE Told
      OBVIOUS
    <2>1. op \in Reads /\ UNCHANGED <<told, answered>> /\ asked' = "ok"
      BY DEF AddrV4Read, AddrNameRead, AddrV6Read, Take, Reads, Request
    <2>2. ServerInv'
      BY AddrV4ReadStep, AddrNameReadStep, AddrV6ReadStep
    <2>3. dst' \in RequestedSet
      BY <2>1, <2>2 DEF ServerInv, Outcome
    <2> QED
      BY <1>4, <2>1, <2>3
  <1>8. AnswerWritten => Told
    BY <1>1 DEF AnswerWritten, Told
  <1>9. ASSUME NEW mc \in Major, Answer(mc) PROVE Told
    BY <1>1, <1>9 DEF Answer, Told
  <1>10. Breaks => Told
    BY <1>1, <1>2, <1>5 DEF Breaks, ServerInv, TypeOK, Op, Told
  <1>11. UNCHANGED vars => Told
    BY DEF vars, serverVars, Told
  <1>12. Told
    BY <1>6, <1>7, <1>8, <1>9, <1>10, <1>11 DEF Next, Progress, EndOfStream
  <1> QED
    BY <1>12 DEF Told

\* Each handler is called at most once and in order, and *puser_dst_ is
\* assigned exactly when the first one reports no error: the session
\* implements the interface of proxy/server_session.h, step for step.
THEOREM ServerContractKept == Spec => KeepsContract
  <1>1. Init => Contract!Init
    BY DEF Init, ServerInit, Contract!Init, Phase
  <1>2. ASSUME ServerInv, [Next]_vars PROVE [Contract!Next]_(Contract!vars)
    <2>1. CASE UNCHANGED <<asked, told, answered, dst>>
      BY <2>1 DEF Contract!vars, Phase
    <2>2. CASE /\ asked = "pending" /\ told = "none" /\ answered = "pending"
               /\ UNCHANGED <<told, answered>>
               /\ asked' \in Error /\ UNCHANGED dst
      <3>1. Phase = "reading"
        BY <2>2 DEF Phase
      <3>3. Phase' = "failed"
        BY <2>2, ErrorsApart DEF Phase
      <3> QED
        BY <2>2, <3>1, <3>3 DEF Contract!Next, Contract!Fails
    <2>3. CASE /\ asked = "pending" /\ told = "none" /\ answered = "pending"
               /\ UNCHANGED <<told, answered>>
               /\ asked' = "ok" /\ dst' \in RequestedSet
      <3>1. Phase = "reading" /\ Phase' = "requested"
        BY <2>3 DEF Phase
      <3> QED
        BY <2>3, <3>1 DEF Contract!Next, Contract!RequestRead
    <2>4. CASE /\ asked = "ok" /\ told = "none" /\ answered = "pending"
               /\ told' \in Major /\ UNCHANGED <<asked, answered, dst>>
      <3>1. Phase = "requested" /\ Phase' = "answering"
        BY <2>4, ErrorsApart DEF Phase
      <3> QED
        BY <2>4, <3>1 DEF Contract!Next, Contract!StartAnswer
    <2>5. CASE /\ asked = "ok" /\ told # "none" /\ answered = "pending"
               /\ answered' \in {"ok", "broken"} /\ UNCHANGED <<asked, told, dst>>
      <3>1. Phase = "answering" /\ Phase' \in {"answered", "failed"}
        BY <2>5 DEF Phase
      <3> QED
        BY <2>5, <3>1 DEF Contract!Next, Contract!AnswerWritten, Contract!Fails
    <2> QED
      BY <1>2, <2>1, <2>2, <2>3, <2>4, <2>5, HandlersCalled
  <1> QED
    BY <1>1, <1>2, ServerInvariant, PTL DEF Spec, KeepsContract, Contract!Spec

=============================================================================
