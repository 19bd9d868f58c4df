------------------------- MODULE Socks5ClientProofs -------------------------
(***************************************************************************)
(* Proofs about Socks5Client for every stream of bytes that a proxy may    *)
(* send, all credentials and all destinations: the inductive invariant     *)
(* ClientInv, and what the user of a client session relies on.             *)
(***************************************************************************)
EXTENDS Socks5Client, SequenceTheorems, TLAPS

-----------------------------------------------------------------------------
(* Sequences.                                                               *)

\* What follows the first a elements of t, element by element.
LEMMA Behind ==
  ASSUME NEW t \in Seq(Byte), NEW a \in Nat, a <= Len(t)
  PROVE  LET r == SubSeq(t, a + 1, Len(t)) IN
         /\ r \in Seq(Byte) /\ Len(r) = Len(t) - a
         /\ \A i \in 1..Len(r) : r[i] = t[a + i]
  <1> DEFINE r == SubSeq(t, a + 1, Len(t))
  <1>0. Len(t) \in Nat /\ \A i \in 1..Len(t) : t[i] \in Byte
    BY LenProperties, ElementOfSeq
  <1>1. \A i \in (a + 1)..Len(t) : t[i] \in Byte
    BY <1>0
  <1>2. a + 1 \in Int /\ Len(t) \in Int
    BY <1>0
  <1>3. /\ r \in Seq(Byte)
        /\ Len(r) = IF a + 1 <= Len(t) THEN Len(t) - (a + 1) + 1 ELSE 0
        /\ \A i \in 1..(Len(t) - (a + 1) + 1) : r[i] = t[(a + 1) + i - 1]
    BY <1>1, <1>2, SubSeqProperties
  <1> QED
    BY <1>0, <1>3

\* A concatenation, element by element.
LEMMA Joined ==
  ASSUME NEW s \in Seq(Byte), NEW t \in Seq(Byte)
  PROVE  /\ s \o t \in Seq(Byte) /\ Len(s \o t) = Len(s) + Len(t)
         /\ \A i \in 1..Len(s) : (s \o t)[i] = s[i]
         /\ \A i \in 1..Len(t) : (s \o t)[Len(s) + i] = t[i]
  <1>1. Len(s) \in Nat /\ Len(t) \in Nat
    BY LenProperties
  <1>2. /\ s \o t \in Seq(Byte) /\ Len(s \o t) = Len(s) + Len(t)
        /\ \A i \in 1..(Len(s) + Len(t)) :
             (s \o t)[i] = IF i <= Len(s) THEN s[i] ELSE t[i - Len(s)]
    BY ConcatProperties
  <1> QED
    BY <1>1, <1>2

-----------------------------------------------------------------------------
(* The constants and the messages.                                          *)

\* Values that a byte holds.
LEMMA Bytes ==
  /\ \A n \in Nat : n <= 255 => n \in Byte
  /\ \A n \in Byte : n \in Nat /\ n <= 255
  /\ \A port \in Port : (port \div 256) % 256 \in Byte /\ port % 256 \in Byte
  <1>1. \A n \in Nat : n <= 255 => n \in Byte
    BY DEF Byte
  <1>5. \A n \in Byte : n \in Nat /\ n <= 255
    BY DEF Byte
  <1>2. \A n \in Nat : n % 256 \in Nat /\ n % 256 <= 255
    OBVIOUS
  <1>3. \A n \in Nat : n \div 256 \in Nat
    OBVIOUS
  <1>4. \A port \in Port : port \in Nat
    BY DEF Port, LastPort
  <1> QED
    BY <1>1, <1>2, <1>3, <1>4, <1>5

\* Names and passwords fit their length bytes; a destination can be encoded.
LEMMA InputFacts ==
  ASSUME TypeOK
  PROVE  /\ creds.user \in Seq(Byte) /\ Len(creds.user) \in Byte
         /\ creds.pass \in Seq(Byte) /\ Len(creds.pass) \in Byte
         /\ dst \in Encodable /\ dst.addr \in Seq(Byte) /\ Len(dst.addr) \in Byte
         /\ Admission \in {2, 4}
         /\ Len(taken) \in Nat /\ Len(inp) \in Nat /\ Len(outp) \in Nat
  <1>1. creds \in [user : Text, pass : Text] /\ dst \in Encodable
    BY Socks5ClientAssumption DEF TypeOK
  <1>2. creds.user \in Text /\ creds.pass \in Text /\ dst.addr \in Text
    <2>1. dst.addr \in Text
      BY <1>1 DEF Encodable
    <2> QED
      BY <1>1, <2>1
  <1>3. ASSUME NEW s \in Text PROVE s \in Seq(Byte) /\ Len(s) \in Byte
    <2>1. s \in Seq(Byte) /\ Len(s) <= 255
      BY DEF Text
    <2>2. Len(s) \in Nat
      BY <2>1, LenProperties
    <2>3. Len(s) \in Byte
      BY <2>1, <2>2, Bytes
    <2> QED
      BY <2>1, <2>3
  <1>4. Len(taken) \in Nat /\ Len(inp) \in Nat /\ Len(outp) \in Nat
    BY LenProperties DEF TypeOK
  <1> QED
    BY <1>1, <1>2, <1>3, <1>4 DEF Admission

\* What it writes are bytes.
LEMMA MessageFacts ==
  ASSUME TypeOK
  PROVE  /\ AuthRequest \in Seq(Byte) /\ Len(AuthRequest) = 3
         /\ CredsMessage \in Seq(Byte) /\ Secrets \in Seq(Byte)
         /\ ConnectRequest \in Seq(Byte)
  <1>1. AuthRequest \in Seq(Byte) /\ Len(AuthRequest) = 3
    BY DEF AuthRequest, Byte
  <1>2. CredsMessage \in Seq(Byte)
    <2>1. /\ <<5, Len(creds.user)>> \in Seq(Byte) /\ <<Len(creds.pass)>> \in Seq(Byte)
          /\ creds.user \in Seq(Byte) /\ creds.pass \in Seq(Byte)
      BY InputFacts DEF Byte
    <2> QED
      BY <2>1, Joined DEF CredsMessage
  <1>3. ConnectRequest \in Seq(Byte)
    <2> DEFINE head == <<5, 1, 0, ATYP[dst.kind]>>
               length == IF dst.kind = "name" THEN <<Len(dst.addr)>> ELSE <<>>
    <2>1. head \in Seq(Byte)
      <3>1. dst.kind \in {"v4", "v6", "name"}
        BY InputFacts DEF Encodable
      <3>2. ATYP[dst.kind] \in Byte
        BY <3>1 DEF ATYP, Byte
      <3> QED
        BY <3>2 DEF Byte
    <2>2. length \in Seq(Byte)
      BY InputFacts
    <2>3. PortBytes(dst.port) \in Seq(Byte)
      <3>1. dst.port \in Port
        BY InputFacts DEF Encodable
      <3>2. (dst.port \div 256) % 256 \in Byte /\ dst.port % 256 \in Byte
        BY <3>1, Bytes
      <3> QED
        BY <3>2 DEF PortBytes
    <2>4. dst.addr \in Seq(Byte)
      BY InputFacts
    <2> HIDE DEF head, length
    <2>5. (head \o length) \o dst.addr \in Seq(Byte)
      BY <2>1, <2>2, <2>4, Joined
    <2>6. ((head \o length) \o dst.addr) \o PortBytes(dst.port) \in Seq(Byte)
      BY <2>3, <2>5, Joined
    <2> QED
      BY <2>6 DEF ConnectRequest, head, length
  <1> QED
    BY <1>1, <1>2, <1>3 DEF Secrets

-----------------------------------------------------------------------------
(* What has been read.                                                      *)

\* A read moves need bytes from the connection to what has been taken.
LEMMA TakeStep ==
  ASSUME TypeOK, NEW o, Take(o)
  PROVE  /\ op = o /\ inp' \in Seq(Byte) /\ taken' \in Seq(Byte)
         /\ Len(taken') = Len(taken) + need
         /\ \A i \in 1..Len(taken) : taken'[i] = taken[i]
         /\ \A i \in 1..need : taken'[Len(taken) + i] = Got[i] /\ Got[i] \in Byte
  <1>1. need \in Nat /\ Len(inp) \in Nat /\ need <= Len(inp) /\ inp \in Seq(Byte)
        /\ taken \in Seq(Byte)
    BY InputFacts DEF Take, TypeOK
  <1>2. inp' \in Seq(Byte)
    BY <1>1, Behind DEF Take
  <1>3. \A i \in 1..need : inp[i] \in Byte
    BY <1>1, ElementOfSeq
  <1>4. Got \in Seq(Byte) /\ Len(Got) = need
    <2>1. /\ Got \in Seq(Byte)
          /\ Len(Got) = IF 1 <= need THEN need - 1 + 1 ELSE 0
      BY <1>1, <1>3, SubSeqProperties DEF Got
    <2> QED
      BY <1>1, <2>1
  <1>5. \A i \in 1..need : Got[i] \in Byte
    BY <1>4, ElementOfSeq
  <1>6. taken' = taken \o Got /\ op = o
    BY DEF Take
  <1>7. /\ taken' \in Seq(Byte) /\ Len(taken') = Len(taken) + Len(Got)
        /\ \A i \in 1..Len(taken) : taken'[i] = taken[i]
        /\ \A i \in 1..Len(Got) : taken'[Len(taken) + i] = Got[i]
    BY <1>1, <1>4, <1>6, Joined
  <1> QED
    BY <1>2, <1>4, <1>5, <1>6, <1>7

\* The reply, once the proxy has let the client in, is what follows.
LEMMA ReplyFacts ==
  ASSUME TypeOK, Len(taken) >= Admission
  PROVE  /\ Reply \in Seq(Byte) /\ Len(Reply) = Len(taken) - Admission
         /\ Len(Reply) \in Nat
         /\ \A i \in 1..Len(Reply) : Reply[i] = taken[Admission + i]
         /\ \A i \in 1..Len(Reply) : Reply[i] \in Byte
  <1>1. Admission \in Nat /\ taken \in Seq(Byte) /\ Len(taken) \in Nat
    BY InputFacts DEF TypeOK
  <1>2. /\ Reply \in Seq(Byte) /\ Len(Reply) = Len(taken) - Admission
        /\ \A i \in 1..Len(Reply) : Reply[i] = taken[Admission + i]
    BY <1>1, Behind DEF Reply
  <1>3. \A i \in 1..Len(Reply) : Reply[i] \in Byte
    BY <1>2, ElementOfSeq
  <1> QED
    BY <1>1, <1>2, <1>3

\* A read behind the admission extends the reply and nothing else.
LEMMA ReplyStep ==
  ASSUME TypeOK, NEW o, Take(o), UNCHANGED creds, Admitted
  PROVE  /\ Admitted' /\ Len(Reply') = Len(Reply) + need
         /\ Len(Reply) = Len(taken) - Admission
         /\ \A i \in 1..Len(Reply) : Reply'[i] = Reply[i] /\ Reply[i] \in Byte
         /\ \A i \in 1..need : Reply'[Len(Reply) + i] = Got[i] /\ Got[i] \in Byte
         /\ Len(Reply) \in Nat /\ need \in Nat
  <1>1. /\ Admission' = Admission /\ NoCreds' = NoCreds /\ Admission \in {2, 4}
        /\ Len(taken) >= Admission /\ Len(taken) \in Nat /\ need \in Nat
    BY InputFacts DEF Admission, NoCreds, Admitted, TypeOK
  <1>2. /\ Len(taken') = Len(taken) + need
        /\ \A i \in 1..Len(taken) : taken'[i] = taken[i]
        /\ \A i \in 1..need : taken'[Len(taken) + i] = Got[i] /\ Got[i] \in Byte
    BY TakeStep
  <1>3. Admitted'
    BY <1>1, <1>2 DEF Admitted, Admission
  <1>4. /\ Len(Reply) = Len(taken) - Admission
        /\ \A i \in 1..Len(Reply) : Reply[i] = taken[Admission + i] /\ Reply[i] \in Byte
    BY <1>1, ReplyFacts
  <1>5. taken' \in Seq(Byte) /\ Len(taken') \in Nat /\ Admission' <= Len(taken')
    BY <1>1, <1>2, TakeStep
  <1>6. /\ Len(Reply') = Len(taken') - Admission'
        /\ \A i \in 1..Len(Reply') : Reply'[i] = taken'[Admission' + i]
    BY <1>1, <1>5, Behind DEF Reply
  <1>7. Len(Reply') = Len(Reply) + need /\ Len(Reply) \in Nat
    BY <1>1, <1>2, <1>4, <1>6
  <1>8. ASSUME NEW i \in 1..Len(Reply) PROVE Reply'[i] = Reply[i] /\ Reply[i] \in Byte
    <2>1. Admission + i \in 1..Len(taken) /\ i \in 1..Len(Reply')
      BY <1>1, <1>4, <1>7
    <2> QED
      BY <1>1, <1>2, <1>4, <1>6, <2>1
  <1>9. ASSUME NEW i \in 1..need PROVE Reply'[Len(Reply) + i] = Got[i] /\ Got[i] \in Byte
    <2>1. Len(Reply) + i \in 1..Len(Reply') /\ Admission + (Len(Reply) + i) = Len(taken) + i
      BY <1>1, <1>4, <1>7
    <2>2. Reply'[Len(Reply) + i] = taken'[Admission' + (Len(Reply) + i)]
      BY <1>6, <2>1
    <2> QED
      BY <1>1, <1>2, <2>1, <2>2
  <1> QED
    BY <1>1, <1>3, <1>4, <1>7, <1>8, <1>9

-----------------------------------------------------------------------------
(* The invariant.                                                           *)

LEMMA ClientInvInit == Init => ClientInv
  <1> SUFFICES ASSUME Init PROVE ClientInv
    OBVIOUS
  <1>1. TypeOK
    <2>1. inp \in Seq(Byte)
      BY Socks5ClientAssumption DEF Init
    <2>2. rep \in Byte
      BY Bytes DEF Init, ClientInit
    <2> QED
      BY <2>1, <2>2 DEF Init, ClientInit, TypeOK, Op, Writes
  <1>2. Stage
    BY DEF Init, ClientInit, Stage
  <1>3. Outcome
    BY DEF Init, ClientInit, Outcome, Writes, ReadsOfRequest, ReadsOfResponse, Major
  <1> QED
    BY <1>1, <1>2, <1>3 DEF ClientInv

\* The messages depend on nothing that changes.
LEMMA Steady ==
  ASSUME UNCHANGED <<creds, dst>>
  PROVE  /\ NoCreds' = NoCreds /\ Admission' = Admission /\ AuthRequest' = AuthRequest
         /\ CredsMessage' = CredsMessage /\ Secrets' = Secrets
         /\ ConnectRequest' = ConnectRequest
  BY DEF NoCreds, Admission, AuthRequest, CredsMessage, Secrets, ConnectRequest

\* Nor does what was read, where nothing is read.
LEMMA SameTaken ==
  ASSUME UNCHANGED <<creds, dst, taken, rep>>
  PROVE  /\ Greeted' = Greeted /\ Admitted' = Admitted /\ Reply' = Reply
         /\ HeadAccepted' = HeadAccepted
  BY DEF Greeted, Admitted, Reply, HeadAccepted, Admission, NoCreds

\* Whoever was let in was greeted.
LEMMA AdmittedIsGreeted == ASSUME TypeOK, Admitted PROVE Greeted
  BY InputFacts DEF Admitted, Greeted

\* An operation of the request handler ends with an error.
LEMMA RequestFails ==
  ASSUME ClientInv, op \in Writes \union ReadsOfRequest,
         NEW err \in Error, RequestDone(err),
         UNCHANGED <<creds, dst, rep, outp, eof>>,
         taken' \in Seq(Byte), inp' \in Seq(Byte), Len(outp) > 3 => Greeted'
  PROVE  ClientInv'
  <1>1. written' = err /\ verdict' = "pending" /\ op' = "none" /\ need' = 0
    BY DEF ClientInv, Outcome, RequestDone, Begin, Writes, ReadsOfRequest, Error, ProxyError
  <1>2. TypeOK'
    BY <1>1 DEF ClientInv, TypeOK, Op
  <1>3. Stage'
    BY <1>1 DEF Stage
  <1>4. Outcome'
    BY <1>1 DEF Outcome, Writes, ReadsOfRequest, ReadsOfResponse, Major, Error, ProxyError
  <1> QED
    BY <1>2, <1>3, <1>4 DEF ClientInv

\* An operation of the response handler ends with an error.
LEMMA ResponseFails ==
  ASSUME ClientInv, op \in ReadsOfResponse,
         NEW err \in Error, ResponseDone(err),
         UNCHANGED <<creds, dst, outp, eof>>,
         rep' \in Byte, taken' \in Seq(Byte), inp' \in Seq(Byte), Admitted'
  PROVE  ClientInv'
  <1>1. /\ written' = "ok" /\ verdict' = err /\ op' = "none" /\ need' = 0
        /\ outp = (AuthRequest \o Secrets) \o ConnectRequest
    BY DEF ClientInv, Outcome, ResponseDone, Begin
  <1>2. TypeOK'
    BY <1>1 DEF ClientInv, TypeOK, Op, Error
  <1>3. Stage'
    BY <1>1 DEF Stage
  <1>4. Outcome'
    <2>1. outp' = (AuthRequest' \o Secrets') \o ConnectRequest'
      BY <1>1, Steady
    <2>2. Greeted'
      BY <1>2, AdmittedIsGreeted, PTL
    <2>3. err \notin Major /\ err # "pending"
      BY DEF Error, ProxyError, Major
    <2> QED
      BY <1>1, <2>1, <2>2, <2>3 DEF Outcome, Writes, ReadsOfRequest, ReadsOfResponse
  <1> QED
    BY <1>2, <1>3, <1>4 DEF ClientInv
\* The greeting, the credentials or the request is written.
LEMMA WrittenStep == ClientInv /\ Written => ClientInv'
  <1> SUFFICES ASSUME ClientInv, Written PROVE ClientInv'
    OBVIOUS
  <1>0. /\ TypeOK /\ op \in Writes /\ written = "pending" /\ verdict = "pending"
        /\ outp' = outp \o Message /\ outp \in Seq(Byte)
        /\ UNCHANGED <<creds, dst, rep, taken, inp, eof>>
    BY DEF ClientInv, Outcome, Written, TypeOK, Writes
  <1>1. CASE op = "auth_write_req"
    <2>1. /\ op' = "auth_read_resp" /\ need' = 2 /\ written' = "pending"
          /\ verdict' = "pending" /\ taken' = <<>> /\ outp' = AuthRequest
      <3>1. outp = <<>> /\ taken = <<>> /\ Message = AuthRequest
        BY <1>1 DEF ClientInv, Stage, Message
      <3> QED
        BY <1>0, <1>1, <3>1, MessageFacts, ConcatEmptySeq DEF Written, Continue, Begin
    <2>2. TypeOK'
      BY <1>0, <2>1, MessageFacts DEF TypeOK, Op, ReadsOfRequest
    <2>3. Stage'
      BY <1>0, <2>1, Steady DEF Stage
    <2>4. Outcome'
      <3>1. Len(outp') = 3
        BY <1>0, <2>1, MessageFacts
      <3> QED
        BY <2>1, <3>1 DEF Outcome, Writes, ReadsOfRequest, ReadsOfResponse, Major
    <2> QED
      BY <2>2, <2>3, <2>4 DEF ClientInv
  <1>2. CASE op = "auth_write_creds"
    <2>1. /\ op' = "auth_read_creds_reply" /\ need' = 2 /\ written' = "pending"
          /\ verdict' = "pending" /\ outp' = AuthRequest \o Secrets
          /\ Greeted /\ ~NoCreds /\ Len(taken) = 2
      <3>1. outp = AuthRequest /\ Greeted /\ ~NoCreds /\ Len(taken) = 2 /\ Message = CredsMessage
        BY <1>2 DEF ClientInv, Stage, Message
      <3> QED
        BY <1>0, <1>2, <3>1 DEF Written, Continue, Begin, Secrets
    <2>2. TypeOK'
      <3>1. outp' \in Seq(Byte)
        BY <1>0, <2>1, MessageFacts, Joined
      <3> QED
        BY <1>0, <2>1, <3>1 DEF TypeOK, Op, ReadsOfRequest
    <2>3. Greeted' /\ ~NoCreds' /\ Len(taken') = 2 /\ outp' = AuthRequest' \o Secrets'
      BY <1>0, <2>1, Steady, SameTaken
    <2>4. Stage'
      BY <2>1, <2>3 DEF Stage
    <2>5. Outcome'
      BY <2>1, <2>3 DEF Outcome, Writes, ReadsOfRequest, ReadsOfResponse, Major
    <2> QED
      BY <2>2, <2>4, <2>5 DEF ClientInv
  <1>3. CASE op = "conn_write_req"
    <2>1. /\ op' = "conn_read_resp" /\ need' = 4 /\ written' = "ok"
          /\ verdict' = "pending" /\ outp' = (AuthRequest \o Secrets) \o ConnectRequest
          /\ Admitted /\ Len(taken) = Admission
      <3>1. /\ outp = AuthRequest \o Secrets /\ Admitted /\ Len(taken) = Admission
            /\ Message = ConnectRequest
        BY <1>3 DEF ClientInv, Stage, Message
      <3> QED
        BY <1>0, <1>3, <3>1 DEF Written, RequestDone, Begin
    <2>2. TypeOK'
      <3>1. outp' \in Seq(Byte)
        BY <1>0, <2>1, MessageFacts, Joined
      <3> QED
        BY <1>0, <2>1, <3>1 DEF TypeOK, Op, ReadsOfResponse
    <2>3. /\ Greeted' /\ Admitted' /\ Len(taken') = Admission'
          /\ outp' = (AuthRequest' \o Secrets') \o ConnectRequest'
      BY <1>0, <2>1, Steady, SameTaken, AdmittedIsGreeted
    <2>4. Stage'
      BY <2>1, <2>3 DEF Stage
    <2>5. Outcome'
      BY <2>1, <2>3 DEF Outcome, Writes, ReadsOfRequest, ReadsOfResponse, Major
    <2> QED
      BY <2>2, <2>4, <2>5 DEF ClientInv
  <1> QED
    BY <1>0, <1>1, <1>2, <1>3 DEF Writes

\* The proxy's choice of a method is read.
LEMMA AuthRespReadStep == ClientInv /\ AuthRespRead => ClientInv'
  <1> SUFFICES ASSUME ClientInv, AuthRespRead PROVE ClientInv'
    OBVIOUS
  <1>0. /\ TypeOK /\ op = "auth_read_resp" /\ need = 2 /\ taken = <<>> /\ outp = AuthRequest
        /\ written = "pending" /\ verdict = "pending"
        /\ UNCHANGED <<creds, dst, rep, outp, eof>>
    BY DEF ClientInv, Stage, Outcome, AuthRespRead, Take, ReadsOfRequest, Writes
  <1>1. /\ inp' \in Seq(Byte) /\ taken' \in Seq(Byte) /\ Len(taken') = 2
        /\ taken'[1] = Got[1] /\ taken'[2] = Got[2]
    <2>1. Take("auth_read_resp")
      BY DEF AuthRespRead
    <2>2. Len(taken) = 0
      BY <1>0
    <2> QED
      BY <1>0, <2>1, <2>2, TakeStep
  <1>2. Len(outp) = 3
    BY <1>0, MessageFacts
  <1>3. ASSUME NEW err \in Error, RequestDone(err) PROVE ClientInv'
    BY <1>0, <1>1, <1>2, <1>3, RequestFails DEF ReadsOfRequest
  <1>4. CASE /\ Got[1] = 5 /\ Got[2] = (IF NoCreds THEN 0 ELSE 2)
             /\ Continue(IF NoCreds THEN "conn_write_req" ELSE "auth_write_creds", 0)
    <2>1. /\ op' = (IF NoCreds THEN "conn_write_req" ELSE "auth_write_creds") /\ need' = 0
          /\ written' = "pending" /\ verdict' = "pending"
      BY <1>0, <1>4 DEF Continue, Begin
    <2>2. TypeOK'
      BY <1>0, <1>1, <2>1 DEF TypeOK, Op, Writes
    <2>3. NoCreds' = NoCreds /\ Greeted' /\ outp' = AuthRequest'
      BY <1>0, <1>1, <1>4, Steady DEF Greeted
    <2>4. Stage'
      <3>1. NoCreds => Secrets' = <<>> /\ Admission' = 2 /\ Admitted'
        BY <1>1, <2>3 DEF Secrets, Admission, Admitted, Greeted
      <3>2. NoCreds => outp' = AuthRequest' \o Secrets'
        BY <1>0, <2>3, <3>1, Steady, MessageFacts, ConcatEmptySeq
      <3> QED
        BY <1>1, <2>1, <2>3, <3>1, <3>2 DEF Stage
    <2>5. Outcome'
      BY <2>1, <2>3 DEF Outcome, Writes, ReadsOfRequest, ReadsOfResponse, Major
    <2> QED
      BY <2>2, <2>4, <2>5 DEF ClientInv
  <1> QED
    BY <1>3, <1>4 DEF AuthRespRead, Error, ProxyError

\* The status of the credentials is read.
LEMMA CredsReplyReadStep == ClientInv /\ CredsReplyRead => ClientInv'
  <1> SUFFICES ASSUME ClientInv, CredsReplyRead PROVE ClientInv'
    OBVIOUS
  <1>0. /\ TypeOK /\ op = "auth_read_creds_reply" /\ need = 2
        /\ ~NoCreds /\ Greeted /\ Len(taken) = 2 /\ outp = AuthRequest \o Secrets
        /\ written = "pending" /\ verdict = "pending"
        /\ UNCHANGED <<creds, dst, rep, outp, eof>>
    BY DEF ClientInv, Stage, Outcome, CredsReplyRead, Take, ReadsOfRequest, Writes
  <1>1. /\ inp' \in Seq(Byte) /\ taken' \in Seq(Byte) /\ Len(taken') = 4
        /\ taken'[1] = taken[1] /\ taken'[2] = taken[2]
        /\ taken'[3] = Got[1] /\ taken'[4] = Got[2]
    <2>1. Take("auth_read_creds_reply")
      BY DEF CredsReplyRead
    <2> QED
      BY <1>0, <2>1, TakeStep
  <1>2. NoCreds' = NoCreds /\ Greeted'
    BY <1>0, <1>1, Steady DEF Greeted
  <1>3. ASSUME NEW err \in Error, RequestDone(err) PROVE ClientInv'
    BY <1>0, <1>1, <1>2, <1>3, RequestFails DEF ReadsOfRequest
  <1>4. CASE Got[1] = 5 /\ Got[2] = 0 /\ Continue("conn_write_req", 0)
    <2>1. /\ op' = "conn_write_req" /\ need' = 0
          /\ written' = "pending" /\ verdict' = "pending"
      BY <1>0, <1>4 DEF Continue, Begin
    <2>2. TypeOK'
      BY <1>0, <1>1, <2>1 DEF TypeOK, Op, Writes
    <2>3. /\ Admitted' /\ Len(taken') = Admission' /\ outp' = AuthRequest' \o Secrets'
      BY <1>0, <1>1, <1>2, <1>4, Steady DEF Greeted, Admitted, Admission
    <2>4. Stage'
      BY <2>1, <2>3 DEF Stage
    <2>5. Outcome'
      BY <1>2, <2>1 DEF Outcome, Writes, ReadsOfRequest, ReadsOfResponse, Major
    <2> QED
      BY <2>2, <2>4, <2>5 DEF ClientInv
  <1> QED
    BY <1>3, <1>4 DEF CredsReplyRead, Error, ProxyError
\* What a read of the response handler finds.
LEMMA ResponseReads ==
  ASSUME ClientInv, op \in ReadsOfResponse
  PROVE  /\ TypeOK /\ Admitted /\ written = "ok" /\ verdict = "pending"
         /\ outp = (AuthRequest \o Secrets) \o ConnectRequest
  BY DEF ClientInv, Outcome, ReadsOfResponse

\* The head of the reply is read.
LEMMA HeaderReadStep == ClientInv /\ HeaderRead => ClientInv'
  <1> SUFFICES ASSUME ClientInv, HeaderRead PROVE ClientInv'
    OBVIOUS
  <1>0. /\ op = "conn_read_resp" /\ op \in ReadsOfResponse /\ need = 4
        /\ Len(taken) = Admission /\ Take("conn_read_resp")
        /\ rep' = Got[2] /\ UNCHANGED <<creds, dst, outp, eof>>
    BY DEF ClientInv, Stage, HeaderRead, Take, ReadsOfResponse
  <1>1. /\ TypeOK /\ Admitted /\ written = "ok" /\ verdict = "pending"
        /\ outp = (AuthRequest \o Secrets) \o ConnectRequest
    BY <1>0, ResponseReads
  <1>2. /\ inp' \in Seq(Byte) /\ taken' \in Seq(Byte) /\ rep' \in Byte
    BY <1>0, <1>1, TakeStep
  <1>3. /\ Admitted' /\ Len(Reply') = 4
        /\ Reply'[1] = Got[1] /\ Reply'[2] = Got[2] /\ Reply'[4] = Got[4]
    <2>1. Len(taken) \in Nat /\ Len(taken) - Admission = 0
      BY <1>0, <1>1, InputFacts
    <2>2. /\ Admitted' /\ Len(Reply') = Len(Reply) + need /\ Len(Reply) = 0
          /\ \A i \in 1..need : Reply'[Len(Reply) + i] = Got[i]
      BY <1>0, <1>1, <2>1, ReplyStep
    <2> QED
      BY <1>0, <2>2
  <1>4. CASE ResponseDone("protocol_violation")
    BY <1>0, <1>2, <1>3, <1>4, ResponseFails DEF Error, ProxyError
  <1>5. CASE /\ Got[1] = 5 /\ Got[2] <= 8
             /\ \/ Got[4] = 1 /\ Continue("conn_read_resp_addr", 6)
                \/ Got[4] = 3 /\ Continue("conn_read_resp_addr_domainname", 1)
                \/ Got[4] = 4 /\ Continue("conn_read_resp_addr", 18)
    <2>1. /\ op' \in {"conn_read_resp_addr", "conn_read_resp_addr_domainname"}
          /\ need' \in 0..257 /\ written' = "ok" /\ verdict' = "pending"
      BY <1>1, <1>5 DEF Continue, Begin
    <2>2. TypeOK'
      BY <1>0, <1>1, <1>2, <2>1 DEF TypeOK, Op, ReadsOfResponse
    <2>3. HeadAccepted'
      BY <1>0, <1>3, <1>5 DEF HeadAccepted
    <2>4. Stage'
      BY <1>3, <1>5, <2>1, <2>3 DEF Stage, Continue, Begin, MessageLength, ATYP
    <2>5. Outcome'
      <3>1. Greeted'
        BY <1>3, <2>2, AdmittedIsGreeted, PTL
      <3>2. outp' = (AuthRequest' \o Secrets') \o ConnectRequest'
        BY <1>0, <1>1, Steady
      <3> QED
        BY <1>3, <2>1, <3>1, <3>2
          DEF Outcome, Writes, ReadsOfRequest, ReadsOfResponse, Major
    <2> QED
      BY <2>2, <2>4, <2>5 DEF ClientInv
  <1> QED
    BY <1>4, <1>5 DEF HeaderRead

\* The length of a name is read: at most 257 bytes follow.
LEMMA NameLengthReadStep == ClientInv /\ NameLengthRead => ClientInv'
  <1> SUFFICES ASSUME ClientInv, NameLengthRead PROVE ClientInv'
    OBVIOUS
  <1>0. /\ op = "conn_read_resp_addr_domainname" /\ op \in ReadsOfResponse /\ need = 1
        /\ HeadAccepted /\ Reply[4] = 3 /\ Len(Reply) = 4
        /\ Take("conn_read_resp_addr_domainname")
        /\ Continue("conn_read_resp_addr", Got[1] + 2)
        /\ UNCHANGED <<creds, dst, rep, outp, eof>>
    BY DEF ClientInv, Stage, NameLengthRead, Take, ReadsOfResponse
  <1>1. /\ TypeOK /\ Admitted /\ written = "ok" /\ verdict = "pending"
        /\ outp = (AuthRequest \o Secrets) \o ConnectRequest
    BY <1>0, ResponseReads
  <1>2. /\ inp' \in Seq(Byte) /\ taken' \in Seq(Byte) /\ Got[1] \in Byte
    BY <1>0, <1>1, TakeStep
  <1>3. /\ Admitted' /\ Len(Reply') = 5 /\ Reply'[5] = Got[1]
        /\ \A i \in 1..4 : Reply'[i] = Reply[i]
    BY <1>0, <1>1, <1>2, ReplyStep
  <1>4. /\ op' = "conn_read_resp_addr" /\ need' = Got[1] + 2
        /\ written' = "ok" /\ verdict' = "pending"
    BY <1>0, <1>1 DEF Continue, Begin
  <1>5. TypeOK'
    <2>1. need' \in 0..257
      <3>1. Got[1] \in Nat /\ Got[1] <= 255
        BY <1>2, Bytes
      <3> QED
        BY <1>4, <3>1
    <2> QED
      BY <1>0, <1>1, <1>2, <1>4, <2>1 DEF TypeOK, Op, ReadsOfResponse
  <1>6. HeadAccepted'
    BY <1>0, <1>3 DEF HeadAccepted
  <1>7. Stage'
    <2>1. Reply'[4] = 3 /\ MessageLength(Reply') = 7 + Got[1] /\ Got[1] \in Int
      BY <1>0, <1>2, <1>3, Bytes DEF MessageLength, ATYP
    <2> QED
      BY <1>3, <1>4, <1>6, <2>1 DEF Stage
  <1>8. Outcome'
    <2>1. Greeted'
      BY <1>3, <1>5, AdmittedIsGreeted, PTL
    <2>2. outp' = (AuthRequest' \o Secrets') \o ConnectRequest'
      BY <1>0, <1>1, Steady
    <2> QED
      BY <1>3, <1>4, <2>1, <2>2
        DEF Outcome, Writes, ReadsOfRequest, ReadsOfResponse, Major
  <1> QED
    BY <1>5, <1>7, <1>8 DEF ClientInv

\* The address and the port are read: the reply is whole.
LEMMA AddressReadStep == ClientInv /\ AddressRead => ClientInv'
  <1> SUFFICES ASSUME ClientInv, AddressRead PROVE ClientInv'
    OBVIOUS
  <1>0. /\ op = "conn_read_resp_addr" /\ op \in ReadsOfResponse
        /\ HeadAccepted /\ Len(Reply) = (IF Reply[4] = 3 THEN 5 ELSE 4)
        /\ need = MessageLength(Reply) - Len(Reply)
        /\ Take("conn_read_resp_addr") /\ ResponseDone(RepToMajor(rep))
        /\ UNCHANGED <<creds, dst, rep, outp, eof>>
    BY DEF ClientInv, Stage, AddressRead, Take, ReadsOfResponse
  <1>1. /\ TypeOK /\ Admitted /\ written = "ok" /\ verdict = "pending"
        /\ outp = (AuthRequest \o Secrets) \o ConnectRequest
    BY <1>0, ResponseReads
  <1>2. /\ inp' \in Seq(Byte) /\ taken' \in Seq(Byte)
    BY <1>0, <1>1, TakeStep
  <1>3. /\ Admitted' /\ Len(Reply') = Len(Reply) + need
        /\ \A i \in 1..Len(Reply) : Reply'[i] = Reply[i] /\ Reply[i] \in Byte
    BY <1>0, <1>1, <1>2, ReplyStep
  <1>4. /\ op' = "none" /\ need' = 0 /\ written' = "ok"
        /\ verdict' = RepToMajor(rep) /\ RepToMajor(rep) \in Major
    BY <1>0, <1>1 DEF ResponseDone, Begin, RepToMajor, Major
  <1>5. TypeOK'
    BY <1>0, <1>1, <1>2, <1>4 DEF TypeOK, Op
  <1>6. HeadAccepted' /\ WholeMessage(Reply')
    <2>1. /\ Reply[1] = 5 /\ Reply[2] = rep /\ rep <= 8 /\ Reply[4] \in {1, 3, 4}
          /\ Len(Reply) \in {4, 5} /\ (Reply[4] = 3 => Len(Reply) = 5)
      BY <1>0 DEF HeadAccepted
    <2>2. Reply'[1] = 5 /\ Reply'[2] = rep /\ Reply'[4] = Reply[4]
      <3>1. {1, 2, 4} \subseteq 1..Len(Reply)
        BY <2>1
      <3> QED
        BY <1>3, <2>1, <3>1
    <2>3. Reply[4] = 3 => Reply'[5] = Reply[5] /\ Reply[5] \in Nat
      <3>1. Len(Reply) \in Nat /\ (Reply[4] = 3 => 5 \in 1..Len(Reply))
        BY <2>1
      <3> QED
        BY <1>3, <3>1, Bytes
    <2>4. MessageLength(Reply') = MessageLength(Reply) /\ MessageLength(Reply) \in Nat
          /\ MessageLength(Reply) >= 7
      BY <2>1, <2>2, <2>3 DEF MessageLength, ATYP
    <2>5. Len(Reply') = MessageLength(Reply')
      BY <1>0, <1>3, <2>1, <2>4
    <2> QED
      BY <1>0, <2>1, <2>2, <2>4, <2>5 DEF HeadAccepted, WholeMessage
  <1>7. Stage'
    BY <1>4 DEF Stage
  <1>8. Outcome'
    <2>1. outp' = (AuthRequest' \o Secrets') \o ConnectRequest' /\ rep' = rep
      BY <1>0, <1>1, Steady
    <2>2. Greeted'
      BY <1>3, <1>5, AdmittedIsGreeted, PTL
    <2> QED
      BY <1>3, <1>4, <1>6, <2>1, <2>2
        DEF Outcome, Writes, ReadsOfRequest, ReadsOfResponse
  <1> QED
    BY <1>5, <1>7, <1>8 DEF ClientInv

\* An operation ends with an error of the socket.
LEMMA BreaksStep == ClientInv /\ Breaks => ClientInv'
  <1> SUFFICES ASSUME ClientInv, Breaks PROVE ClientInv'
    OBVIOUS
  <1>0. /\ TypeOK /\ op \in Writes \union ReadsOfRequest \union ReadsOfResponse
        /\ UNCHANGED <<creds, dst, rep, inp, outp, taken, eof>>
        /\ "broken" \in Error
    BY DEF ClientInv, TypeOK, Op, Breaks, Error
  <1>1. Greeted' = Greeted /\ Admitted' = Admitted
    BY <1>0, SameTaken
  <1>2. taken' \in Seq(Byte) /\ inp' \in Seq(Byte) /\ rep' \in Byte
    BY <1>0 DEF TypeOK
  <1>3. CASE op \notin ReadsOfResponse /\ RequestDone("broken")
    BY <1>0, <1>1, <1>2, <1>3, RequestFails DEF ClientInv, Outcome
  <1>4. CASE op \in ReadsOfResponse /\ ResponseDone("broken")
    <2>1. Admitted
      BY <1>4, ResponseReads
    <2> QED
      BY <1>0, <1>1, <1>2, <1>4, <2>1, ResponseFails
  <1> QED
    BY <1>3, <1>4 DEF Breaks

\* What arrives from the proxy while the session waits, or the end of it,
\* changes nothing that the invariant speaks of.
LEMMA ClientInvKept ==
  ASSUME ClientInv, UNCHANGED <<clientVars, outp>>, inp' \in Seq(Byte), eof' \in BOOLEAN
  PROVE  ClientInv'
  <1>1. /\ UNCHANGED <<creds, dst, op, need, rep, written, verdict, taken, outp>>
        /\ UNCHANGED <<NoCreds, Admission, AuthRequest, Secrets, ConnectRequest,
                       Greeted, Admitted, Reply, HeadAccepted>>
    BY Steady, SameTaken DEF clientVars
  <1> QED
    BY <1>1 DEF ClientInv, TypeOK, Stage, Outcome

LEMMA ClientInvNext == ClientInv /\ [Next]_vars => ClientInv'
  <1>1. ClientInv /\ UNCHANGED vars => ClientInv'
    BY ClientInvKept DEF ClientInv, TypeOK, vars
  <1> QED
    BY <1>1, WrittenStep, AuthRespReadStep, CredsReplyReadStep, HeaderReadStep,
       NameLengthReadStep, AddressReadStep, BreaksStep DEF Next, Progress, EndOfStream

-----------------------------------------------------------------------------
(* What the user relies on.                                                 *)

\* The inductive invariant holds throughout: for any bytes that the proxy
\* sends, any credentials and any destination.
THEOREM ClientInvariant == Spec => []ClientInv
  BY ClientInvInit, ClientInvNext, PTL DEF Spec

\* The session keeps its types; no read asks for more than 257 bytes, which
\* the 270 of conn_read_packet_addr_ hold.
THEOREM ClientTypeCorrect == Spec => []TypeOK
  <1>1. ClientInv => TypeOK
    BY DEF ClientInv
  <1> QED
    BY <1>1, ClientInvariant, PTL

\* A verdict comes from one whole reply and nothing behind it has been read.
THEOREM RepliesExactlyTaken == Spec => []ReplyExactlyTaken
  <1>1. ClientInv => ReplyExactlyTaken
    BY DEF ClientInv, Outcome, HeadAccepted, ReplyExactlyTaken
  <1> QED
    BY <1>1, ClientInvariant, PTL

\* "Succeeded" is what a proxy said that had let the client in.
THEOREM SuccessesGranted == Spec => []SuccessIsGranted
  <1>1. ClientInv => SuccessIsGranted
    <2> SUFFICES ASSUME ClientInv, verdict \in Major
                 PROVE  Admitted /\ (verdict = "Succeeded" <=> Reply[2] = 0)
      BY DEF SuccessIsGranted
    <2>1. /\ written = "ok" /\ Admitted
          /\ Reply[2] = rep /\ verdict = RepToMajor(rep)
      BY DEF ClientInv, Outcome, HeadAccepted, Major
    <2> QED
      BY <2>1 DEF RepToMajor
  <1> QED
    BY <1>1, ClientInvariant, PTL

\* User name and password leave only for a proxy that asked for them, the
\* request only for one that let the client in.
THEOREM SecretsKept == Spec => []SecretsOnlyIfAsked
  <1>1. ClientInv => SecretsOnlyIfAsked
    BY DEF ClientInv, Outcome, Greeted, SecretsOnlyIfAsked
  <1> QED
    BY <1>1, ClientInvariant, PTL
-----------------------------------------------------------------------------
(* The interface that output uses.                                          *)

\* A step calls no handler, the first one, or after it the second one.
LEMMA HandlersCalled ==
  ASSUME ClientInv, [Next]_vars
  PROVE  \/ UNCHANGED <<written, verdict>>
         \/ /\ written = "pending" /\ verdict = "pending"
            /\ written' \in {"ok"} \union Error /\ verdict' = verdict
         \/ /\ written = "ok" /\ verdict = "pending"
            /\ written' = written /\ verdict' \in Major \union Error
  <1> DEFINE Told ==
        \/ UNCHANGED <<written, verdict>>
        \/ /\ written = "pending" /\ verdict = "pending"
           /\ written' \in {"ok"} \union Error /\ verdict' = verdict
        \/ /\ written = "ok" /\ verdict = "pending"
           /\ written' = written /\ verdict' \in Major \union Error
  <1>1. ASSUME op \in Writes \union ReadsOfRequest, NEW err \in {"ok"} \union Error,
               RequestDone(err)
        PROVE  Told
    BY <1>1 DEF ClientInv, Outcome, Writes, ReadsOfRequest, RequestDone
  <1>2. ASSUME op \in ReadsOfResponse, NEW v \in Major \union Error, ResponseDone(v)
        PROVE  Told
    BY <1>2 DEF ClientInv, Outcome, ReadsOfResponse, ResponseDone
  <1>3. \A o, n : Continue(o, n) => Told
    BY DEF Continue
  <1>4. Error = {"protocol_violation", "bad_auth_method", "auth_failed", "broken"}
    BY DEF Error, ProxyError
  <1>5. RepToMajor(rep) \in Major
    BY DEF RepToMajor, Major
  <1> HIDE DEF Told
  <1>6. Written => Told
    BY <1>1, <1>3 DEF Written, Writes
  <1>7. AuthRespRead \/ CredsReplyRead => Told
    BY <1>1, <1>3, <1>4 DEF AuthRespRead, CredsReplyRead, Take, ReadsOfRequest
  <1>8. HeaderRead \/ NameLengthRead \/ AddressRead => Told
    BY <1>2, <1>3, <1>4, <1>5 DEF HeaderRead, NameLengthRead, AddressRead, Take, ReadsOfResponse
  <1>9. Breaks => Told
    BY <1>1, <1>2, <1>4 DEF Breaks, ClientInv, TypeOK, Op
  <1>10. UNCHANGED vars => Told
    BY DEF vars, clientVars, Told
  <1>11. Told
    BY <1>6, <1>7, <1>8, <1>9, <1>10 DEF Next, Progress, EndOfStream
  <1> QED
    BY <1>11 DEF Told

\* Each handler is called at most once, the second one after the first, and
\* the response is assigned exactly when the second reports no error: the
\* session implements the interface of proxy/client_session.h, step for step.
THEOREM ContractKept == Spec => KeepsContract
  <1>1. Init => Contract!Init
    BY DEF Init, ClientInit, Contract!Init, Phase, Major
  <1>2. ASSUME ClientInv, [Next]_vars PROVE [Contract!Next]_(Contract!vars)
    <2> USE DEF Phase, Contract!Next, Contract!vars, Contract!RequestWritten,
                Contract!ResponseRead, Contract!Fails
    <2>0. /\ "pending" \notin Major /\ "ok" \notin Error /\ "pending" \notin Error
          /\ Major \intersect Error = {} /\ "none" \notin Major
      BY DEF Major, Error, ProxyError
    <2>1. CASE UNCHANGED <<written, verdict>>
      BY <2>1
    <2>2. CASE /\ written = "pending" /\ verdict = "pending"
               /\ written' \in {"ok"} \union Error /\ verdict' = verdict
      BY <2>0, <2>2
    <2>3. CASE /\ written = "ok" /\ verdict = "pending"
               /\ written' = written /\ verdict' \in Major \union Error
      BY <2>0, <2>3
    <2> QED
      BY <1>2, <2>1, <2>2, <2>3, HandlersCalled
  <1> QED
    BY <1>1, <1>2, ClientInvariant, PTL DEF Spec, KeepsContract, Contract!Spec
-----------------------------------------------------------------------------
(* The request.                                                             *)

\* A part of t that has the elements of s is s.
LEMMA Part ==
  ASSUME NEW s \in Seq(Byte), NEW t \in Seq(Byte), NEW a \in Nat,
         a + Len(s) <= Len(t), \A i \in 1..Len(s) : t[a + i] = s[i]
  PROVE  SubSeq(t, a + 1, a + Len(s)) = s
  <1> DEFINE r == SubSeq(t, a + 1, a + Len(s))
  <1>1. Len(s) \in Nat /\ Len(t) \in Nat
    BY LenProperties
  <1>2. \A i \in (a + 1)..(a + Len(s)) : t[i] \in Byte
    BY <1>1, ElementOfSeq
  <1>3. a + 1 \in Int /\ a + Len(s) \in Int
    BY <1>1
  <1>4. /\ r \in Seq(Byte)
        /\ Len(r) = IF a + 1 <= a + Len(s) THEN a + Len(s) - (a + 1) + 1 ELSE 0
        /\ \A i \in 1..(a + Len(s) - (a + 1) + 1) : r[i] = t[a + 1 + i - 1]
    BY <1>2, <1>3, SubSeqProperties
  <1>5. Len(r) = Len(s) /\ \A i \in 1..Len(r) : r[i] = s[i]
    BY <1>1, <1>4
  <1> HIDE DEF r
  <1>6. r = s
    BY <1>4, <1>5, SeqEqual
  <1> QED
    BY <1>6 DEF r

\* A port survives its two bytes.
LEMMA PortDecoded ==
  \A port \in Port : PortOf((port \div 256) % 256, port % 256) = port
  <1>1. \A port \in Port : port \in Nat /\ port <= 65535
    BY DEF Port, LastPort
  <1>2. ASSUME NEW n \in Nat, n <= 65535
        PROVE  PortOf((n \div 256) % 256, n % 256) = n
    <2> DEFINE q == n \div 256
               r == n % 256
    <2>1. q \in Nat /\ r \in Nat
      OBVIOUS
    <2>2. n = 256 * q + r
      OBVIOUS
    <2> HIDE DEF q, r
    <2>3. q <= 255
      BY <1>2, <2>1, <2>2
    <2>4. \A k \in Nat : k <= 255 => k % 256 = k
      OBVIOUS
    <2>5. q % 256 = q
      BY <2>1, <2>3, <2>4
    <2>6. PortOf(q % 256, r) = n
      BY <2>2, <2>5 DEF PortOf
    <2> QED
      BY <2>6 DEF q, r
  <1> QED
    BY <1>1, <1>2

\* The request is whole and names the destination.
LEMMA RequestDecoded ==
  ASSUME TypeOK
  PROVE  /\ WholeMessage(ConnectRequest) /\ ConnectRequest[2] = 1
         /\ Named(ConnectRequest) = dst
  <1> DEFINE head == <<5, 1, 0, ATYP[dst.kind]>>
             length == IF dst.kind = "name" THEN <<Len(dst.addr)>> ELSE <<>>
             before == head \o length
             front == before \o dst.addr
             port == PortBytes(dst.port)
             n == IF dst.kind = "name" THEN 5 ELSE 4
             m == ConnectRequest
  <1>1. /\ dst.kind \in {"v4", "v6", "name"} /\ dst.port \in Port
        /\ dst.addr \in Seq(Byte) /\ Len(dst.addr) \in Byte /\ Len(dst.addr) \in Nat
    BY InputFacts, Bytes DEF Encodable
  <1>15. (dst.kind = "v4" => Len(dst.addr) = 4) /\ (dst.kind = "v6" => Len(dst.addr) = 16)
    BY InputFacts DEF Encodable
  <1>14. dst = [kind |-> dst.kind, addr |-> dst.addr, port |-> dst.port]
    BY InputFacts DEF Encodable
  <1>2. /\ ATYP[dst.kind] \in Byte
        /\ (dst.kind = "v4" => ATYP[dst.kind] = 1)
        /\ (dst.kind = "v6" => ATYP[dst.kind] = 4)
        /\ (dst.kind = "name" => ATYP[dst.kind] = 3)
    BY <1>1, Bytes DEF ATYP
  <1>3. /\ before \in Seq(Byte) /\ Len(before) = n
        /\ before[1] = 5 /\ before[2] = 1 /\ before[4] = ATYP[dst.kind]
        /\ (dst.kind = "name" => before[5] = Len(dst.addr))
    <2>1. /\ head \in Seq(Byte) /\ Len(head) = 4
          /\ head[1] = 5 /\ head[2] = 1 /\ head[4] = ATYP[dst.kind]
      <3>1. 5 \in Byte /\ 1 \in Byte /\ 0 \in Byte
        BY Bytes
      <3>2. head \in Seq(Byte)
        BY <1>2, <3>1
      <3> QED
        BY <3>2
    <2>2. /\ length \in Seq(Byte) /\ Len(length) = n - 4
          /\ (dst.kind = "name" => length[1] = Len(dst.addr))
      BY <1>1
    <2> HIDE DEF head, length
    <2>3. /\ before \in Seq(Byte) /\ Len(before) = Len(head) + Len(length)
          /\ \A i \in 1..Len(head) : before[i] = head[i]
          /\ \A i \in 1..Len(length) : before[Len(head) + i] = length[i]
      BY <2>1, <2>2, Joined
    <2> QED
      BY <2>1, <2>2, <2>3
  <1>7. n \in {4, 5} /\ (n = 5 <=> dst.kind = "name")
    OBVIOUS
  <1>4. port \in Seq(Byte) /\ port = <<(dst.port \div 256) % 256, dst.port % 256>>
    BY <1>1, Bytes DEF PortBytes
  <1>5. /\ front \in Seq(Byte) /\ Len(front) = n + Len(dst.addr)
        /\ \A i \in 1..n : front[i] = before[i]
        /\ \A i \in 1..Len(dst.addr) : front[n + i] = dst.addr[i]
    <2> HIDE DEF before, n
    <2> QED
      BY <1>1, <1>3, Joined
  <1>6. /\ m \in Seq(Byte) /\ Len(m) = n + Len(dst.addr) + 2
        /\ \A i \in 1..(n + Len(dst.addr)) : m[i] = front[i]
        /\ m[n + Len(dst.addr) + 1] = (dst.port \div 256) % 256
        /\ m[n + Len(dst.addr) + 2] = dst.port % 256
    <2>1. m = front \o port
      BY DEF ConnectRequest
    <2>2. Len(port) = 2 /\ port[1] = (dst.port \div 256) % 256 /\ port[2] = dst.port % 256
      BY <1>4
    <2> HIDE DEF front, port, n, m
    <2>3. /\ m \in Seq(Byte) /\ Len(m) = Len(front) + Len(port)
          /\ \A i \in 1..Len(front) : m[i] = front[i]
          /\ \A i \in 1..Len(port) : m[Len(front) + i] = port[i]
      <3>1. port \in Seq(Byte)
        BY <1>4
      <3> QED
        BY <1>5, <2>1, <3>1, Joined
    <2> QED
      BY <1>1, <1>5, <1>7, <2>2, <2>3
  <1> HIDE DEF head, length, before, front, port, n, m
  <1>8. /\ m[1] = 5 /\ m[2] = 1 /\ m[4] = ATYP[dst.kind]
        /\ (dst.kind = "name" => m[5] = Len(dst.addr))
        /\ \A i \in 1..Len(dst.addr) : m[n + i] = dst.addr[i]
    <2>1. \A i \in 1..n : m[i] = before[i]
      BY <1>1, <1>5, <1>6, <1>7
    <2>2. \A i \in 1..Len(dst.addr) : m[n + i] = dst.addr[i]
      BY <1>1, <1>5, <1>6, <1>7
    <2> QED
      BY <1>3, <1>7, <2>1, <2>2
  <1>9. WholeMessage(m)
    <2>1. CASE dst.kind = "name"
      <3>1. m[4] = 3 /\ m[5] = Len(dst.addr) /\ Len(m) = 7 + Len(dst.addr)
        BY <1>1, <1>2, <1>6, <1>7, <1>8, <2>1
      <3> QED
        BY <1>1, <1>8, <3>1 DEF WholeMessage, MessageLength, ATYP
    <2>2. CASE dst.kind = "v4"
      <3>1. n = 4 /\ Len(dst.addr) = 4
        BY <1>7, <1>15, <2>2
      <3>2. m[4] = 1 /\ Len(m) = 10
        BY <1>2, <1>6, <1>8, <2>2, <3>1
      <3> QED
        BY <1>8, <3>2 DEF WholeMessage, MessageLength, ATYP
    <2>3. CASE dst.kind = "v6"
      <3>1. n = 4 /\ Len(dst.addr) = 16
        BY <1>7, <1>15, <2>3
      <3>2. m[4] = 4 /\ Len(m) = 22
        BY <1>2, <1>6, <1>8, <2>3, <3>1
      <3> QED
        BY <1>8, <3>2 DEF WholeMessage, MessageLength, ATYP
    <2> QED
      BY <1>1, <2>1, <2>2, <2>3
  <1>10. SubSeq(m, n + 1, n + Len(dst.addr)) = dst.addr
    <2>1. n \in Nat /\ n + Len(dst.addr) <= Len(m)
      BY <1>1, <1>6, <1>7
    <2>2. dst.addr \in Seq(Byte) /\ m \in Seq(Byte)
      BY <1>1, <1>6
    <2>3. \A i \in 1..Len(dst.addr) : m[n + i] = dst.addr[i]
      BY <1>8
    <2> QED
      BY <2>1, <2>2, <2>3, Part
  <1>11. PortOf(m[Len(m) - 1], m[Len(m)]) = dst.port
    BY <1>1, <1>6, <1>7, PortDecoded
  <1>13. ATYP.v4 = 1 /\ ATYP.v6 = 4 /\ ATYP.name = 3
    BY DEF ATYP
  <1>12. Named(m) = dst
    <2>1. CASE dst.kind = "v4"
      <3>0. n = 4 /\ m[4] = 1
        BY <1>2, <1>7, <1>8, <2>1
      <3>4. Len(dst.addr) = 4
        BY <1>15, <2>1
      <3>1. n + 1 = 5 /\ n + Len(dst.addr) = 8
        BY <3>0, <3>4
      <3>2. SubSeq(m, 5, 8) = dst.addr
        BY <1>10, <3>1
      <3>3. Named(m) = [kind |-> "v4", addr |-> dst.addr, port |-> dst.port]
        BY <1>11, <1>13, <3>0, <3>2 DEF Named, Destination
      <3> QED
        BY <1>14, <2>1, <3>3
    <2>2. CASE dst.kind = "v6"
      <3>0. n = 4 /\ m[4] = 4
        BY <1>2, <1>7, <1>8, <2>2
      <3>4. Len(dst.addr) = 16
        BY <1>15, <2>2
      <3>1. n + 1 = 5 /\ n + Len(dst.addr) = 20
        BY <3>0, <3>4
      <3>2. SubSeq(m, 5, 20) = dst.addr
        BY <1>10, <3>1
      <3>3. Named(m) = [kind |-> "v6", addr |-> dst.addr, port |-> dst.port]
        <4>1. m[4] # ATYP.v4 /\ m[4] = ATYP.v6 /\ m[4] # ATYP.name
          BY <1>13, <3>0
        <4> QED
          BY <1>11, <3>2, <4>1 DEF Named, Destination
      <3> QED
        BY <1>14, <2>2, <3>3
    <2>3. CASE dst.kind = "name"
      <3>1. m[4] = 3 /\ n + 1 = 6 /\ n + Len(dst.addr) = Len(m) - 2
        BY <1>1, <1>2, <1>6, <1>7, <1>8, <2>3
      <3>2. SubSeq(m, 6, Len(m) - 2) = dst.addr
        BY <1>10, <3>1
      <3>3. Named(m) = [kind |-> "name", addr |-> dst.addr, port |-> dst.port]
        <4>1. m[4] # ATYP.v4 /\ m[4] # ATYP.v6 /\ m[4] = ATYP.name
          BY <1>13, <3>1
        <4> QED
          BY <1>11, <3>2, <4>1 DEF Named, Destination
      <3> QED
        BY <1>14, <2>3, <3>3
    <2> QED
      BY <1>1, <2>1, <2>2, <2>3
  <1> QED
    BY <1>8, <1>9, <1>12 DEF m
\* What the proxy has got when the request handler is told of success: a
\* greeting, the credentials it asked for, and one whole request that names
\* the destination (write_connect_request to conn_write_req_handler).
THEOREM DestinationNamed == Spec => []RequestNamesDestination
  <1>1. ClientInv => RequestNamesDestination
    <2> SUFFICES ASSUME ClientInv, written = "ok" PROVE RequestNamesDestination
      BY DEF RequestNamesDestination
    <2> DEFINE n == 3 + (IF NoCreds THEN 0 ELSE Len(CredsMessage))
               before == AuthRequest \o Secrets
               request == SubSeq(outp, n + 1, Len(outp))
    <2>1. TypeOK /\ outp = before \o ConnectRequest
      BY DEF ClientInv, Outcome
    <2>2. /\ AuthRequest \in Seq(Byte) /\ Len(AuthRequest) = 3
          /\ Secrets \in Seq(Byte) /\ ConnectRequest \in Seq(Byte)
          /\ Len(Secrets) = IF NoCreds THEN 0 ELSE Len(CredsMessage)
      BY <2>1, MessageFacts DEF Secrets
    <2>3. Len(Secrets) \in Nat /\ Len(ConnectRequest) \in Nat
      BY <2>2, LenProperties
    <2>4. /\ before \in Seq(Byte) /\ Len(before) = 3 + Len(Secrets)
          /\ \A i \in 1..3 : before[i] = AuthRequest[i]
      <3>1. AuthRequest \in Seq(Byte) /\ Secrets \in Seq(Byte)
        BY <2>2
      <3>2. /\ before \in Seq(Byte) /\ Len(before) = Len(AuthRequest) + Len(Secrets)
            /\ \A i \in 1..Len(AuthRequest) : before[i] = AuthRequest[i]
        BY <3>1, Joined
      <3> QED
        BY <2>2, <3>2
    <2>5. n = Len(before) /\ n \in Nat /\ n >= 3
      BY <2>2, <2>3, <2>4
    <2> HIDE DEF before, n
    <2>6. /\ outp \in Seq(Byte) /\ Len(outp) = n + Len(ConnectRequest)
          /\ \A i \in 1..n : outp[i] = before[i]
          /\ \A i \in 1..Len(ConnectRequest) : outp[n + i] = ConnectRequest[i]
      BY <2>1, <2>2, <2>4, <2>5, Joined
    <2>7. request = ConnectRequest
      <3>1. n + Len(ConnectRequest) <= Len(outp)
        BY <2>3, <2>5, <2>6
      <3>2. SubSeq(outp, n + 1, n + Len(ConnectRequest)) = ConnectRequest
        BY <2>2, <2>5, <2>6, <3>1, Part
      <3> QED
        BY <2>6, <3>2
    <2>8. SubSeq(outp, 1, 3) = AuthRequest
      <3>1. \A i \in 1..3 : outp[0 + i] = AuthRequest[i]
        BY <2>4, <2>5, <2>6
      <3>2. SubSeq(outp, 0 + 1, 0 + Len(AuthRequest)) = AuthRequest
        BY <2>2, <2>3, <2>5, <2>6, <3>1, Part
      <3> QED
        BY <2>2, <3>2
    <2>9. WholeGreeting(AuthRequest)
      BY DEF WholeGreeting, AuthRequest
    <2> QED
      BY <2>1, <2>7, <2>8, <2>9, RequestDecoded DEF RequestNamesDestination, n
  <1> QED
    BY <1>1, ClientInvariant, PTL
=============================================================================
