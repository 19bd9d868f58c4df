---------------------------- MODULE SessionProofs ----------------------------
(***************************************************************************)
(* Proofs about Session for every set of hosts, configurations and         *)
(* requests, and so for a chain of any length: the inductive invariant     *)
(* SessionInv, the safety properties of the handshake that it implies, and *)
(* that the session implements Forwarding.                                 *)
(***************************************************************************)
EXTENDS Session, FiniteSetTheorems, TLAPS

\* The holders are as many as the stages that they serve.
LEMMA HolderFacts ==
  /\ Holder("accept") = "sess_sptr"
  /\ Holder("readRequest") = "read_request_handler"
  /\ \A k \in OutputOps : Holder(k) = "connect_handler"
  /\ Holder("writeResponse") = "write_response_handler"
  /\ Holder("tunnel") = "tunnel_operations"
  /\ \A k \in OpKinds : Holder(k) \in Holders
  BY DEF Holder, Holders, OutputOps, OpKinds

\* The results that the code builds, and what a client is told of them.
LEMMA ResultFacts ==
  /\ NoResult.success = FALSE /\ NoResult.major # "Succeeded"
  /\ Success.success = TRUE /\ Success # NoResult /\ AnswerFor(Success) = "Succeeded"
  /\ \A err \in Error, index \in Nat \union {NoIndex} :
       LET r == FailedWith(err, index) IN
       /\ r \notin {NoResult, Success} /\ r.success = FALSE /\ r.err = err
       /\ r.index = index /\ r.major # "Succeeded"
       /\ AnswerFor(r) \in Major \ {"Succeeded"}
  /\ \A index \in Nat, major \in Major \ {"Succeeded"} :
       LET r == RefusedBy(index, major) IN
       /\ r \notin {NoResult, Success} /\ r.success = FALSE /\ r.err = "none"
       /\ r.index = index /\ r.major = major
       /\ AnswerFor(r) = major
  <1> USE DEF NoResult, Success, FailedWith, RefusedBy, AnswerFor, NoIndex
  <1>1. /\ NoResult.success = FALSE /\ NoResult.major # "Succeeded"
        /\ Success.success = TRUE /\ Success # NoResult /\ AnswerFor(Success) = "Succeeded"
    OBVIOUS
  <1>2. ASSUME NEW err \in Error, NEW index \in Nat \union {NoIndex}
        PROVE  LET r == FailedWith(err, index) IN
               /\ r \notin {NoResult, Success} /\ r.success = FALSE /\ r.err = err
               /\ r.index = index /\ r.major # "Succeeded"
               /\ AnswerFor(r) \in Major \ {"Succeeded"}
    <2>1. err # "none" /\ ErrorToMajor(err) \in Major \ {"Succeeded"}
      BY DEF Error, ErrorToMajor, Major
    <2> QED
      BY <2>1
  <1>3. ASSUME NEW index \in Nat, NEW major \in Major \ {"Succeeded"}
        PROVE  LET r == RefusedBy(index, major) IN
               /\ r \notin {NoResult, Success} /\ r.success = FALSE /\ r.err = "none"
               /\ r.index = index /\ r.major = major
               /\ AnswerFor(r) = major
    <2> DEFINE r == RefusedBy(index, major)
    <2>1. r.success = FALSE /\ r.err = "none" /\ r.index = index /\ r.major = major
      OBVIOUS
    <2>2. r # Success /\ r # NoResult
      <3>1. Success.success = TRUE /\ NoResult.index = -1 /\ index # -1
        OBVIOUS
      <3> QED
        BY <2>1, <3>1
    <2> HIDE DEF r
    <2>3. AnswerFor(r) = major
      BY <2>1 DEF AnswerFor
    <2> QED
      BY <2>1, <2>2, <2>3 DEF r
  <1> QED
    BY <1>1, <1>2, <1>3

Result == [success : BOOLEAN, err : Error \union {"none"},
           index : Nat \union {NoIndex}, major : Major]

\* They have the type of output_conn_res_.
LEMMA ResultTypes ==
  /\ NoResult \in Result /\ Success \in Result
  /\ \A err \in Error, index \in Nat \union {NoIndex} : FailedWith(err, index) \in Result
  /\ \A index \in Nat, major \in Major : RefusedBy(index, major) \in Result
  BY DEF Result, NoResult, Success, FailedWith, RefusedBy, Major, Error

\* Every answer is one of the codes.
LEMMA AnswerTypes == \A r \in Result : AnswerFor(r) \in Major
  BY DEF Result, AnswerFor, ErrorToMajor, Major, Error

\* A configuration has a chain of hops, each with a destination.
LEMMA ConfigFacts ==
  ASSUME cfg \in Configs
  PROVE  /\ cfg.tunnel \in BOOLEAN /\ cfg.chain \in Seq(Hop) /\ cfg.dst \in Dest
         /\ Len(cfg.chain) \in Nat
         /\ \A i \in 1..Len(cfg.chain) : cfg.chain[i].at \in Dest
  <1>1. cfg \in Config
    BY SessionAssumption
  <1>2. cfg.tunnel \in BOOLEAN /\ cfg.chain \in Seq(Hop) /\ cfg.dst \in Dest
    BY <1>1 DEF Config
  <1>3. \A i \in 1..Len(cfg.chain) : cfg.chain[i] \in Hop
    BY <1>2
  <1>4. \A h \in Hop : h.at \in Dest
    BY DEF Hop
  <1> QED
    BY <1>2, <1>3, <1>4

-----------------------------------------------------------------------------
\* A session that waits to be accepted satisfies the invariant.
LEMMA SessionInvInit == Init => SessionInv
  <1> SUFFICES ASSUME Init PROVE SessionInv
    OBVIOUS
  <1> USE HolderFacts, ResultFacts DEF Init
  <1>1. TypeOK
    <2>1. ops \subseteq [kind : OpKinds, index : Nat \union {NoIndex}]
      BY DEF Op, OpKinds
    <2>2. held \subseteq Holders
      BY DEF OpKinds
    <2>3. dst \in Dest \union {NoDest} /\ asked \in Dest \union {NoDest} /\ cur \in Nat
      OBVIOUS
    <2>4. result \in Result /\ answer \in Major /\ told \in Major \union {"nothing"}
      BY ResultTypes DEF Major
    <2>5. path \in Seq(Host) /\ log \in Seq(Host) /\ history \subseteq Host
      OBVIOUS
    <2> QED
      BY <2>1, <2>2, <2>3, <2>4, <2>5 DEF TypeOK, Result
  <1>2. Lifetime /\ \A o \in ops : Stage(o)
    BY DEF Lifetime, Op, Stage, Undecided
  <1>3. Outcome /\ StaleOnlyAfterOversizedHop
    BY DEF Outcome, FailureNamesHop, StaleOnlyAfterOversizedHop
  <1> QED
    BY <1>1, <1>2, <1>3 DEF SessionInv

\* With an operation outstanding, it is the only one, its holder the only one,
\* and nothing has been released.
LEMMA OneOp ==
  ASSUME SessionInv, NEW o \in ops
  PROVE  /\ ops = {o} /\ ops \ {o} = {} /\ held = {Holder(o.kind)} /\ open
         /\ o.kind \in OpKinds /\ o.index \in Nat \union {NoIndex}
         /\ Stage(o) /\ TypeOK /\ Outcome /\ stale = FALSE
  BY DEF SessionInv, Lifetime, TypeOK

\* What call_and_clear_handler and handle_connect_output establish: the
\* session writes its answer, relays, or is gone.
LEMMA ConnectDoneStep ==
  ASSUME NEW cr \in Result, cr # NoResult, cr.success => cr = Success,
         TypeOK, told = "nothing", open, dst \in Dest,
         UNCHANGED <<cfg, dst, told>>,
         NEW rest, rest = {}, NEW refs, refs = {"connect_handler"},
         ConnectDone(cr, rest, refs)
  PROVE  /\ result' = cr /\ answer' = AnswerFor(cr) /\ answer' \in Major
         /\ history' \subseteq Host /\ log' \in Seq(Host)
         /\ ops' \subseteq [kind : OpKinds, index : Nat \union {NoIndex}]
         /\ held' \subseteq Holders /\ open' \in BOOLEAN
         /\ Lifetime' /\ \A p \in ops' : Stage(p)'
         /\ ops' = {} => cfg.tunnel /\ ~cr.success
         /\ held' = {} <=> ops' = {}
  <1> USE HolderFacts
  <1>1. result' = cr /\ answer' = AnswerFor(cr) /\ answer' \in Major
    BY AnswerTypes DEF ConnectDone
  <1>2. history' \subseteq Host /\ log' \in Seq(Host)
    <2>1. dst'.host \in Host /\ log \in Seq(Host) /\ history \subseteq Host
      BY DEF TypeOK, Dest
    <2> QED
      BY <2>1 DEF ConnectDone, RecordHistory
  <1>3. rest = {} /\ refs \ {"connect_handler"} = {}
    OBVIOUS
  <1>4. CASE cfg.tunnel /\ cr.success
    <2>1. ops' = {Op("tunnel", NoIndex)} /\ held' = {"tunnel_operations"} /\ open' = open
      BY <1>3, <1>4 DEF ConnectDone, WriteAnswer, AfterAnswer, MakeTunnel
    <2>2. Stage(Op("tunnel", NoIndex))'
      BY <1>1, <1>4 DEF Op, Stage
    <2>3. Lifetime'
      BY <2>1 DEF Lifetime, Op
    <2> QED
      BY <1>1, <1>2, <2>1, <2>2, <2>3 DEF Op, OpKinds
  <1>5. CASE cfg.tunnel /\ ~cr.success
    <2>1. ops' = {} /\ held' = {} /\ open' = FALSE
      BY <1>3, <1>5 DEF ConnectDone, WriteAnswer, AfterAnswer, CloseAll
    <2> QED
      BY <1>1, <1>2, <1>5, <2>1 DEF Lifetime
  <1>6. CASE ~cfg.tunnel
    <2>1. /\ ops' = {Op("writeResponse", NoIndex)} /\ held' = {"write_response_handler"}
          /\ open' = open
      BY <1>3, <1>6 DEF ConnectDone, WriteAnswer
    <2>2. Stage(Op("writeResponse", NoIndex))'
      BY <1>1, <1>6 DEF Op, Stage, AnswerFor, ErrorToMajor
    <2>3. Lifetime'
      BY <2>1 DEF Lifetime, Op
    <2> QED
      BY <1>1, <1>2, <1>6, <2>1, <2>2, <2>3 DEF Op, OpKinds
  <1> QED
    BY <1>4, <1>5, <1>6

\* connect_next: with the connection at the far end of hop cur', the session
\* asks for what follows, or the attempt is decided.
LEMMA ConnectNextStep ==
  ASSUME NEW o \in ops, SessionInv, o.kind \in OutputOps, Undecided, dst \in Dest,
         UNCHANGED <<cfg, dst, told>>, stale' \in BOOLEAN,
         cur' \in Nat, cur' <= Len(cfg.chain),
         path' \in Seq(Host), Reached(cur + 1)',
         NEW index \in Nat \union {NoIndex}, cur' < Len(cfg.chain) => index = cur',
         ConnectNext(index, ops \ {o}, held)
  PROVE  /\ TypeOK' /\ Lifetime' /\ Outcome'
         /\ \A p \in ops' : Stage(p)'
         /\ held' = {} <=> ops' = {}
         /\ ops' = {} => cfg.tunnel /\ cur' < Len(cfg.chain) /\ TooLong(cur')
  <1> USE HolderFacts, ResultFacts, ResultTypes
  <1>0. /\ ops = {o} /\ ops \ {o} = {} /\ held = {"connect_handler"} /\ open
        /\ TypeOK /\ cfg \in Configs /\ Len(cfg.chain) \in Nat
    BY OneOp, ConfigFacts DEF TypeOK
  <1>1. told = "nothing" /\ result = NoResult
    BY DEF Undecided
  <1>2. CASE cur' = Len(cfg.chain)
    <2>1. ConnectDone(Success, ops \ {o}, held) /\ asked' = asked
      BY <1>2 DEF ConnectNext
    <2>2. /\ result' = Success /\ answer' \in Major /\ history' \subseteq Host /\ log' \in Seq(Host)
          /\ ops' \subseteq [kind : OpKinds, index : Nat \union {NoIndex}]
          /\ held' \subseteq Holders /\ open' \in BOOLEAN
          /\ Lifetime' /\ \A p \in ops' : Stage(p)'
          /\ ops' # {} /\ (held' = {} <=> ops' = {})
      BY <1>0, <1>1, <2>1, ConnectDoneStep
    <2>3. TypeOK'
      BY <1>0, <2>1, <2>2 DEF TypeOK, Result
    <2>4. Reached(Len(cfg.chain) + 1)'
      BY <1>2
    <2>5. Outcome'
      BY <1>1, <2>2, <2>4 DEF Outcome, FailureNamesHop
    <2> QED
      BY <2>2, <2>3, <2>5
  <1>3. CASE cur' < Len(cfg.chain) /\ TooLong(cur')
    <2> DEFINE cr == FailedWith("proxy", index)
    <2>0. "proxy" \in Error /\ cfg.chain # <<>> /\ Len(cfg.chain) \in Nat
      BY <1>0, <1>3, ConfigFacts DEF Error
    <2>1. ConnectDone(cr, ops \ {o}, held) /\ asked' = asked
      BY <1>3 DEF ConnectNext
    <2>c. cr \in Result /\ cr \notin {NoResult, Success} /\ cr.success = FALSE
          /\ cr.index = index /\ cr.major # "Succeeded"
      BY <2>0
    <2> HIDE DEF cr
    <2>2. /\ result' = cr /\ answer' \in Major /\ history' \subseteq Host /\ log' \in Seq(Host)
          /\ ops' \subseteq [kind : OpKinds, index : Nat \union {NoIndex}]
          /\ held' \subseteq Holders /\ open' \in BOOLEAN
          /\ Lifetime' /\ \A p \in ops' : Stage(p)'
          /\ (ops' = {} => cfg.tunnel) /\ (held' = {} <=> ops' = {})
      BY <1>0, <1>1, <2>1, <2>c, ConnectDoneStep
    <2>3. TypeOK'
      BY <1>0, <2>1, <2>2, <2>c DEF TypeOK, Result
    <2>4. index = cur' /\ index \in 0..Len(cfg.chain) - 1
      BY <1>3, <2>0
    <2>r. Reached(index + 1)' /\ Len(path') = index + 1 /\ path' # <<>>
      <3>1. Len(path') = cur' + 1
        BY DEF Reached
      <3>2. \A j \in 1..index + 1 : path'[j] = Route(j)'
        BY <2>4 DEF Reached
      <3>3. Len(path') = index + 1 /\ index \in Nat
        BY <2>4, <3>1
      <3>4. path' # <<>>
        BY <3>3
      <3> QED
        BY <3>2, <3>3, <3>4 DEF Reached
    <2>5. FailureNamesHop'
      BY <2>0, <2>2, <2>4, <2>r, <2>c DEF FailureNamesHop
    <2>6. Outcome'
      BY <1>1, <2>0, <2>2, <2>4, <2>r, <2>5, <2>c DEF Outcome
    <2> QED
      BY <1>3, <2>2, <2>3, <2>6
  <1>4. CASE cur' < Len(cfg.chain) /\ ~TooLong(cur')
    <2>1. /\ asked' = NextDest(cur')
          /\ ops' = {Op("writeRequest", index)} /\ held' = {"connect_handler"}
          /\ Unfinished
      BY <1>0, <1>4 DEF ConnectNext
    <2>2. NextDest(cur') \in Dest
      BY <1>0, ConfigFacts DEF NextDest
    <2>3. TypeOK'
      BY <1>0, <2>1, <2>2 DEF TypeOK, Unfinished, Op, OpKinds, OutputOps
    <2>4. Lifetime'
      BY <1>0, <2>1 DEF Lifetime, Op, OutputOps, Unfinished
    <2>n. NextDest(cur') = NextDest(cur)'
      BY DEF NextDest
    <2>u. Undecided' /\ dst' \in Dest
      BY <2>1 DEF Undecided, Unfinished
    <2>5. Stage(Op("writeRequest", index))'
      BY <1>4, <2>1, <2>n, <2>u DEF Stage, Op
    <2>6. Outcome'
      BY <1>1, <2>1 DEF Outcome, FailureNamesHop, Unfinished
    <2> QED
      BY <2>1, <2>3, <2>4, <2>5, <2>6
  <1> QED
    BY <1>0, <1>2, <1>3, <1>4, ConfigFacts

\* connect_through_chain starts with the first host of the route.
LEMMA ConnectThroughChainStep ==
  ASSUME NEW o \in ops, SessionInv, o.kind \in {"accept", "readRequest"},
         NEW d \in Dest, NEW refs, refs = {},
         ConnectThroughChain(d, ops \ {o}, refs),
         stale' = FALSE, UNCHANGED <<cfg, asked, told, path>>
  PROVE  SessionInv'
  <1> USE HolderFacts
  <1>0. /\ ops \ {o} = {} /\ open /\ TypeOK /\ Outcome
        /\ Undecided /\ path = <<>>
    BY OneOp DEF Stage
  <1> DEFINE k == IF (IF cfg.chain = <<>> THEN d ELSE cfg.chain[1].at).named
                  THEN "resolve" ELSE "connect"
             i == IF cfg.chain = <<>> THEN NoIndex ELSE 0
  <1>a. /\ dst' = d /\ cur' = 0 /\ ops' = {Op(k, i)} /\ held' = {"connect_handler"}
        /\ Unfinished
    BY <1>0 DEF ConnectThroughChain
  <1>b. PICK p : p = Op(k, i)
    OBVIOUS
  <1>1. /\ dst' = d /\ cur' = 0 /\ ops' = {p} /\ held' = {"connect_handler"}
        /\ Unfinished
    BY <1>a, <1>b
  <1>2. /\ p.kind \in {"resolve", "connect"} /\ p.index = i
        /\ p \in [kind : OpKinds, index : Nat \union {NoIndex}]
        /\ p.kind \in OutputOps /\ p.kind \in OpKinds
    BY <1>b DEF OpKinds, OutputOps, Op
  <1> HIDE DEF k
  <1>3. TypeOK'
    <2>1. ops' \subseteq [kind : OpKinds, index : Nat \union {NoIndex}]
      BY <1>1, <1>2
    <2>2. held' \subseteq Holders
      BY <1>1, <1>2
    <2> QED
      BY <1>0, <1>1, <2>1, <2>2 DEF TypeOK, Unfinished
  <1>4. Lifetime'
    BY <1>0, <1>1, <1>2 DEF Lifetime, Op, Unfinished
  <1>u. Undecided' /\ path' = <<>> /\ cur' = 0 /\ dst' \in Dest
        /\ p.index = IF cfg'.chain = <<>> THEN NoIndex ELSE 0
    BY <1>0, <1>1, <1>2 DEF Undecided, Unfinished
  <1> HIDE DEF i
  <1>5. Stage(p)'
    BY <1>2, <1>u DEF Stage
  <1>6. Outcome'
    BY <1>0, <1>1, ResultFacts DEF Outcome, FailureNamesHop, Undecided, Unfinished
  <1>7. StaleOnlyAfterOversizedHop' /\ ~stale'
    BY DEF StaleOnlyAfterOversizedHop
  <1>8. \A q \in ops' : Stage(q)'
    BY <1>1, <1>5
  <1> QED
    BY <1>3, <1>4, <1>6, <1>7, <1>8 DEF SessionInv

-----------------------------------------------------------------------------
(* One lemma for each way in which a handler can end.                       *)

\* close_all(), or the last reference dropped, leaves nothing behind.
LEMMA CloseStep ==
  ASSUME NEW o \in ops, SessionInv,
         CloseAll(ops \ {o}, held \ {Holder(o.kind)}),
         UNCHANGED <<cfg, dst, cur, asked, result, answer, told, path, history, log, stale>>
  PROVE  SessionInv'
  <1>1. ops' = {} /\ held' = {} /\ open' = FALSE /\ TypeOK /\ Outcome /\ stale = FALSE
    BY OneOp DEF CloseAll
  <1>2. TypeOK'
    BY <1>1 DEF TypeOK
  <1>3. Lifetime' /\ \A p \in ops' : Stage(p)'
    BY <1>1 DEF Lifetime
  <1>4. Outcome'
    BY <1>1 DEF Outcome, FailureNamesHop, Reached, Route
  <1> QED
    BY <1>1, <1>2, <1>3, <1>4 DEF SessionInv, StaleOnlyAfterOversizedHop

\* The session starts to read the request, or starts on the chain.
LEMMA AcceptedStep ==
  ASSUME NEW o \in ops, SessionInv, Accepted(o)
  PROVE  SessionInv'
  <1> USE HolderFacts
  <1>1. /\ ops \ {o} = {} /\ held \ {"sess_sptr"} = {} /\ open /\ TypeOK /\ Outcome
        /\ Undecided /\ path = <<>> /\ o.kind = "accept" /\ stale' = FALSE
        /\ UNCHANGED <<cfg, asked, told, path>>
    BY OneOp DEF Accepted, Dispatch, Stage
  <1>2. CASE cfg.tunnel /\ ConnectThroughChain(cfg.dst, ops \ {o}, held \ {"sess_sptr"})
    <2>1. cfg.dst \in Dest
      BY <1>1, ConfigFacts DEF TypeOK
    <2> QED
      BY <1>1, <1>2, <2>1, ConnectThroughChainStep
  <1>3. CASE /\ ops' = (ops \ {o}) \union {Op("readRequest", NoIndex)}
             /\ held' = (held \ {"sess_sptr"}) \union {"read_request_handler"}
             /\ UNCHANGED <<dst, cur>> /\ Unfinished
    <2>1. ops' = {Op("readRequest", NoIndex)} /\ held' = {"read_request_handler"} /\ open' = open
      BY <1>1, <1>3 DEF Unfinished
    <2>2. ops' \subseteq [kind : OpKinds, index : Nat \union {NoIndex}]
      BY <2>1 DEF Op, OpKinds
    <2>3. held' \subseteq Holders
      BY <2>1 DEF OpKinds
    <2>4. TypeOK'
      BY <1>1, <1>3, <2>2, <2>3 DEF TypeOK, Unfinished
    <2>5. Lifetime'
      BY <1>1, <2>1 DEF Lifetime, Op
    <2>6. Undecided' /\ path' = <<>>
      BY <1>1, <1>3 DEF Undecided, Unfinished
    <2>7. Stage(Op("readRequest", NoIndex))'
      BY <2>6 DEF Stage, Op
    <2>8. Outcome'
      BY <2>6, ResultFacts DEF Outcome, FailureNamesHop, Undecided
    <2> QED
      BY <1>1, <2>1, <2>4, <2>5, <2>7, <2>8 DEF SessionInv, StaleOnlyAfterOversizedHop
  <1> QED
    BY <1>2, <1>3 DEF Accepted

LEMMA RequestReadStep ==
  ASSUME NEW o \in ops, SessionInv, RequestRead(o)
  PROVE  SessionInv'
  <1> USE HolderFacts
  <1>1. /\ held \ {"read_request_handler"} = {} /\ stale = FALSE
        /\ o.kind = "readRequest" /\ UNCHANGED <<cfg, asked, told, path>>
        /\ stale' = (stale \/ held' = {})
    BY OneOp DEF RequestRead, Dispatch
  <1>2. PICK d \in Requests :
          ConnectThroughChain(d, ops \ {o}, held \ {"read_request_handler"})
    BY DEF RequestRead
  <1>3. d \in Dest
    BY SessionAssumption
  <1>4. "connect_handler" \in held'
    BY <1>2 DEF ConnectThroughChain
  <1>5. stale' = FALSE
    BY <1>1, <1>4
  <1> QED
    BY <1>1, <1>2, <1>3, <1>5, ConnectThroughChainStep

\* An operation that only hands over to the next of the same attempt.
LEMMA HandOverStep ==
  ASSUME NEW o \in ops, SessionInv, o.kind \in OutputOps,
         NEW kind \in OutputOps,
         ops' = (ops \ {o}) \union {Op(kind, o.index)}, Unfinished,
         UNCHANGED <<cfg, held, dst, cur, asked, told, path, stale>>,
         Stage(Op(kind, o.index))
  PROVE  SessionInv'
  <1> USE HolderFacts
  <1>1. PICK p : p = Op(kind, o.index)
    OBVIOUS
  <1>2. /\ ops' = {p} /\ held = {"connect_handler"} /\ open /\ TypeOK /\ Outcome
        /\ stale = FALSE /\ Stage(p) /\ p.kind = kind /\ o.index \in Nat \union {NoIndex}
    BY <1>1, OneOp DEF Op
  <1>3. ops' \subseteq [kind : OpKinds, index : Nat \union {NoIndex}]
    BY <1>1, <1>2 DEF Op, OpKinds
  <1>4. TypeOK'
    BY <1>2, <1>3 DEF TypeOK, Unfinished
  <1>5. Lifetime'
    BY <1>2 DEF Lifetime, Unfinished
  <1>6. Stage(p)'
    BY <1>2 DEF Stage, Undecided, Reached, Route, NextDest, Unfinished
  <1>7. Outcome'
    BY <1>2 DEF Outcome, FailureNamesHop, Reached, Route, Unfinished
  <1> QED
    BY <1>2, <1>4, <1>5, <1>6, <1>7 DEF SessionInv, StaleOnlyAfterOversizedHop

LEMMA ResolvedStep ==
  ASSUME NEW o \in ops, SessionInv, Resolved(o)
  PROVE  SessionInv'
  <1>1. o.kind = "resolve" /\ Stage(o)
    BY OneOp DEF Resolved, Dispatch
  <1>2. Stage(Op("connect", o.index))
    BY <1>1 DEF Stage, Op
  <1> QED
    BY <1>1, <1>2, HandOverStep DEF Resolved, OutputOps

LEMMA RequestWrittenStep ==
  ASSUME NEW o \in ops, SessionInv, RequestWritten(o)
  PROVE  SessionInv'
  <1>1. o.kind = "writeRequest" /\ Stage(o)
    BY OneOp DEF RequestWritten, Dispatch
  <1>2. Stage(Op("readResponse", o.index))
    BY <1>1 DEF Stage, Op
  <1> QED
    BY <1>1, <1>2, HandOverStep DEF RequestWritten, OutputOps

\* The first connection is made: output starts on the chain, or is done.
LEMMA ConnectedStep ==
  ASSUME NEW o \in ops, SessionInv, Connected(o)
  PROVE  SessionInv'
  <1>1. /\ o.kind = "connect" /\ Stage(o) /\ TypeOK /\ stale' = FALSE
        /\ o.index \in Nat \union {NoIndex}
        /\ path' = <<IF cfg.chain = <<>> THEN dst.host ELSE cfg.chain[1].at.host>>
        /\ ConnectNext(o.index, ops \ {o}, held)
        /\ UNCHANGED <<cfg, dst, cur, told>>
    BY OneOp DEF Connected, Dispatch
  <1>2. /\ Undecided /\ cur = 0 /\ dst \in Dest
        /\ o.index = IF cfg.chain = <<>> THEN NoIndex ELSE 0
    BY <1>1 DEF Stage
  <1>3. Len(cfg.chain) \in Nat /\ (cfg.chain = <<>> <=> Len(cfg.chain) = 0)
        /\ \A i \in 1..Len(cfg.chain) : cfg.chain[i].at \in Dest
    BY <1>1, ConfigFacts DEF TypeOK
  <1>4. path' = <<Route(1)>> /\ Route(1) \in Host
    BY <1>1, <1>2, <1>3 DEF Route, Dest
  <1>5. Route(1)' = Route(1) /\ cur' = 0
    BY <1>1, <1>2 DEF Route
  <1>6. Reached(cur + 1)' /\ path' \in Seq(Host)
    BY <1>4, <1>5 DEF Reached
  <1>7. cur' <= Len(cfg.chain) /\ cur' \in Nat /\ (cur' < Len(cfg.chain) => o.index = cur')
    BY <1>2, <1>3, <1>5
  <1>8. o.kind \in OutputOps
    BY <1>1 DEF OutputOps
  <1>9. /\ TypeOK' /\ Lifetime' /\ Outcome' /\ \A p \in ops' : Stage(p)'
    BY <1>1, <1>2, <1>6, <1>7, <1>8, ConnectNextStep
  <1> QED
    BY <1>1, <1>9 DEF SessionInv, StaleOnlyAfterOversizedHop

\* A hop has connected to what it was asked for, which is the next of the route.
LEMMA HopConnectedStep ==
  ASSUME NEW o \in ops, SessionInv, HopConnected(o)
  PROVE  SessionInv'
  <1>1. /\ o.kind = "readResponse" /\ Stage(o) /\ TypeOK /\ stale = FALSE
        /\ path' = Append(path, asked.host) /\ cur' = cur + 1
        /\ ConnectNext(o.index + 1, ops \ {o}, held)
        /\ UNCHANGED <<cfg, dst, told>> /\ stale' = (stale \/ held' = {})
    BY OneOp DEF HopConnected, Dispatch
  <1>2. /\ Undecided /\ dst \in Dest /\ o.index = cur /\ cur < Len(cfg.chain)
        /\ Reached(cur + 1) /\ asked = NextDest(cur)
    BY <1>1 DEF Stage
  <1>3. Len(cfg.chain) \in Nat /\ \A i \in 1..Len(cfg.chain) : cfg.chain[i].at \in Dest
    BY <1>1, ConfigFacts DEF TypeOK
  <1>4. cur \in Nat /\ path \in Seq(Host)
    BY <1>1 DEF TypeOK
  <1>5. asked.host = Route(cur + 2) /\ asked.host \in Host
    BY <1>2, <1>3, <1>4 DEF NextDest, Route, Dest
  <1>6. path' \in Seq(Host) /\ Len(path') = cur + 2
        /\ \A i \in 1..cur + 2 : path'[i] = Route(i)
    BY <1>1, <1>2, <1>4, <1>5 DEF Reached
  <1>7. \A i \in 1..cur + 2 : Route(i)' = Route(i)
    BY <1>1 DEF Route
  <1>8. Reached(cur + 1)'
    <2>1. cur' + 1 = cur + 2
      BY <1>1, <1>4
    <2> QED
      BY <1>6, <1>7, <2>1 DEF Reached
  <1>9. /\ cur' \in Nat /\ cur' <= Len(cfg.chain) /\ o.index + 1 \in Nat
        /\ o.index + 1 = cur' /\ stale' \in BOOLEAN /\ o.kind \in OutputOps
    BY <1>1, <1>2, <1>3, <1>4 DEF OutputOps
  <1>10. /\ TypeOK' /\ Lifetime' /\ Outcome' /\ \A p \in ops' : Stage(p)'
         /\ (held' = {} <=> ops' = {})
         /\ (ops' = {} => cfg.tunnel /\ cur' < Len(cfg.chain) /\ TooLong(cur'))
    BY <1>1, <1>2, <1>6, <1>8, <1>9, ConnectNextStep
  <1>11. stale' => ops' = {} /\ cfg.tunnel /\ cur' < Len(cfg.chain) /\ TooLong(cur')
    BY <1>1, <1>10
  <1>12. StaleOnlyAfterOversizedHop'
    <2>1. cur' < Len(cfg.chain) => cur' \in 1..Len(cfg.chain) - 1
      BY <1>1, <1>3, <1>4
    <2>2. \A i \in 1..Len(cfg.chain) - 1 : TooLong(i)' <=> TooLong(i)
      BY <1>1 DEF TooLong, NextDest
    <2> QED
      BY <1>1, <1>11, <2>1, <2>2 DEF StaleOnlyAfterOversizedHop
  <1> QED
    BY <1>10, <1>11, <1>12 DEF SessionInv

\* The attempt fails at the hop of the operation that failed.
LEMMA FailureStep ==
  ASSUME NEW o \in ops, SessionInv, o.kind \in OutputOps,
         NEW cr \in Result, cr \notin {NoResult, Success}, cr.success = FALSE,
         cr.major # "Succeeded", cr.index = o.index,
         cr.err = "proxy" => o.kind \in {"writeRequest", "readResponse"},
         UNCHANGED <<cfg, dst, cur, asked, told, path, stale>>,
         ConnectDone(cr, ops \ {o}, held)
  PROVE  SessionInv'
  <1> USE HolderFacts
  <1>1. /\ ops \ {o} = {} /\ held = {"connect_handler"} /\ open /\ TypeOK /\ Stage(o)
        /\ stale = FALSE /\ Outcome
    BY OneOp
  <1>2. told = "nothing" /\ dst \in Dest /\ Undecided
    BY <1>1 DEF Stage, Undecided, OutputOps
  <1>3. /\ result' = cr /\ answer' \in Major /\ history' \subseteq Host /\ log' \in Seq(Host)
        /\ ops' \subseteq [kind : OpKinds, index : Nat \union {NoIndex}]
        /\ held' \subseteq Holders /\ open' \in BOOLEAN
        /\ Lifetime' /\ \A p \in ops' : Stage(p)'
    BY <1>1, <1>2, ConnectDoneStep
  <1>4. TypeOK'
    BY <1>1, <1>3 DEF TypeOK, Result
  <1>5. Len(cfg.chain) \in Nat /\ (cfg.chain = <<>> <=> Len(cfg.chain) = 0) /\ cur \in Nat
    BY <1>1, ConfigFacts DEF TypeOK
  <1>6. \/ /\ o.kind \in {"resolve", "connect"} /\ path = <<>>
           /\ o.index = IF cfg.chain = <<>> THEN NoIndex ELSE 0
        \/ o.index = cur /\ cur < Len(cfg.chain) /\ Reached(cur + 1)
    BY <1>1 DEF Stage, OutputOps
  <1>7. FailureNamesHop'
    <2>1. CASE /\ o.kind \in {"resolve", "connect"} /\ path = <<>>
               /\ o.index = IF cfg.chain = <<>> THEN NoIndex ELSE 0
      <3>1. path' = <<>> /\ cr.err # "proxy"
        BY <2>1
      <3> QED
        BY <1>3, <1>5, <2>1, <3>1 DEF FailureNamesHop
    <2>2. CASE o.index = cur /\ cur < Len(cfg.chain) /\ Reached(cur + 1)
      <3>1. Reached(cur + 1)' /\ path' # <<>>
        BY <1>5, <2>2 DEF Reached, Route
      <3>2. result'.index = cur' /\ result'.index \in 0..Len(cfg.chain) - 1
            /\ cfg'.chain # <<>>
        BY <1>3, <1>5, <2>2
      <3> QED
        BY <3>1, <3>2 DEF FailureNamesHop
    <2> QED
      BY <1>6, <2>1, <2>2
  <1>8. Len(path') <= Len(cfg'.chain)
    BY <1>5, <1>6 DEF Reached
  <1>9. Outcome'
    BY <1>2, <1>3, <1>7, <1>8 DEF Outcome
  <1> QED
    BY <1>1, <1>3, <1>4, <1>9 DEF SessionInv, StaleOnlyAfterOversizedHop

LEMMA OutputFailsStep ==
  ASSUME NEW o \in ops, SessionInv, OutputFails(o)
  PROVE  SessionInv'
  <1>1. PICK err \in Error :
          /\ err = "proxy" => o.kind \notin {"resolve", "connect"}
          /\ ConnectDone(FailedWith(err, o.index), ops \ {o}, held)
    BY DEF OutputFails
  <1>2. o.kind \in OutputOps /\ UNCHANGED <<cfg, dst, cur, asked, told, path, stale>>
    BY DEF OutputFails
  <1>3. o.index \in Nat \union {NoIndex}
        /\ (err = "proxy" => o.kind \in {"writeRequest", "readResponse"})
    BY <1>1, <1>2, OneOp DEF OutputOps
  <1> DEFINE cr == FailedWith(err, o.index)
  <1>4. /\ cr \in Result /\ cr \notin {NoResult, Success} /\ cr.success = FALSE
        /\ cr.major # "Succeeded" /\ cr.index = o.index /\ cr.err = err
    <2>1. o.index \in Nat \union {NoIndex}
      BY <1>3
    <2> QED
      BY <2>1, ResultFacts, ResultTypes
  <1>5. ConnectDone(cr, ops \ {o}, held)
    BY <1>1
  <1> HIDE DEF cr
  <1> QED
    BY <1>2, <1>3, <1>4, <1>5, FailureStep

LEMMA HopRefusesStep ==
  ASSUME NEW o \in ops, SessionInv, HopRefuses(o)
  PROVE  SessionInv'
  <1>1. PICK major \in Major \ {"Succeeded"} :
          ConnectDone(RefusedBy(o.index, major), ops \ {o}, held)
    BY DEF HopRefuses
  <1>2. o.kind = "readResponse" /\ UNCHANGED <<cfg, dst, cur, asked, told, path, stale>>
    BY DEF HopRefuses, Dispatch
  <1>3. o.index \in Nat /\ o.kind \in OutputOps
    BY <1>2, OneOp DEF Stage, TypeOK, OutputOps
  <1> DEFINE cr == RefusedBy(o.index, major)
  <1>4. /\ cr \in Result /\ cr \notin {NoResult, Success} /\ cr.success = FALSE
        /\ cr.major # "Succeeded" /\ cr.index = o.index /\ cr.err = "none"
    BY <1>3, ResultFacts, ResultTypes
  <1>5. ConnectDone(cr, ops \ {o}, held)
    BY <1>1
  <1> HIDE DEF cr
  <1> QED
    BY <1>2, <1>3, <1>4, <1>5, FailureStep

\* The client has its answer: relay, or close.
LEMMA AnswerWrittenStep ==
  ASSUME NEW o \in ops, SessionInv, AnswerWritten(o)
  PROVE  SessionInv'
  <1> USE HolderFacts
  <1>1. /\ o.kind = "writeResponse" /\ ops \ {o} = {} /\ held \ {"write_response_handler"} = {}
        /\ open /\ TypeOK /\ Stage(o) /\ Outcome /\ stale' = FALSE
        /\ told' = answer
        /\ UNCHANGED <<cfg, dst, cur, asked, result, answer, path, history, log, stale>>
    BY OneOp DEF AnswerWritten, Dispatch
  <1>2. result \in Result /\ answer = AnswerFor(result) /\ result # NoResult
    BY <1>1 DEF Stage, TypeOK, Result
  <1>3. told' \in Major /\ (told' = "Succeeded" <=> result.success)
    <2>1. result.success => answer = "Succeeded"
      BY <1>2 DEF AnswerFor
    <2>2. ~result.success => result.major # "Succeeded"
      BY <1>1 DEF Outcome
    <2>3. \A err : ErrorToMajor(err) # "Succeeded"
      BY DEF ErrorToMajor
    <2>4. ~result.success => answer # "Succeeded"
      BY <1>2, <2>2, <2>3 DEF AnswerFor
    <2> QED
      BY <1>1, <2>1, <2>4 DEF TypeOK
  <1>4. told' # "nothing"
    BY <1>3 DEF Major
  <1>5. Outcome'
    BY <1>1, <1>2, <1>3, <1>4 DEF Outcome, FailureNamesHop, Reached, Route
  <1>6. CASE result.success /\ MakeTunnel(ops \ {o}, held \ {"write_response_handler"})
    <2>1. ops' = {Op("tunnel", NoIndex)} /\ held' = {"tunnel_operations"} /\ open' = open
      BY <1>1, <1>6 DEF MakeTunnel
    <2>2. Stage(Op("tunnel", NoIndex))'
      BY <1>1, <1>3, <1>6 DEF Stage, Op
    <2>3. Lifetime'
      BY <1>1, <2>1 DEF Lifetime, Op
    <2>4. ops' \subseteq [kind : OpKinds, index : Nat \union {NoIndex}]
      BY <2>1 DEF Op, OpKinds
    <2>5. held' \subseteq Holders
      BY <2>1 DEF OpKinds
    <2>6. TypeOK'
      BY <1>1, <1>3, <2>1, <2>4, <2>5 DEF TypeOK
    <2> QED
      BY <1>1, <1>5, <2>1, <2>2, <2>3, <2>6 DEF SessionInv, StaleOnlyAfterOversizedHop
  <1>7. CASE CloseAll(ops \ {o}, held \ {"write_response_handler"})
    <2>1. ops' = {} /\ held' = {} /\ open' = FALSE
      BY <1>1, <1>7 DEF CloseAll
    <2>2. TypeOK'
      BY <1>1, <1>3, <2>1 DEF TypeOK
    <2>3. Lifetime'
      BY <2>1 DEF Lifetime
    <2> QED
      BY <1>1, <1>5, <2>1, <2>2, <2>3 DEF SessionInv, StaleOnlyAfterOversizedHop
  <1> QED
    BY <1>6, <1>7 DEF AnswerWritten, AfterAnswer

-----------------------------------------------------------------------------
(* The invariant, and what follows from it.                                 *)

LEMMA SessionInvStep == SessionInv /\ [Next]_vars => SessionInv'
  <1> SUFFICES ASSUME SessionInv, [Next]_vars PROVE SessionInv'
    OBVIOUS
  <1>1. ASSUME NEW o \in ops, Handshake(o) \/ TunnelEnds(o)
        PROVE  SessionInv'
    <2> USE <1>1, HolderFacts
    <2>1. CASE AcceptFails(o)
      BY <2>1, CloseStep DEF AcceptFails, Dispatch
    <2>2. CASE RequestFails(o)
      BY <2>2, CloseStep DEF RequestFails, Dispatch
    <2>3. CASE AnswerFails(o)
      BY <2>3, CloseStep DEF AnswerFails, Dispatch
    <2>4. CASE TunnelEnds(o)
      BY <2>4, CloseStep DEF TunnelEnds, Dispatch
    <2>5. CASE Accepted(o)
      BY <2>5, AcceptedStep
    <2>6. CASE RequestRead(o)
      BY <2>6, RequestReadStep
    <2>7. CASE Resolved(o)
      BY <2>7, ResolvedStep
    <2>8. CASE Connected(o)
      BY <2>8, ConnectedStep
    <2>9. CASE RequestWritten(o)
      BY <2>9, RequestWrittenStep
    <2>10. CASE HopConnected(o)
      BY <2>10, HopConnectedStep
    <2>11. CASE HopRefuses(o)
      BY <2>11, HopRefusesStep
    <2>12. CASE OutputFails(o)
      BY <2>12, OutputFailsStep
    <2>13. CASE AnswerWritten(o)
      BY <2>13, AnswerWrittenStep
    <2> QED
      BY <2>1, <2>2, <2>3, <2>4, <2>5, <2>6, <2>7, <2>8, <2>9, <2>10, <2>11, <2>12,
         <2>13 DEF Handshake
  <1>2. CASE UNCHANGED vars
    <2>1. TypeOK'
      BY <1>2 DEF SessionInv, TypeOK, vars
    <2>2. Lifetime'
      BY <1>2 DEF SessionInv, Lifetime, vars
    <2>3. \A o \in ops' : Stage(o)'
      BY <1>2 DEF SessionInv, Stage, Undecided, Reached, Route, NextDest, vars
    <2>4. Outcome'
      BY <1>2 DEF SessionInv, Outcome, FailureNamesHop, Reached, Route, vars
    <2>5. StaleOnlyAfterOversizedHop' /\ (stale' => ops' = {})
      BY <1>2 DEF SessionInv, StaleOnlyAfterOversizedHop, TooLong, NextDest, vars
    <2> QED
      BY <2>1, <2>2, <2>3, <2>4, <2>5 DEF SessionInv
  <1> QED
    BY <1>1, <1>2 DEF Next

\* The stage of the one outstanding operation, what keeps the session alive
\* and what the result means (session.cpp, output.cpp) are always as stated.
THEOREM SessionInvariant == Spec => []SessionInv
  BY SessionInvInit, SessionInvStep, PTL DEF Spec

\* Every field keeps its type; cur_proxy_ in particular never goes negative.
THEOREM SessionTypeCorrect == Spec => []TypeOK
  <1>1. SessionInv => TypeOK
    BY DEF SessionInv
  <1> QED
    BY <1>1, SessionInvariant, PTL

\* No two operations of the handshake are ever outstanding together, as
\* proxy/client_session.h:31 demands of the user of a proxy session.
THEOREM OneOperationAtATime == Spec => []OneOperation
  <1>1. SessionInv => OneOperation
    <2> SUFFICES ASSUME SessionInv PROVE Cardinality(ops) <= 1
      BY DEF OneOperation
    <2>1. CASE ops = {}
      BY <2>1, FS_EmptySet
    <2>2. CASE \E o \in ops : ops = {o}
      BY <2>2, FS_Singleton
    <2> QED
      BY <2>1, <2>2 DEF SessionInv, Lifetime
  <1> QED
    BY <1>1, SessionInvariant, PTL

\* The shared_ptrs to the session are exactly those of what is outstanding.
THEOREM HeldExactlyWhileUsed == Spec => []HeldWhileUsed
  <1>1. SessionInv => HeldWhileUsed
    <2> SUFFICES ASSUME SessionInv PROVE HeldWhileUsed
      OBVIOUS
    <2>1. CASE ops = {} /\ held = {} /\ ~open
      BY <2>1 DEF HeldWhileUsed
    <2>2. CASE (\E o \in ops : ops = {o} /\ held = {Holder(o.kind)}) /\ open
      BY <2>2 DEF HeldWhileUsed
    <2> QED
      BY <2>1, <2>2 DEF SessionInv, Lifetime
  <1> QED
    BY <1>1, SessionInvariant, PTL

\* However long the chain, every hop gets the request meant for it.
THEOREM RequestsMeetTheirHops == Spec => []RequestMeetsItsHop
  <1>1. SessionInv => RequestMeetsItsHop
    <2> SUFFICES ASSUME SessionInv, NEW o \in ops, o.kind \in {"writeRequest", "readResponse"}
                 PROVE  /\ o.index = cur /\ cur < Len(cfg.chain)
                        /\ Reached(cur + 1) /\ asked.host = Route(cur + 2)
      BY DEF RequestMeetsItsHop
    <2>1. /\ o.index = cur /\ cur < Len(cfg.chain) /\ Reached(cur + 1)
          /\ asked = NextDest(cur)
      BY DEF SessionInv, Stage
    <2>2. cur \in Nat /\ Len(cfg.chain) \in Nat
      BY ConfigFacts DEF SessionInv, TypeOK
    <2>3. asked.host = Route(cur + 2)
      BY <2>1, <2>2 DEF NextDest, Route
    <2> QED
      BY <2>1, <2>3
  <1> QED
    BY <1>1, SessionInvariant, PTL

\* Bytes are relayed only over the whole chain, to the destination asked for.
THEOREM TunnelsReachDestination == Spec => []TunnelReachesDestination
  <1>1. SessionInv => TunnelReachesDestination
    BY DEF SessionInv, TunnelReachesDestination, Stage, Outcome
  <1> QED
    BY <1>1, SessionInvariant, PTL

\* chain_fail_index never leads handle_connect_output outside the chain.
THEOREM FailuresNameHops == Spec => []FailureNamesHop
  <1>1. SessionInv => FailureNamesHop
    BY DEF SessionInv, Outcome
  <1> QED
    BY <1>1, SessionInvariant, PTL

\* The client of the proxy is told the truth about its connection.
THEOREM AnswersAreTrue == Spec => []AnswerIsTrue
  <1>1. SessionInv => AnswerIsTrue
    <2> SUFFICES ASSUME SessionInv, told # "nothing"
                 PROVE  told = "Succeeded" <=> Reached(Len(cfg.chain) + 1)
      BY DEF AnswerIsTrue
    <2>1. told = "Succeeded" <=> result.success
      BY DEF SessionInv, Outcome
    <2>2. result.success => Reached(Len(cfg.chain) + 1)
      BY DEF SessionInv, Outcome
    <2>3. ~result.success => Len(path) <= Len(cfg.chain)
      BY ResultFacts DEF SessionInv, Outcome
    <2>4. Len(cfg.chain) \in Nat /\ Len(path) \in Nat
      BY ConfigFacts DEF SessionInv, TypeOK
    <2> QED
      BY <2>1, <2>2, <2>3, <2>4 DEF Reached
  <1> QED
    BY <1>1, SessionInvariant, PTL

\* A released object is touched only where an oversized hop makes output
\* fail from within its own handler (client_session_socks5.cpp:380).
THEOREM StaleOnlyAfterOversized == Spec => []StaleOnlyAfterOversizedHop
  <1>1. SessionInv => StaleOnlyAfterOversizedHop
    BY DEF SessionInv
  <1> QED
    BY <1>1, SessionInvariant, PTL

-----------------------------------------------------------------------------
(* The session implements Forwarding: its steps on the way along the chain  *)
(* change nothing there, and every other one is one of its actions.         *)

\* What the outstanding operations are to the client.
LEMMA PhaseFacts ==
  /\ Phase({}) = "gone"
  /\ \A o : /\ o.kind \in {"accept", "readRequest"} => Phase({o}) = "waiting"
            /\ o.kind \in OutputOps => Phase({o}) = "connecting"
            /\ o.kind = "writeResponse" => Phase({o}) = "answering"
            /\ o.kind = "tunnel" => Phase({o}) = "relaying"
  BY DEF Phase, OutputOps

LEMMA PhaseOfOp ==
  ASSUME NEW i
  PROVE  /\ \A k \in OutputOps : Phase({Op(k, i)}) = "connecting"
         /\ Phase({Op("writeResponse", i)}) = "answering"
         /\ Phase({Op("tunnel", i)}) = "relaying"
  <1>1. \A k : Op(k, i).kind = k
    BY DEF Op
  <1> HIDE DEF Op
  <1>2. ASSUME NEW k \in OutputOps PROVE Phase({Op(k, i)}) = "connecting"
    BY <1>1, PhaseFacts
  <1>3. Phase({Op("writeResponse", i)}) = "answering" /\ Phase({Op("tunnel", i)}) = "relaying"
    <2>1. Op("writeResponse", i).kind = "writeResponse" /\ Op("tunnel", i).kind = "tunnel"
      BY <1>1
    <2> QED
      BY <2>1, PhaseFacts
  <1> QED
    BY <1>2, <1>3

\* A connection that is short of the destination is not complete.
LEMMA NotComplete ==
  ASSUME TypeOK, Len(path) <= Len(cfg.chain)
  PROVE  ~Complete
  <1>1. Len(path) \in Nat /\ Len(cfg.chain) \in Nat
    BY ConfigFacts DEF TypeOK
  <1> QED
    BY <1>1 DEF Complete, Reached

\* An attempt that is under way has not reached the destination yet; once it
\* is decided, success means a complete connection.
Progress ==
  /\ \A o \in ops : o.kind \in {"accept", "readRequest"} \union OutputOps =>
       ~Complete /\ told = "nothing"
  /\ result # NoResult => (result.success <=> Complete)

LEMMA ProgressHolds == SessionInv => Progress
  <1> SUFFICES ASSUME SessionInv PROVE Progress
    OBVIOUS
  <1>1. ASSUME NEW o \in ops, o.kind \in {"accept", "readRequest"} \union OutputOps
        PROVE  ~Complete /\ told = "nothing"
    <2>1. Stage(o) /\ TypeOK /\ Len(cfg.chain) \in Nat /\ cur \in Nat
      BY OneOp, ConfigFacts DEF TypeOK
    <2>2. told = "nothing" /\ Len(path) <= Len(cfg.chain)
      BY <1>1, <2>1 DEF Stage, Undecided, OutputOps, Reached
    <2> QED
      BY <2>1, <2>2, NotComplete
  <1>2. result.success => Complete
    BY DEF SessionInv, Outcome, Complete
  <1>3. result # NoResult /\ ~result.success => ~Complete
    BY ResultFacts, NotComplete DEF SessionInv, Outcome
  <1> QED
    BY <1>1, <1>2, <1>3 DEF Progress

LEMMA ProgressStays == SessionInv' => Progress'
  BY ProgressHolds, PTL

\* Completeness is a matter of the configuration, the destination and the path.
LEMMA CompleteUnchanged ==
  ASSUME UNCHANGED <<cfg, dst, path>>
  PROVE  Complete' = Complete
  BY DEF Complete, Reached, Route

\* A session that waits to be accepted has promised nothing yet.
LEMMA PromiseInit == Init => Promise!Init
  <1> SUFFICES ASSUME Init PROVE Promise!Init
    OBVIOUS
  <1>1. cfg.tunnel \in BOOLEAN /\ Len(cfg.chain) \in Nat
    BY ConfigFacts, SessionAssumption DEF Init, Config
  <1>2. Phase(ops) = "waiting"
    BY PhaseFacts DEF Init, Op
  <1>3. ~Complete
    BY <1>1 DEF Init, Complete, Reached
  <1> QED
    BY <1>1, <1>2, <1>3 DEF Init, Promise!Init, Learned, NoDest

\* A step that the client cannot see.
LEMMA UnseenKeeps ==
  ASSUME UNCHANGED <<cfg, dst, told, history, log>>, Phase(ops') = Phase(ops),
         Complete' = Complete
  PROVE  UNCHANGED Promise!vars
  <1>1. Phase(ops)' = Phase(ops')
    BY DEF Phase
  <1> QED
    BY <1>1 DEF Promise!vars, Learned

\* handle_connect_output: the attempt is over, with a connection or without.
LEMMA DecidedKeeps ==
  ASSUME SessionInv, SessionInv', NEW o \in ops, o.kind \in OutputOps,
         NEW cr, cr # NoResult, cr.success \in BOOLEAN,
         ConnectDone(cr, ops \ {o}, held), UNCHANGED <<cfg, dst, told>>
  PROVE  Promise!Next
  <1>1. /\ ops \ {o} = {} /\ held \ {"connect_handler"} = {} /\ ops = {o}
        /\ cfg.tunnel \in BOOLEAN
    BY OneOp, HolderFacts, SessionAssumption DEF TypeOK, Config
  <1>2. ~Complete /\ Learned = "nothing" /\ Phase(ops) = "connecting"
    BY <1>1, ProgressHolds, PhaseFacts DEF Progress, Learned
  <1>3. cr.success <=> Complete'
    BY ProgressStays DEF Progress, ConnectDone
  <1>4. Learned' = Learned /\ Complete' \in BOOLEAN
    BY DEF Learned, Complete, Reached
  <1>5. Phase(ops)' = Phase(ops')
    BY DEF Phase
  <1>6. Phase(ops') = IF cfg.tunnel THEN IF cr.success THEN "relaying" ELSE "gone"
                                    ELSE "answering"
    <2>1. CASE cfg.tunnel /\ cr.success
      <3>1. ops' = {Op("tunnel", NoIndex)}
        BY <1>1, <2>1 DEF ConnectDone, WriteAnswer, AfterAnswer, MakeTunnel
      <3> QED
        BY <2>1, <3>1, PhaseOfOp
    <2>2. CASE cfg.tunnel /\ ~cr.success
      <3>1. ops' = {}
        BY <1>1, <2>2 DEF ConnectDone, WriteAnswer, AfterAnswer, CloseAll
      <3> QED
        BY <2>2, <3>1, PhaseFacts
    <2>3. CASE ~cfg.tunnel
      <3>1. ops' = {Op("writeResponse", NoIndex)}
        BY <1>1, <2>3 DEF ConnectDone, WriteAnswer
      <3> QED
        BY <2>3, <3>1, PhaseOfOp
    <2> QED
      BY <2>1, <2>2, <2>3
  <1>7. CASE cr.success
    <2>1. /\ history' = history \union {dst.host}
          /\ log' = IF dst.host \in history THEN log ELSE Append(log, dst.host)
      BY <1>7 DEF ConnectDone, RecordHistory
    <2>2. Complete' = TRUE
      BY <1>3, <1>4, <1>7
    <2> QED
      BY <1>2, <1>4, <1>5, <1>6, <1>7, <2>1, <2>2 DEF Promise!Next, Promise!Connects
  <1>8. CASE ~cr.success
    <2>1. UNCHANGED <<history, log>>
      BY <1>8 DEF ConnectDone, RecordHistory
    <2>2. Complete' = Complete
      BY <1>2, <1>3, <1>4, <1>8 DEF Complete, Reached
    <2> QED
      BY <1>2, <1>4, <1>5, <1>6, <1>8, <2>1, <2>2 DEF Promise!Next, Promise!GivesUp
  <1> QED
    BY <1>7, <1>8

\* connect_next: the next hop is asked, unseen, or the attempt is decided.
LEMMA ConnectNextKeeps ==
  ASSUME SessionInv, SessionInv', NEW o \in ops, o.kind \in OutputOps,
         NEW index \in Nat \union {NoIndex}, cur' < Len(cfg.chain) => index \in Nat,
         ConnectNext(index, ops \ {o}, held), UNCHANGED <<cfg, dst, told>>
  PROVE  [Promise!Next]_(Promise!vars)
  <1>1. CASE ConnectDone(Success, ops \ {o}, held)
    BY <1>1, ResultFacts, DecidedKeeps
  <1>2. CASE ConnectDone(FailedWith("proxy", index), ops \ {o}, held)
    <2>1. /\ FailedWith("proxy", index) # NoResult
          /\ FailedWith("proxy", index).success \in BOOLEAN
      BY ResultFacts DEF Error
    <2> QED
      BY <1>2, <2>1, DecidedKeeps
  <1>3. CASE ops' = (ops \ {o}) \union {Op("writeRequest", index)} /\ Unfinished
    <2>1. ops = {o} /\ ops' = {Op("writeRequest", index)}
      BY <1>3, OneOp
    <2>2. Phase(ops') = "connecting" /\ Phase(ops) = "connecting"
      BY <2>1, PhaseFacts, PhaseOfOp DEF OutputOps
    <2>3. ~Complete /\ ~Complete'
      BY <2>1, ProgressHolds, ProgressStays DEF Progress, Op, OutputOps
    <2>4. Complete' = Complete
      BY <2>3 DEF Complete, Reached
    <2> QED
      BY <1>3, <2>2, <2>4, UnseenKeeps DEF Unfinished
  <1> QED
    BY <1>1, <1>2, <1>3 DEF ConnectNext

\* connect_through_chain: the destination is known.
LEMMA ConnectThroughChainKeeps ==
  ASSUME SessionInv, SessionInv', NEW o \in ops, o.kind \in {"accept", "readRequest"},
         NEW d \in Dest, NEW refs, ConnectThroughChain(d, ops \ {o}, refs),
         UNCHANGED <<cfg, told, path>>
  PROVE  Promise!Next
  <1>1. ops = {o} /\ Phase(ops) = "waiting"
    BY OneOp, PhaseFacts
  <1>2. PICK k \in {"resolve", "connect"}, i \in {NoIndex, 0} : ops' = {Op(k, i)}
    BY <1>1 DEF ConnectThroughChain
  <1>3. Phase(ops') = "connecting" /\ Op(k, i).kind \in OutputOps
    <2>1. k \in OutputOps /\ Op(k, i).kind = k
      BY DEF Op, OutputOps
    <2> QED
      BY <1>2, <2>1, PhaseOfOp
  <1>4. Phase(ops)' = Phase(ops') /\ Learned' = Learned
    BY DEF Phase, Learned
  <1>5. ~Complete /\ ~Complete'
    BY <1>2, <1>3, ProgressHolds, ProgressStays DEF Progress
  <1>6. Complete' = Complete
    BY <1>5 DEF Complete, Reached
  <1>7. dst'.host \in Host /\ UNCHANGED <<history, log>>
    BY DEF ConnectThroughChain, Unfinished, Dest
  <1> QED
    BY <1>1, <1>3, <1>4, <1>6, <1>7 DEF Promise!Next, Promise!Ask

\* close_all() outside an attempt, and the relay's end.
LEMMA CloseKeeps ==
  ASSUME SessionInv, NEW o \in ops, o.kind \notin OutputOps, NEW refs,
         CloseAll(ops \ {o}, refs), UNCHANGED <<cfg, dst, told, path, history, log>>
  PROVE  Promise!Next
  <1>1. ops = {o} /\ o.kind \in OpKinds /\ ops' = {}
    BY OneOp DEF CloseAll
  <1>2. Phase(ops) \in {"waiting", "answering", "relaying"} /\ Phase(ops') = "gone"
    BY <1>1, PhaseFacts DEF OpKinds
  <1>3. Phase(ops)' = Phase(ops') /\ Learned' = Learned
    BY DEF Phase, Learned
  <1> QED
    BY <1>2, <1>3, CompleteUnchanged DEF Promise!Next, Promise!Ends

\* The client has its answer, and a complete connection is relayed.
LEMMA AnswerWrittenKeeps ==
  ASSUME SessionInv, NEW o \in ops, AnswerWritten(o), told' # "nothing",
         told' = "Succeeded" <=> result.success
  PROVE  Promise!Next
  <1>1. /\ ops = {o} /\ ops \ {o} = {} /\ Phase(ops) = "answering" /\ result # NoResult
        /\ o.kind = "writeResponse"
    BY OneOp, PhaseFacts DEF AnswerWritten, Dispatch, Stage
  <1>2. result.success <=> Complete
    BY <1>1, ProgressHolds DEF Progress
  <1>3. Learned' = IF Complete THEN "yes" ELSE "no"
    BY <1>2 DEF Learned
  <1>4. Phase(ops') = IF Complete THEN "relaying" ELSE "gone"
    <2>1. CASE result.success
      <3>1. ops' = {Op("tunnel", NoIndex)}
        BY <1>1, <2>1 DEF AnswerWritten, AfterAnswer, MakeTunnel
      <3> QED
        BY <1>2, <2>1, <3>1, PhaseOfOp
    <2>2. CASE ~result.success
      <3>1. ops' = {}
        BY <1>1, <2>2 DEF AnswerWritten, AfterAnswer, CloseAll
      <3> QED
        BY <1>2, <2>2, <3>1, PhaseFacts
    <2> QED
      BY <2>1, <2>2
  <1>5. Phase(ops)' = Phase(ops') /\ Complete' = Complete
    BY CompleteUnchanged DEF Phase, AnswerWritten
  <1>6. UNCHANGED <<cfg, dst, history, log>>
    BY DEF AnswerWritten
  <1> QED
    BY <1>1, <1>3, <1>4, <1>5, <1>6 DEF Promise!Next, Promise!Answer

LEMMA PromiseStep ==
  ASSUME SessionInv, SessionInv', [Next]_vars
  PROVE  [Promise!Next]_(Promise!vars)
  <1>1. ASSUME NEW o \in ops, Handshake(o) \/ TunnelEnds(o)
        PROVE  [Promise!Next]_(Promise!vars)
    <2>0. /\ o.index \in Nat \union {NoIndex} /\ Stage(o) /\ TypeOK /\ ops = {o}
          /\ cfg.tunnel \in BOOLEAN
      BY OneOp, SessionAssumption DEF TypeOK, Config
    <2>1. CASE Accepted(o)
      <3>1. o.kind = "accept" /\ UNCHANGED <<cfg, told, path>>
        BY <2>1 DEF Accepted, Dispatch
      <3>2. CASE ConnectThroughChain(cfg.dst, ops \ {o}, held \ {"sess_sptr"})
        BY <2>0, <3>1, <3>2, ConfigFacts, ConnectThroughChainKeeps DEF TypeOK
      <3>3. CASE /\ ops' = (ops \ {o}) \union {Op("readRequest", NoIndex)}
                 /\ UNCHANGED <<dst, cur>> /\ Unfinished
        <4>1. ops' = {Op("readRequest", NoIndex)}
          BY <2>0, <3>3
        <4>2. Phase(ops') = "waiting" /\ Phase(ops) = "waiting"
          BY <2>0, <3>1, <4>1, PhaseFacts DEF Op
        <4> QED
          BY <3>1, <3>3, <4>2, CompleteUnchanged, UnseenKeeps DEF Unfinished
      <3> QED
        BY <2>1, <3>2, <3>3 DEF Accepted
    <2>2. CASE RequestRead(o)
      <3>1. o.kind = "readRequest" /\ UNCHANGED <<cfg, told, path>>
        BY <2>2 DEF RequestRead, Dispatch
      <3>2. PICK d \in Requests :
              ConnectThroughChain(d, ops \ {o}, held \ {"read_request_handler"})
        BY <2>2 DEF RequestRead
      <3>3. d \in Dest
        BY SessionAssumption
      <3> QED
        BY <3>1, <3>2, <3>3, ConnectThroughChainKeeps
    <2>3. CASE AcceptFails(o) \/ RequestFails(o) \/ AnswerFails(o) \/ TunnelEnds(o)
      BY <2>3, CloseKeeps
         DEF AcceptFails, RequestFails, AnswerFails, TunnelEnds, Dispatch, OutputOps
    <2>4. CASE Resolved(o) \/ RequestWritten(o)
      <3>1. PICK k \in OutputOps : ops' = {Op(k, o.index)}
        BY <2>0, <2>4 DEF Resolved, RequestWritten, OutputOps
      <3>2. Phase(ops') = "connecting" /\ Phase(ops) = "connecting"
        BY <2>0, <2>4, <3>1, PhaseFacts, PhaseOfOp
           DEF Resolved, RequestWritten, Dispatch, OutputOps
      <3>3. UNCHANGED <<cfg, dst, told, path, history, log>>
        BY <2>4 DEF Resolved, RequestWritten, Unfinished
      <3> QED
        BY <3>2, <3>3, CompleteUnchanged, UnseenKeeps
    <2>5. CASE Connected(o)
      <3>1. /\ o.kind = "connect" /\ UNCHANGED <<cfg, dst, cur, told>>
            /\ ConnectNext(o.index, ops \ {o}, held)
        BY <2>5 DEF Connected, Dispatch
      <3>2. cur = 0 /\ o.index = IF cfg.chain = <<>> THEN NoIndex ELSE 0
        BY <2>0, <3>1 DEF Stage
      <3>3. cur' < Len(cfg.chain) => o.index \in Nat
        BY <2>0, <3>1, <3>2, ConfigFacts DEF TypeOK
      <3> QED
        BY <2>0, <3>1, <3>3, ConnectNextKeeps DEF OutputOps
    <2>6. CASE HopConnected(o)
      <3>1. /\ o.kind = "readResponse" /\ UNCHANGED <<cfg, dst, told>>
            /\ ConnectNext(o.index + 1, ops \ {o}, held)
        BY <2>6 DEF HopConnected, Dispatch
      <3>2. o.index = cur /\ cur \in Nat
        BY <2>0, <3>1 DEF Stage, TypeOK
      <3>3. o.index + 1 \in Nat
        BY <3>2
      <3> QED
        BY <3>1, <3>3, ConnectNextKeeps DEF OutputOps
    <2>7. CASE HopRefuses(o)
      <3>1. o.kind = "readResponse" /\ UNCHANGED <<cfg, dst, told>>
        BY <2>7 DEF HopRefuses, Dispatch
      <3>2. PICK major \in Major \ {"Succeeded"} :
              ConnectDone(RefusedBy(o.index, major), ops \ {o}, held)
        BY <2>7 DEF HopRefuses
      <3>3. o.index \in Nat
        BY <2>0, <3>1 DEF Stage, TypeOK
      <3> DEFINE cr == RefusedBy(o.index, major)
      <3>4. cr # NoResult /\ cr.success \in BOOLEAN
        <4>1. cr \notin {NoResult, Success} /\ cr.success = FALSE
          BY <3>3, ResultFacts
        <4> QED
          BY <4>1
      <3>5. ConnectDone(cr, ops \ {o}, held)
        BY <3>2
      <3> HIDE DEF cr
      <3> QED
        BY <3>1, <3>4, <3>5, DecidedKeeps DEF OutputOps
    <2>8. CASE OutputFails(o)
      <3>1. o.kind \in OutputOps /\ UNCHANGED <<cfg, dst, told>>
        BY <2>8 DEF OutputFails
      <3>2. PICK err \in Error : ConnectDone(FailedWith(err, o.index), ops \ {o}, held)
        BY <2>8 DEF OutputFails
      <3> DEFINE cr == FailedWith(err, o.index)
      <3>3. cr # NoResult /\ cr.success \in BOOLEAN
        <4>1. o.index \in Nat \union {NoIndex}
          BY <2>0
        <4> QED
          BY <4>1, ResultFacts
      <3>4. ConnectDone(cr, ops \ {o}, held)
        BY <3>2
      <3> HIDE DEF cr
      <3> QED
        BY <3>1, <3>3, <3>4, DecidedKeeps
    <2>9. CASE AnswerWritten(o)
      <3>1. told' = answer /\ answer = AnswerFor(result) /\ result \in Result
        BY <2>0, <2>9 DEF AnswerWritten, Dispatch, Stage, TypeOK, Result
      <3>2. ~result.success => result.major # "Succeeded"
        BY DEF SessionInv, Outcome
      <3>3. told' = "Succeeded" <=> result.success
        BY <3>1, <3>2 DEF AnswerFor, ErrorToMajor
      <3>4. told' # "nothing"
        BY <3>1, AnswerTypes DEF Major
      <3> QED
        BY <2>9, <3>3, <3>4, AnswerWrittenKeeps
    <2> QED
      BY <1>1, <2>1, <2>2, <2>3, <2>4, <2>5, <2>6, <2>7, <2>8, <2>9 DEF Handshake
  <1>2. CASE UNCHANGED vars
    <2>1. UNCHANGED <<cfg, dst, told, path, history, log>> /\ ops' = ops
      BY <1>2 DEF vars
    <2> QED
      BY <2>1, CompleteUnchanged, UnseenKeeps
  <1> QED
    BY <1>1, <1>2 DEF Next

\* However long the chain and wherever it breaks, one session makes one
\* attempt at one destination and tells its client truly how it went
\* (session.cpp, input.cpp and output.cpp).
THEOREM SessionKeepsPromise == Spec => KeepsPromise
  <1>1. SessionInv /\ SessionInv' /\ [Next]_vars => [Promise!Next]_(Promise!vars)
    BY PromiseStep
  <1> QED
    BY <1>1, PromiseInit, SessionInvariant, PTL DEF Spec, KeepsPromise, Promise!Spec

-----------------------------------------------------------------------------
(* Every completion counts: the measure behind Settles, which is its        *)
(* liveness part, for chains of any length.                                 *)

\* The steps of an outstanding operation, where the invariant has it.
LEMMA StepsFacts ==
  ASSUME TypeOK
  PROVE  /\ \A o : ops = {o} => StepsLeft = StepsOf(o)
         /\ \A o \in ops : Stage(o) => StepsOf(o) \in Nat
         /\ Len(cfg.chain) \in Nat
  <1>1. Len(cfg.chain) \in Nat /\ cur \in Nat
    BY ConfigFacts DEF TypeOK
  <1>2. ASSUME NEW o, ops = {o} PROVE StepsLeft = StepsOf(o)
    <2>1. (CHOOSE p \in ops : TRUE) = o /\ ops # {}
      BY <1>2
    <2> QED
      BY <2>1 DEF StepsLeft
  <1>3. ASSUME NEW o \in ops, Stage(o) PROVE StepsOf(o) \in Nat
    <2>1. o.kind \in OpKinds
      BY DEF TypeOK
    <2>2. CASE o.kind \in {"writeRequest", "readResponse"}
      <3>1. Len(cfg.chain) - cur \in Nat
        BY <1>1, <1>3, <2>2 DEF Stage
      <3> QED
        BY <2>2, <3>1 DEF StepsOf
    <2>3. CASE o.kind \notin {"writeRequest", "readResponse"}
      BY <1>1, <2>1, <2>3 DEF StepsOf, OpKinds, OutputOps
    <2> QED
      BY <2>2, <2>3
  <1> QED
    BY <1>1, <1>2, <1>3

\* What is left is a number, and 0 only when nothing of the handshake is.
Counted ==
  /\ StepsLeft \in Nat
  /\ \A o \in ops : StepsLeft = StepsOf(o)
  /\ Len(cfg.chain) \in Nat
  /\ StepsLeft = 0 => ops = {} \/ \E o \in ops : o.kind = "tunnel"

LEMMA StepsCounted == SessionInv => Counted
  <1> SUFFICES ASSUME SessionInv PROVE Counted
    OBVIOUS
  <1>0. TypeOK /\ Len(cfg.chain) \in Nat
    BY ConfigFacts DEF SessionInv, TypeOK
  <1>1. CASE ops = {}
    BY <1>0, <1>1 DEF Counted, StepsLeft
  <1>2. ASSUME NEW o \in ops PROVE Counted
    <2>1. ops = {o} /\ Stage(o) /\ o.kind \in OpKinds /\ cur \in Nat
      BY OneOp DEF TypeOK
    <2>2. StepsLeft = StepsOf(o) /\ StepsOf(o) \in Nat
      BY <1>0, <2>1, StepsFacts
    <2>3. o.kind # "tunnel" => StepsOf(o) # 0
      <3>1. o.kind \in {"writeRequest", "readResponse"} => cur < Len(cfg.chain)
        BY <2>1 DEF Stage
      <3> QED
        BY <1>0, <2>1, <3>1 DEF StepsOf, OpKinds, OutputOps
    <2> QED
      BY <1>0, <2>1, <2>2, <2>3 DEF Counted
  <1> QED
    BY <1>1, <1>2

LEMMA StepsCountedNext == SessionInv' => Counted'
  BY StepsCounted, PTL

\* The one operation that a handler leaves behind.
LEMMA NextSteps ==
  ASSUME SessionInv', UNCHANGED cfg, NEW k \in OpKinds, NEW i, ops' = {Op(k, i)}
  PROVE  /\ k = "readRequest" => StepsLeft' = 2 * Len(cfg.chain) + 4
         /\ k = "resolve" => StepsLeft' = 2 * Len(cfg.chain) + 3
         /\ k = "connect" => StepsLeft' = 2 * Len(cfg.chain) + 2
         /\ k = "writeRequest" => StepsLeft' = 2 * (Len(cfg.chain) - cur') + 1
         /\ k = "readResponse" => StepsLeft' = 2 * (Len(cfg.chain) - cur')
         /\ k = "writeResponse" => StepsLeft' = 1
         /\ k = "tunnel" => StepsLeft' = 0
  <1>1. PICK p : p = Op(k, i)
    OBVIOUS
  <1>2. p.kind = k /\ p \in ops' /\ Counted'
    BY <1>1, StepsCountedNext DEF Op
  <1>3. StepsLeft' = StepsOf(p)'
    BY <1>2 DEF Counted
  <1> QED
    BY <1>2, <1>3 DEF StepsOf

\* An attempt that is over has at most the answer left.
LEMMA DecidedLeaves ==
  ASSUME SessionInv, SessionInv', NEW o \in ops, o.kind \in OutputOps, NEW cr,
         ConnectDone(cr, ops \ {o}, held), UNCHANGED cfg
  PROVE  StepsLeft' \in {0, 1}
  <1>1. ops \ {o} = {}
    BY OneOp
  <1>2. CASE ops' = {}
    BY <1>2 DEF StepsLeft
  <1>3. CASE ops' = {Op("tunnel", NoIndex)}
    BY <1>3, NextSteps DEF OpKinds
  <1>4. CASE ops' = {Op("writeResponse", NoIndex)}
    BY <1>4, NextSteps DEF OpKinds
  <1> QED
    BY <1>1, <1>2, <1>3, <1>4
       DEF ConnectDone, WriteAnswer, AfterAnswer, MakeTunnel, CloseAll

LEMMA ConnectNextLeaves ==
  ASSUME SessionInv, SessionInv', NEW o \in ops, o.kind \in OutputOps,
         NEW index, ConnectNext(index, ops \ {o}, held), UNCHANGED cfg
  PROVE  \/ StepsLeft' \in {0, 1}
         \/ StepsLeft' = 2 * (Len(cfg.chain) - cur') + 1
  <1>1. ops \ {o} = {}
    BY OneOp
  <1>2. CASE \E cr : ConnectDone(cr, ops \ {o}, held)
    BY <1>2, DecidedLeaves
  <1>3. CASE ops' = (ops \ {o}) \union {Op("writeRequest", index)}
    BY <1>1, <1>3, NextSteps DEF OpKinds, OutputOps
  <1> QED
    BY <1>2, <1>3 DEF ConnectNext

LEMMA ConnectThroughChainLeaves ==
  ASSUME SessionInv, SessionInv', NEW o \in ops, NEW d, NEW refs,
         ConnectThroughChain(d, ops \ {o}, refs), UNCHANGED cfg
  PROVE  StepsLeft' \in {2 * Len(cfg.chain) + 2, 2 * Len(cfg.chain) + 3}
  <1>1. ops \ {o} = {}
    BY OneOp
  <1>2. PICK k \in {"resolve", "connect"}, i \in {NoIndex, 0} : ops' = {Op(k, i)}
    BY <1>1 DEF ConnectThroughChain
  <1> QED
    BY <1>2, NextSteps DEF OpKinds, OutputOps

\* One step of the handshake is one less to go.
LEMMA StepCounts ==
  ASSUME SessionInv, SessionInv', NEW o \in ops, Handshake(o)
  PROVE  StepsLeft' < StepsLeft
  <1>0. /\ ops = {o} /\ ops \ {o} = {} /\ Stage(o) /\ StepsLeft = StepsOf(o)
        /\ StepsLeft \in Nat /\ StepsLeft' \in Nat /\ Len(cfg.chain) \in Nat /\ cur \in Nat
    BY OneOp, StepsCounted, StepsCountedNext DEF Counted, TypeOK
  <1>1. CASE ops' = {} /\ o.kind # "tunnel"
    <2>1. StepsLeft' = 0
      BY <1>1 DEF StepsLeft
    <2>2. StepsLeft # 0
      BY <1>0, <1>1, StepsCounted DEF Counted
    <2> QED
      BY <1>0, <2>1, <2>2
  <1>2. CASE o.kind \in OutputOps /\ StepsLeft' \in {0, 1}
    <2>1. o.kind \in {"writeRequest", "readResponse"} => cur < Len(cfg.chain)
      BY <1>0 DEF Stage
    <2>2. StepsOf(o) > 1
      BY <1>0, <1>2, <2>1 DEF StepsOf, OutputOps
    <2> QED
      BY <1>0, <1>2, <2>2
  <1>3. CASE Accepted(o)
    <2>1. UNCHANGED cfg /\ StepsLeft = 2 * Len(cfg.chain) + 5
      BY <1>0, <1>3 DEF Accepted, Dispatch, StepsOf
    <2>2. CASE ops' = (ops \ {o}) \union {Op("readRequest", NoIndex)}
      <3>1. ops' = {Op("readRequest", NoIndex)} /\ "readRequest" \in OpKinds
        BY <1>0, <2>2 DEF OpKinds
      <3>2. StepsLeft' = 2 * Len(cfg.chain) + 4
        BY <2>1, <3>1, NextSteps
      <3> QED
        BY <1>0, <2>1, <3>2
    <2>3. CASE ConnectThroughChain(cfg.dst, ops \ {o}, held \ {"sess_sptr"})
      <3>1. StepsLeft' \in {2 * Len(cfg.chain) + 2, 2 * Len(cfg.chain) + 3}
        BY <2>1, <2>3, ConnectThroughChainLeaves
      <3> QED
        BY <1>0, <2>1, <3>1
    <2> QED
      BY <1>3, <2>2, <2>3 DEF Accepted
  <1>4. CASE RequestRead(o)
    <2>1. UNCHANGED cfg /\ StepsLeft = 2 * Len(cfg.chain) + 4
      BY <1>0, <1>4 DEF RequestRead, Dispatch, StepsOf
    <2>2. StepsLeft' \in {2 * Len(cfg.chain) + 2, 2 * Len(cfg.chain) + 3}
      BY <1>4, <2>1, ConnectThroughChainLeaves DEF RequestRead
    <2> QED
      BY <1>0, <2>1, <2>2
  <1>5. CASE AcceptFails(o) \/ RequestFails(o) \/ AnswerFails(o)
    <2>1. ops' = {} /\ o.kind # "tunnel"
      BY <1>0, <1>5 DEF AcceptFails, RequestFails, AnswerFails, CloseAll, Dispatch
    <2> QED
      BY <1>1, <2>1
  <1>6. CASE Resolved(o)
    <2>1. UNCHANGED cfg /\ StepsLeft = 2 * Len(cfg.chain) + 3 /\ ops' = {Op("connect", o.index)}
      BY <1>0, <1>6 DEF Resolved, Dispatch, StepsOf
    <2> QED
      BY <1>0, <2>1, NextSteps DEF OpKinds, OutputOps
  <1>7. CASE Connected(o)
    <2>1. /\ UNCHANGED <<cfg, cur>> /\ StepsLeft = 2 * Len(cfg.chain) + 2 /\ cur = 0
          /\ o.kind \in OutputOps
      BY <1>0, <1>7 DEF Connected, Dispatch, StepsOf, Stage, OutputOps
    <2>2. StepsLeft' \in {0, 1} \/ StepsLeft' = 2 * (Len(cfg.chain) - cur') + 1
      BY <1>7, <2>1, ConnectNextLeaves DEF Connected
    <2>3. CASE StepsLeft' = 2 * (Len(cfg.chain) - cur') + 1
      BY <1>0, <2>1, <2>3
    <2> QED
      BY <1>2, <2>1, <2>2, <2>3
  <1>8. CASE RequestWritten(o)
    <2>1. /\ UNCHANGED <<cfg, cur>> /\ StepsLeft = 2 * (Len(cfg.chain) - cur) + 1
          /\ ops' = {Op("readResponse", o.index)}
      BY <1>0, <1>8 DEF RequestWritten, Dispatch, StepsOf
    <2> QED
      BY <1>0, <2>1, NextSteps DEF OpKinds, OutputOps
  <1>9. CASE HopConnected(o)
    <2>1. /\ UNCHANGED cfg /\ cur' = cur + 1 /\ StepsLeft = 2 * (Len(cfg.chain) - cur)
          /\ o.kind \in OutputOps
      BY <1>0, <1>9 DEF HopConnected, Dispatch, StepsOf, OutputOps
    <2>2. StepsLeft' \in {0, 1} \/ StepsLeft' = 2 * (Len(cfg.chain) - cur') + 1
      BY <1>9, <2>1, ConnectNextLeaves DEF HopConnected
    <2>3. CASE StepsLeft' = 2 * (Len(cfg.chain) - cur') + 1
      BY <1>0, <2>1, <2>3
    <2> QED
      BY <1>2, <2>1, <2>2, <2>3
  <1>10. CASE HopRefuses(o) \/ OutputFails(o)
    <2>1. /\ UNCHANGED cfg /\ o.kind \in OutputOps
          /\ \E cr : ConnectDone(cr, ops \ {o}, held)
      BY <1>10 DEF HopRefuses, OutputFails, Dispatch, OutputOps
    <2> QED
      BY <1>2, <2>1, DecidedLeaves
  <1>11. CASE AnswerWritten(o)
    <2>1. o.kind = "writeResponse" /\ UNCHANGED cfg /\ StepsLeft = 1
      BY <1>0, <1>11 DEF AnswerWritten, Dispatch, StepsOf
    <2>2. ops' = {} \/ ops' = {Op("tunnel", NoIndex)}
      BY <1>0, <1>11 DEF AnswerWritten, AfterAnswer, MakeTunnel, CloseAll
    <2>3. CASE ops' = {Op("tunnel", NoIndex)}
      BY <1>0, <2>1, <2>3, NextSteps DEF OpKinds
    <2> QED
      BY <1>1, <2>1, <2>2, <2>3
  <1> QED
    BY <1>3, <1>4, <1>5, <1>6, <1>7, <1>8, <1>9, <1>10, <1>11 DEF Handshake

\* Whatever the length of the chain, a session is through with its handshake
\* after as many completions as StepsLeft says when it is accepted, which is
\* five and two for each hop, and no operation is repeated (output.cpp,
\* session.cpp).  Settles adds only that operations complete.
THEOREM HandshakeEnds == Spec => EachStepCounts
  <1>1. ASSUME SessionInv, SessionInv', Next, StepsLeft > 0
        PROVE  StepsLeft' \in 0..StepsLeft - 1
    <2>1. PICK o \in ops : Handshake(o) \/ TunnelEnds(o)
      BY <1>1 DEF Next
    <2>2. /\ StepsLeft \in Nat /\ StepsLeft' \in Nat
      BY <1>1, StepsCounted, StepsCountedNext DEF Counted
    <2>3. StepsLeft = StepsOf(o)
      BY <1>1, <2>1, StepsCounted DEF Counted
    <2>4. ~TunnelEnds(o)
      BY <1>1, <2>3 DEF TunnelEnds, Dispatch, StepsOf
    <2>5. StepsLeft' < StepsLeft
      BY <1>1, <2>1, <2>4, StepCounts
    <2> QED
      BY <2>2, <2>5
  <1>2. SessionInv /\ SessionInv' /\ [Next]_vars =>
          [StepsLeft > 0 => StepsLeft' \in 0..StepsLeft - 1]_vars
    BY <1>1
  <1> QED
    BY <1>2, SessionInvariant, PTL DEF Spec, EachStepCounts

=============================================================================
