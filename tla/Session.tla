------------------------------- MODULE Session -------------------------------
(***************************************************************************)
(* The handshake of one session: from the accept that fills its socket, by *)
(* way of the client's request, the walk along the chain of proxies and    *)
(* the answer to the client, to the tunnel or to its destruction.          *)
(* session.cpp:57-191, output.cpp, input.cpp and the entry points of the   *)
(* proxy sessions (client_session_socks5.cpp:44-62 and 280-381, the        *)
(* server sessions' read_connect_request and write_connect_response).      *)
(*                                                                         *)
(* Every action is the dispatch of one completed operation together with   *)
(* everything its handler calls before it returns: in tunnel mode, input   *)
(* answers synchronously, so one completion can run the whole way from the *)
(* last hop's reply to make_tunnel() or to the session's destruction.      *)
(*                                                                         *)
(* The session lives as long as some shared_ptr to it does.  held is the   *)
(* set of places that hold one: the server's sess_sptr_, the handlers      *)
(* stored in input_ and output_, and the operations of the tunnel.         *)
(***************************************************************************)
EXTENDS Integers, Sequences, FiniteSets

CONSTANTS
  Host,                       \* addresses (host and port) that can be named
  Configs,                    \* the configurations to consider
  Requests                    \* destinations that a proxy client may ask for

\* A destination: its address, whether it is given as a host name, and
\* whether that name is longer than the 255 bytes a SOCKS5 request can carry.
Dest == [host : Host, named : BOOLEAN, long : BOOLEAN]

\* A hop of the output chain; longCreds: user name or password over 255 bytes.
Hop == [at : Dest, longCreds : BOOLEAN]

\* tunnel: the input is a fixed tunnel to dst, not a proxy server.
Config == [tunnel : BOOLEAN, chain : Seq(Hop), dst : Dest]

ASSUME SessionAssumption == Configs \subseteq Config /\ Requests \subseteq Dest

VARIABLES
  cfg,                        \* the configuration, which never changes
  ops,                        \* outstanding asynchronous operations
  held,                       \* where shared_ptrs to the session are kept
  dst,                        \* dst_ and output's final_dst_
  cur,                        \* cur_proxy_
  asked,                      \* the destination in the last connect request
  result,                     \* output_conn_res_
  answer,                     \* the connect_response being written
  told,                       \* the connect_response the client has received
  open,                       \* the two sockets are open
  path,                       \* the hosts the output connection goes through
  history,                    \* the server's history_
  log,                        \* lines written to the server's logfile_
  stale                       \* an object was touched after its release

vars == <<cfg, ops, held, dst, cur, asked, result, answer, told, open, path,
          history, log, stale>>

NoIndex == -1                 \* connect_result::kNoIndex

Major == {"Succeeded", "HostUnreachable", "ConnectionRefused", "BadAddressType",
          "UnknownError"}

\* Errors by what the code tells apart: three system errors that have a code
\* of their own, the proxy protocol errors, and any other one.
Error == {"connection_refused", "host_unreachable", "family_not_supported",
          "proxy", "other"}

OutputOps == {"resolve", "connect", "writeRequest", "readResponse"}

OpKinds == {"accept", "readRequest", "writeResponse", "tunnel"} \union OutputOps

Op(kind, index) == [kind |-> kind, index |-> index]

\* The place whose shared_ptr keeps the session alive for an operation; the
\* operations of output_ and of the proxy sessions only carry a raw pointer.
Holder(kind) ==
  CASE kind = "accept" -> "sess_sptr"
    [] kind = "readRequest" -> "read_request_handler"
    [] kind \in OutputOps -> "connect_handler"
    [] kind = "writeResponse" -> "write_response_handler"
    [] kind = "tunnel" -> "tunnel_operations"

Holders == {Holder(k) : k \in OpKinds}

NoDest == [host |-> "none", named |-> FALSE, long |-> FALSE]
NoResult == [success |-> FALSE, err |-> "none", index |-> NoIndex, major |-> "UnknownError"]

\* connect_result(true), and the two kinds of failure.
Success == [NoResult EXCEPT !.success = TRUE]
FailedWith(err, index) == [NoResult EXCEPT !.err = err, !.index = index]
RefusedBy(index, major) == [NoResult EXCEPT !.index = index, !.major = major]

TypeOK ==
  /\ cfg \in Configs
  /\ ops \subseteq [kind : OpKinds, index : Nat \union {NoIndex}]
  /\ held \subseteq Holders
  /\ dst \in Dest \union {NoDest}
  /\ cur \in Nat
  /\ asked \in Dest \union {NoDest}
  /\ result \in [success : BOOLEAN, err : Error \union {"none"},
                 index : Nat \union {NoIndex}, major : Major]
  /\ answer \in Major
  /\ told \in Major \union {"nothing"}
  /\ open \in BOOLEAN
  /\ path \in Seq(Host)
  /\ history \subseteq Host
  /\ log \in Seq(Host)
  /\ stale \in BOOLEAN

Init ==
  /\ cfg \in Configs
  /\ ops = {Op("accept", NoIndex)}
  /\ held = {"sess_sptr"}
  /\ dst = NoDest
  /\ cur = 0
  /\ asked = NoDest
  /\ result = NoResult
  /\ answer = "UnknownError"
  /\ told = "nothing"
  /\ open = TRUE
  /\ path = <<>>
  /\ history \in SUBSET Host    \* what earlier sessions have left there
  /\ log = <<>>
  /\ stale = FALSE

-----------------------------------------------------------------------------
(* What the handlers call.  rest is the operations left when the handler    *)
(* starts, refs the places that hold the session.                           *)

\* connect_response::error_code_to_major, and its fallback in session.
ErrorToMajor(err) ==
  CASE err = "connection_refused" -> "ConnectionRefused"
    [] err = "host_unreachable" -> "HostUnreachable"
    [] err = "family_not_supported" -> "BadAddressType"
    [] OTHER -> "UnknownError"

\* FaultX... operators are seeded bugs, never part of Next: each is a wrong way
\* to write the definition that follows it, and some property must notice.
FaultAnswerFor(cr) ==                     \* a hop's refusal is not an error
  IF cr.err # "none" THEN ErrorToMajor(cr.err) ELSE "Succeeded"

AnswerFor(cr) ==
  IF cr.success THEN "Succeeded"
  ELSE IF cr.err # "none" THEN ErrorToMajor(cr.err) ELSE cr.major

\* The object is gone once no place holds it; its sockets close with it.
Released == held = {}

\* close_all(), or the destruction of the session.
CloseAll(rest, refs) ==
  /\ ops' = rest
  /\ held' = refs
  /\ open' = FALSE

\* make_tunnel()
MakeTunnel(rest, refs) ==
  /\ ops' = rest \union {Op("tunnel", NoIndex)}
  /\ held' = refs \union {"tunnel_operations"}
  /\ open' = open

\* handle_write_connect_response without an error
AfterAnswer(cr, rest, refs) ==
  \/ cr.success /\ MakeTunnel(rest, refs)
  \/ ~cr.success /\ CloseAll(rest, refs)

FaultWriteAnswer(cr, rest, refs) ==       \* only a told client may go on
  \/ cfg.tunnel /\ CloseAll(rest, refs)
  \/ /\ ~cfg.tunnel
     /\ ops' = rest \union {Op("writeResponse", NoIndex)}
     /\ held' = refs \union {"write_response_handler"}
     /\ open' = open

\* input::write_connect_response: a tunnel has no client to tell.
WriteAnswer(cr, rest, refs) ==
  \/ cfg.tunnel /\ AfterAnswer(cr, rest, refs)
  \/ /\ ~cfg.tunnel
     /\ ops' = rest \union {Op("writeResponse", NoIndex)}
     /\ held' = refs \union {"write_response_handler"}
     /\ open' = open

\* A connected destination is logged the first time any session reaches it.
RecordHistory(cr) ==
  IF cr.success /\ dst'.host \notin history
  THEN history' = history \union {dst'.host} /\ log' = Append(log, dst'.host)
  ELSE UNCHANGED <<history, log>>

FaultConnectDone(cr, rest, refs) ==       \* the handler is not cleared
  /\ result' = cr
  /\ answer' = AnswerFor(cr)
  /\ RecordHistory(cr)
  /\ WriteAnswer(cr, rest, refs)

\* output::call_and_clear_handler and session::handle_connect_output
ConnectDone(cr, rest, refs) ==
  /\ result' = cr
  /\ answer' = AnswerFor(cr)
  /\ RecordHistory(cr)
  /\ WriteAnswer(cr, rest, refs \ {"connect_handler"})

Unfinished == UNCHANGED <<result, answer, history, log, open>>

\* output::connect_through_chain
ConnectThroughChain(d, rest, refs) ==
  LET direct == cfg.chain = <<>>
      first == IF direct THEN d ELSE cfg.chain[1].at IN
  /\ dst' = d
  /\ cur' = 0
  /\ ops' = rest \union {Op(IF first.named THEN "resolve" ELSE "connect",
                            IF direct THEN NoIndex ELSE 0)}
  /\ held' = refs \union {"connect_handler"}
  /\ Unfinished

FaultNextDest(i) ==                       \* the last hop is not asked for
  IF i + 2 < Len(cfg.chain) THEN cfg.chain[i + 2].at ELSE dst

\* The hop that the i-th client session (from 0) asks its proxy for.
NextDest(i) == IF i + 1 < Len(cfg.chain) THEN cfg.chain[i + 2].at ELSE dst

\* write_connect_request refuses these without starting an operation.
TooLong(i) ==
  \/ cfg.chain[i + 1].longCreds
  \/ NextDest(i).named /\ NextDest(i).long

\* output::connect_next without an error
ConnectNext(index, rest, refs) ==
  \/ /\ cur' = Len(cfg.chain)
     /\ asked' = asked
     /\ ConnectDone(Success, rest, refs)
  \/ /\ cur' < Len(cfg.chain) /\ TooLong(cur')
     /\ asked' = asked
     /\ ConnectDone(FailedWith("proxy", index), rest, refs)
  \/ /\ cur' < Len(cfg.chain) /\ ~TooLong(cur')
     /\ asked' = NextDest(cur')
     /\ ops' = rest \union {Op("writeRequest", index)}
     /\ held' = refs
     /\ Unfinished

-----------------------------------------------------------------------------
(* The operations complete and their handlers run.                          *)

Dispatch(o, kind) == o \in ops /\ o.kind = kind

\* server::handle_accept, session::start and input::read_connect_request;
\* do_accept() then drops the server's reference.
Accepted(o) ==
  /\ Dispatch(o, "accept")
  /\ \/ cfg.tunnel /\ ConnectThroughChain(cfg.dst, ops \ {o}, held \ {"sess_sptr"})
     \/ /\ ~cfg.tunnel
        /\ ops' = (ops \ {o}) \union {Op("readRequest", NoIndex)}
        /\ held' = (held \ {"sess_sptr"}) \union {"read_request_handler"}
        /\ UNCHANGED <<dst, cur>> /\ Unfinished
  /\ UNCHANGED <<cfg, asked, told, path, stale>>

AcceptFails(o) ==
  /\ Dispatch(o, "accept")
  /\ CloseAll(ops \ {o}, held \ {"sess_sptr"})
  /\ UNCHANGED <<cfg, dst, cur, asked, result, answer, told, path, history, log, stale>>

\* The proxy client's request has been read: the server session runs the
\* handler and then clears its puser_dst_.
RequestRead(o) ==
  /\ Dispatch(o, "readRequest")
  /\ \E d \in Requests :
       ConnectThroughChain(d, ops \ {o}, held \ {"read_request_handler"})
  /\ stale' = (stale \/ held' = {})
  /\ UNCHANGED <<cfg, asked, told, path>>

RequestFails(o) ==
  /\ Dispatch(o, "readRequest")
  /\ CloseAll(ops \ {o}, held \ {"read_request_handler"})
  /\ UNCHANGED <<cfg, dst, cur, asked, result, answer, told, path, history, log, stale>>

\* output::handle_resolve
Resolved(o) ==
  /\ Dispatch(o, "resolve")
  /\ ops' = (ops \ {o}) \union {Op("connect", o.index)}
  /\ Unfinished
  /\ UNCHANGED <<cfg, held, dst, cur, asked, told, path, stale>>

\* Any operation of output_ that fails ends the attempt with its index.
OutputFails(o) ==
  /\ o \in ops /\ o.kind \in OutputOps
  /\ UNCHANGED <<cfg, dst, cur, asked, told, path, stale>>
  /\ \E err \in (IF o.kind \in {"resolve", "connect"} THEN Error \ {"proxy"} ELSE Error) :
       ConnectDone(FailedWith(err, o.index), ops \ {o}, held)

\* output::handle_connect
Connected(o) ==
  /\ Dispatch(o, "connect")
  /\ path' = <<IF cfg.chain = <<>> THEN dst.host ELSE cfg.chain[1].at.host>>
  /\ UNCHANGED <<cfg, dst, cur, told, stale>>
  /\ ConnectNext(o.index, ops \ {o}, held)

\* output::handle_write_connect_request
RequestWritten(o) ==
  /\ Dispatch(o, "writeRequest")
  /\ ops' = (ops \ {o}) \union {Op("readResponse", o.index)}
  /\ Unfinished
  /\ UNCHANGED <<cfg, held, dst, cur, asked, told, path, stale>>

FaultHopConnected(o) ==                   \* cur_proxy_ is not advanced
  /\ Dispatch(o, "readResponse")
  /\ path' = Append(path, asked.host)
  /\ cur' = cur
  /\ UNCHANGED <<cfg, dst, told>>
  /\ ConnectNext(o.index, ops \ {o}, held)
  /\ stale' = (stale \/ held' = {})

\* output::handle_read_connect_response when the hop has connected: the
\* client session sets its puser_conn_resp_ after the handler has returned.
HopConnected(o) ==
  /\ Dispatch(o, "readResponse")
  /\ path' = Append(path, asked.host)
  /\ cur' = cur + 1
  /\ UNCHANGED <<cfg, dst, told>>
  /\ ConnectNext(o.index + 1, ops \ {o}, held)
  /\ stale' = (stale \/ held' = {})

FaultHopRefuses(o) ==                     \* blames the hop that was asked for
  /\ Dispatch(o, "readResponse")
  /\ UNCHANGED <<cfg, dst, cur, asked, told, path, stale>>
  /\ \E major \in Major \ {"Succeeded"} :
       ConnectDone(RefusedBy(o.index + 1, major), ops \ {o}, held)

\* The hop answers that it could not connect.
HopRefuses(o) ==
  /\ Dispatch(o, "readResponse")
  /\ UNCHANGED <<cfg, dst, cur, asked, told, path, stale>>
  /\ \E major \in Major \ {"Succeeded"} :
       ConnectDone(RefusedBy(o.index, major), ops \ {o}, held)

\* session::handle_write_connect_response
AnswerWritten(o) ==
  /\ Dispatch(o, "writeResponse")
  /\ told' = answer
  /\ AfterAnswer(result, ops \ {o}, held \ {"write_response_handler"})
  /\ UNCHANGED <<cfg, dst, cur, asked, result, answer, path, history, log, stale>>

AnswerFails(o) ==
  /\ Dispatch(o, "writeResponse")
  /\ CloseAll(ops \ {o}, held \ {"write_response_handler"})
  /\ UNCHANGED <<cfg, dst, cur, asked, result, answer, told, path, history, log, stale>>

\* The relay ends (Relay.tla has the details).
TunnelEnds(o) ==
  /\ Dispatch(o, "tunnel")
  /\ CloseAll(ops \ {o}, held \ {"tunnel_operations"})
  /\ UNCHANGED <<cfg, dst, cur, asked, result, answer, told, path, history, log, stale>>

Handshake(o) ==
  \/ Accepted(o) \/ AcceptFails(o)
  \/ RequestRead(o) \/ RequestFails(o)
  \/ Resolved(o) \/ Connected(o) \/ RequestWritten(o)
  \/ HopConnected(o) \/ HopRefuses(o) \/ OutputFails(o)
  \/ AnswerWritten(o) \/ AnswerFails(o)

Next == \E o \in ops : Handshake(o) \/ TunnelEnds(o)

Spec == Init /\ [][Next]_vars

\* io_context::run() dispatches what completes.  That every operation of the
\* handshake completes is a promise of the network, not of this code: there
\* is no timeout anywhere, and a peer that stays silent keeps a session.
Fairness == WF_vars(\E o \in ops : Handshake(o))

LiveSpec == Spec /\ Fairness

-----------------------------------------------------------------------------
(* What the handshake guarantees.                                           *)

\* The hosts that the connection should go through: the chain in its order,
\* then the destination.
Route(i) == IF i <= Len(cfg.chain) THEN cfg.chain[i].at.host ELSE dst.host

\* The output connection goes through the first n of them.
Reached(n) == Len(path) = n /\ \A i \in 1..n : path[i] = Route(i)

\* "no parallel reads and/or writes" (proxy/client_session.h:31): the
\* handshake never has two operations outstanding on its sockets.
OneOperation == Cardinality(ops) <= 1

\* A shared_ptr is held exactly for the operation that is outstanding: no
\* completion runs on a destroyed session, no session is kept by a handler
\* that nothing will call, and the sockets close when the session goes.
HeldWhileUsed ==
  /\ held = {Holder(o.kind) : o \in ops}
  /\ open <=> held # {}

\* Each hop is sent its own request: the client session whose credentials and
\* request are on the wire is the one for the proxy at the far end of the
\* connection, and it asks for the hop that follows (output.cpp:115-141).
RequestMeetsItsHop == \A o \in ops : o.kind \in {"writeRequest", "readResponse"} =>
  /\ o.index = cur /\ cur < Len(cfg.chain)
  /\ Reached(cur + 1)
  /\ asked.host = Route(cur + 2)

\* A tunnel is made only through the whole chain to the requested destination,
\* and a proxy client has been told so before.
TunnelReachesDestination == \A o \in ops : o.kind = "tunnel" =>
  /\ Reached(Len(cfg.chain) + 1)
  /\ cfg.tunnel \/ told = "Succeeded"

\* chain_fail_index is the hop at which the attempt failed, in the range that
\* handle_connect_output indexes the configuration with (session.cpp:116-126);
\* a proxy error always comes with a hop.
FailureNamesHop == result \notin {NoResult, Success} =>
  IF cfg.chain = <<>>
  THEN result.index = NoIndex /\ result.err # "proxy" /\ path = <<>>
  ELSE /\ result.index \in 0..Len(cfg.chain) - 1
       /\ IF path = <<>> THEN result.index = 0 ELSE Reached(result.index + 1)

\* A client is told "succeeded" exactly when its connection is complete.
AnswerIsTrue == told # "nothing" =>
  (told = "Succeeded" <=> Reached(Len(cfg.chain) + 1))

\* "client_session instance must exist until all handlers are called"
\* (proxy/client_session.h:32), and until they return.
NoUseAfterRelease == ~stale

\* What holds instead: the only way to touch a released object is a tunnel
\* whose second or later hop cannot be asked because of a length.
StaleOnlyAfterOversizedHop ==
  stale => cfg.tunnel /\ \E i \in 1..Len(cfg.chain) - 1 : TooLong(i)

\* When every operation completes, a session ends up with a tunnel or is
\* released: no handler is left waiting for nothing.
Settles == <>(Released \/ \E o \in ops : o.kind = "tunnel")

\* How many operations, this one included, may still complete before the
\* session has a tunnel or is released: two for every hop that is left.
StepsOf(o) ==
  CASE o.kind = "accept" -> 2 * Len(cfg.chain) + 5
    [] o.kind = "readRequest" -> 2 * Len(cfg.chain) + 4
    [] o.kind = "resolve" -> 2 * Len(cfg.chain) + 3
    [] o.kind = "connect" -> 2 * Len(cfg.chain) + 2
    [] o.kind = "writeRequest" -> 2 * (Len(cfg.chain) - cur) + 1
    [] o.kind = "readResponse" -> 2 * (Len(cfg.chain) - cur)
    [] o.kind = "writeResponse" -> 1
    [] o.kind = "tunnel" -> 0

StepsLeft == IF ops = {} THEN 0 ELSE StepsOf(CHOOSE o \in ops : TRUE)

\* Every completion brings the handshake nearer to its end: no handler starts
\* what has been done before, no hop is asked twice (output.cpp:115-198), and
\* a session that waits for nothing has a tunnel or is released.
EachStepCounts == [][StepsLeft > 0 => StepsLeft' \in 0..StepsLeft - 1]_vars

-----------------------------------------------------------------------------
(* The session as its client knows it.                                      *)

Complete == Reached(Len(cfg.chain) + 1)

\* pending: the outstanding operations.
Phase(pending) ==
  CASE \E o \in pending : o.kind \in {"accept", "readRequest"} -> "waiting"
    [] \E o \in pending : o.kind \in OutputOps -> "connecting"
    [] \E o \in pending : o.kind = "writeResponse" -> "answering"
    [] \E o \in pending : o.kind = "tunnel" -> "relaying"
    [] OTHER -> "gone"

Learned ==
  CASE told = "nothing" -> "nothing"
    [] told = "Succeeded" -> "yes"
    [] OTHER -> "no"

Promise == INSTANCE Forwarding WITH silent <- cfg.tunnel, phase <- Phase(ops),
  target <- dst.host, complete <- Complete, told <- Learned

\* The handlers of session.cpp, input.cpp and output.cpp, whatever the length
\* of the chain and wherever it breaks, come to this: one destination, one
\* attempt, one true answer, and a relay only when and after it is "yes".
KeepsPromise == Promise!Spec

-----------------------------------------------------------------------------
(* The inductive invariant behind the safety properties.                    *)

\* Either the session is gone, or it has one operation and its one holder.
Lifetime ==
  \/ ops = {} /\ held = {} /\ ~open
  \/ (\E o \in ops : ops = {o} /\ held = {Holder(o.kind)}) /\ open

Undecided == result = NoResult /\ told = "nothing"

\* Where each operation finds the attempt.
Stage(o) ==
  /\ o.kind \in {"accept", "readRequest"} => Undecided /\ path = <<>>
  /\ o.kind \in {"resolve", "connect"} =>
       /\ Undecided /\ path = <<>> /\ cur = 0 /\ dst \in Dest
       /\ o.index = IF cfg.chain = <<>> THEN NoIndex ELSE 0
  /\ o.kind \in {"writeRequest", "readResponse"} =>
       /\ Undecided /\ dst \in Dest
       /\ o.index = cur /\ cur < Len(cfg.chain) /\ Reached(cur + 1)
       /\ asked = NextDest(cur)
  /\ o.kind = "writeResponse" =>
       /\ ~cfg.tunnel /\ told = "nothing" /\ answer = AnswerFor(result)
       /\ result # NoResult
  /\ o.kind = "tunnel" =>
       result.success /\ (cfg.tunnel \/ told = "Succeeded")

\* What a result says about the connection.
Outcome ==
  /\ result.success => result = Success /\ Reached(Len(cfg.chain) + 1)
  /\ ~result.success => result.major # "Succeeded"
  /\ FailureNamesHop
  /\ result = NoResult => told = "nothing"
  /\ result \notin {NoResult, Success} => Len(path) <= Len(cfg.chain)
  /\ told # "nothing" => (told = "Succeeded" <=> result.success)

\* The handlers of session.cpp and output.cpp as one invariant: which stage
\* the one outstanding operation is in, and what the result means.
SessionInv ==
  /\ TypeOK
  /\ Lifetime
  /\ \A o \in ops : Stage(o)
  /\ Outcome
  /\ StaleOnlyAfterOversizedHop /\ (stale => ops = {})

=============================================================================
