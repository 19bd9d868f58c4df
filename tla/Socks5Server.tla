---------------------------- MODULE Socks5Server ----------------------------
(***************************************************************************)
(* server_session_socks5: how the request of a proxy client is read and    *)
(* how it is answered.  As in Socks5Client, the connection is two byte     *)
(* streams, a read takes exactly need bytes, and an action is the          *)
(* completion of the outstanding operation with all that its handler does. *)
(* Between the request and Answer the session connects to the destination. *)
(***************************************************************************)
EXTENDS Socks5Wire

CONSTANT Streams              \* what a client may send over the connection

ASSUME Socks5ServerAssumption == Streams \subseteq Seq(Byte)

VARIABLES
  dst,                        \* *puser_dst_
  op,                         \* the outstanding operation, by who started it
  need,                       \* the bytes it reads
  asked,                      \* what user_read_req_handler_ was called with
  told,                       \* the connect_response to write
  answered,                   \* what user_write_resp_handler_ was called with
  inp, outp,                  \* the connection: not yet read, written so far
  taken,                      \* all that has been read from it
  eof                         \* the client sends nothing more

serverVars == <<dst, op, need, asked, told, answered, taken>>
vars == <<serverVars, inp, outp, eof>>

Reads == {"auth_read_req", "auth_read_req_methods", "conn_read_req",
          "conn_read_req_addr_ipv4", "conn_read_req_addr_domainname",
          "conn_read_req_addr_domainname_str", "conn_read_req_addr_ipv6"}
Op == Reads \union {"auth_write_resp", "write_connect_response", "none"}

Major == {"Succeeded", "HostUnreachable", "ConnectionRefused", "BadAddressType",
          "UnknownError"}
Error == {"protocol_violation", "unsupported_command", "broken"}

TypeOK ==
  /\ dst.kind \in {"none", "v4", "v6", "name"} /\ dst.addr \in Seq(Byte)
  /\ dst.port \in Port
  /\ op \in Op /\ need \in 0..257
  /\ asked \in {"pending", "ok"} \union Error
  /\ told \in {"none"} \union Major
  /\ answered \in {"pending", "ok", "broken"}
  /\ inp \in Seq(Byte) /\ outp \in Seq(Byte) /\ taken \in Seq(Byte)
  /\ eof \in BOOLEAN

ServerInit ==
  /\ dst = NoDestination
  /\ op = "auth_read_req" /\ need = 2
  /\ asked = "pending" /\ told = "none" /\ answered = "pending"
  /\ taken = <<>>

Init ==
  /\ ServerInit
  /\ inp \in Streams
  /\ outp = <<>>
  /\ eof \in BOOLEAN

-----------------------------------------------------------------------------
(* Operations.                                                              *)

Begin(o, n) == op' = o /\ need' = n

\* An async_read of need bytes completes; Got is what it has read.
Got == SubSeq(inp, 1, need)

Take(o) ==
  /\ op = o
  /\ Len(inp) >= need
  /\ inp' = SubSeq(inp, need + 1, Len(inp))
  /\ taken' = taken \o Got

\* The session still reads the request.
Continue(o, n) == Begin(o, n) /\ UNCHANGED <<dst, asked>>

\* The definitions named Fault... are seeded bugs, in the place of what follows.
FaultRequestFails(err) ==                 \* goes on after an error
  /\ asked' = err
  /\ Begin("auth_read_req_methods", 1)
  /\ UNCHANGED dst

\* call_and_clear_handler(user_read_req_handler_, ...)
RequestFails(err) == asked' = err /\ Begin("none", 0) /\ UNCHANGED dst

Request(d) == asked' = "ok" /\ Begin("none", 0) /\ dst' = d

\* destination: with an empty host name it is the address that counts.
ByName(name, port) ==
  IF name = <<>> THEN Destination("v4", DefaultAddress, port)
  ELSE Destination("name", name, port)

-----------------------------------------------------------------------------
\* auth_read_req_handler
AuthReqRead ==
  /\ Take("auth_read_req")
  /\ \/ (Got[1] # 5 \/ Got[2] = 0) /\ RequestFails("protocol_violation")
     \/ Got[1] = 5 /\ Got[2] # 0 /\ Continue("auth_read_req_methods", Got[2])
  /\ UNCHANGED <<told, answered, outp, eof>>

Offered(method) == \E i \in 1..need : Got[i] = method

\* auth_read_req_methods_handler
MethodsRead ==
  /\ Take("auth_read_req_methods")
  /\ \/ ~Offered(0) /\ RequestFails("protocol_violation")
     \/ Offered(0) /\ Continue("auth_write_resp", 0)
  /\ UNCHANGED <<told, answered, outp, eof>>

\* auth_write_resp and its handler
MethodWritten ==
  /\ op = "auth_write_resp"
  /\ outp' = outp \o <<5, 0>>
  /\ Continue("conn_read_req", 4)
  /\ UNCHANGED <<told, answered, inp, taken, eof>>

FaultHeaderRead ==                        \* no answer to another command
  /\ Take("conn_read_req")
  /\ \/ Got[2] # 1 /\ Continue("none", 0)
     \/ /\ Got[2] = 1
        /\ Got[1] # 5 \/ Got[4] \notin {1, 3, 4}
        /\ RequestFails("protocol_violation")
     \/ /\ Got[1] = 5 /\ Got[2] = 1
        /\ \/ Got[4] = 1 /\ Continue("conn_read_req_addr_ipv4", 6)
           \/ Got[4] = 3 /\ Continue("conn_read_req_addr_domainname", 1)
           \/ Got[4] = 4 /\ Continue("conn_read_req_addr_ipv6", 18)
  /\ UNCHANGED <<told, answered, outp, eof>>

\* conn_read_req_handler
HeaderRead ==
  /\ Take("conn_read_req")
  /\ \/ Got[1] # 5 /\ RequestFails("protocol_violation")
     \/ Got[1] = 5 /\ Got[2] # 1 /\ RequestFails("unsupported_command")
     \/ /\ Got[1] = 5 /\ Got[2] = 1
        /\ \/ Got[4] \notin {1, 3, 4} /\ RequestFails("protocol_violation")
           \/ Got[4] = 1 /\ Continue("conn_read_req_addr_ipv4", 6)
           \/ Got[4] = 3 /\ Continue("conn_read_req_addr_domainname", 1)
           \/ Got[4] = 4 /\ Continue("conn_read_req_addr_ipv6", 18)
  /\ UNCHANGED <<told, answered, outp, eof>>

FaultAddrV4Read ==                        \* the port as it stands in memory
  /\ Take("conn_read_req_addr_ipv4")
  /\ Request(Destination("v4", SubSeq(Got, 1, 4), PortOf(Got[6], Got[5])))
  /\ UNCHANGED <<told, answered, outp, eof>>

\* conn_read_req_addr_ipv4_handler
AddrV4Read ==
  /\ Take("conn_read_req_addr_ipv4")
  /\ Request(Destination("v4", SubSeq(Got, 1, 4), PortOf(Got[5], Got[6])))
  /\ UNCHANGED <<told, answered, outp, eof>>

FaultNameLengthRead ==                    \* one byte too far
  /\ Take("conn_read_req_addr_domainname")
  /\ Continue("conn_read_req_addr_domainname_str", Got[1] + 3)
  /\ UNCHANGED <<told, answered, outp, eof>>

\* conn_read_req_addr_domainname_handler
NameLengthRead ==
  /\ Take("conn_read_req_addr_domainname")
  /\ Continue("conn_read_req_addr_domainname_str", Got[1] + 2)
  /\ UNCHANGED <<told, answered, outp, eof>>

\* conn_read_req_addr_domainname_str_handler
AddrNameRead ==
  /\ Take("conn_read_req_addr_domainname_str")
  /\ Request(ByName(SubSeq(Got, 1, need - 2), PortOf(Got[need - 1], Got[need])))
  /\ UNCHANGED <<told, answered, outp, eof>>

\* conn_read_req_addr_ipv6_handler: the port is taken in native order, on the
\* little-endian machines this is built for the low byte first.
AddrV6Read ==
  /\ Take("conn_read_req_addr_ipv6")
  /\ Request(Destination("v6", SubSeq(Got, 1, 16), PortOf(Got[18], Got[17])))
  /\ UNCHANGED <<told, answered, outp, eof>>

-----------------------------------------------------------------------------
(* The answer.                                                              *)

FaultMajorToRep(mc) == IF mc = "UnknownError" THEN 0 ELSE 1

\* major_code_to_rep: the case of eHostUnreachable has no return and falls
\* through to the next one.
MajorToRep(mc) ==
  CASE mc = "Succeeded" -> 0
    [] mc \in {"HostUnreachable", "ConnectionRefused"} -> 5
    [] mc = "BadAddressType" -> 7
    [] OTHER -> 1

FaultReplyTo(mc) ==                       \* nine bytes, not ten
  <<5, MajorToRep(mc), 0, 1>> \o Zeros(5)

\* The bytes of write_conn_resp_.
ReplyTo(mc) == <<5, MajorToRep(mc), 0, 1>> \o Zeros(6)

\* The session calls write_connect_response, which begins the write.
Answer(mc) ==
  /\ asked = "ok" /\ told = "none"
  /\ told' = mc
  /\ Begin("write_connect_response", 0)
  /\ UNCHANGED <<dst, asked, answered, inp, outp, taken, eof>>

AnswerWritten ==
  /\ op = "write_connect_response"
  /\ outp' = outp \o ReplyTo(told)
  /\ answered' = "ok"
  /\ Begin("none", 0)
  /\ UNCHANGED <<dst, asked, told, inp, taken, eof>>

\* Any operation may end with an error of the socket; a read must, once what
\* it waits for cannot come.
Breaks ==
  /\ op # "none"
  /\ \/ /\ op = "write_connect_response"
        /\ answered' = "broken" /\ Begin("none", 0)
        /\ UNCHANGED <<dst, asked>>
     \/ op # "write_connect_response" /\ RequestFails("broken") /\ UNCHANGED answered
  /\ UNCHANGED <<told, inp, outp, taken, eof>>

EndOfStream ==
  /\ op \in Reads /\ eof /\ Len(inp) < need
  /\ Breaks

Progress ==
  \/ AuthReqRead \/ MethodsRead \/ MethodWritten \/ HeaderRead
  \/ AddrV4Read \/ NameLengthRead \/ AddrNameRead \/ AddrV6Read
  \/ AnswerWritten \/ EndOfStream

Next == Progress \/ Breaks \/ \E mc \in Major : Answer(mc)

Spec == Init /\ [][Next]_vars

\* What completes is dispatched; a silent client owes nothing, and the time
\* that the session takes to connect is its own.
LiveSpec == Spec /\ WF_vars(Progress)

-----------------------------------------------------------------------------
(* What the server session guarantees its user.                             *)

\* The greeting ends where its own NMETHODS says; the request follows.
GreetingLength == 2 + taken[2]
RequestTaken == SubSeq(taken, GreetingLength + 1, Len(taken))

\* A request is accepted once a whole greeting, which offers to go without
\* authentication, and one whole request have been read, and nothing behind
\* them: a client that already sends data for the tunnel loses none of it
\* (server_session_socks5.cpp:40-305).
RequestExactlyTaken == asked = "ok" =>
  /\ Len(taken) >= 3 /\ WholeGreeting(SubSeq(taken, 1, GreetingLength))
  /\ \E i \in 3..GreetingLength : taken[i] = 0
  /\ WholeMessage(RequestTaken) /\ RequestTaken[2] = 1

\* The destination is what the request names: by IPv4 address or a host name
\* in full, by IPv6 address all but the port.
RequestUnderstood == asked = "ok" =>
  /\ RequestTaken[4] # ATYP.v6 /\ Nameable(RequestTaken) => dst = Named(RequestTaken)
  /\ RequestTaken[4] = ATYP.v6 =>
       dst.kind = "v6" /\ dst.addr = Named(RequestTaken).addr

\* The client reads one whole reply, which grants the request exactly if the
\* session has connected to the destination.
ReplyIsTrue == answered = "ok" =>
  LET reply == SubSeq(outp, 3, Len(outp)) IN
  /\ WholeMessage(reply)
  /\ reply[2] = 0 <=> told = "Succeeded"

-----------------------------------------------------------------------------
(* The inductive invariant that the proofs rest on.                         *)

\* The client has greeted and offered to go without authentication.
Greeted ==
  /\ Len(taken) >= 3 /\ taken[1] = 5 /\ Len(taken) >= GreetingLength
  /\ \E i \in 3..GreetingLength : taken[i] = 0

\* The head of its request has been read and is in order.
HeadTaken(atyp) ==
  /\ Greeted /\ Len(taken) >= GreetingLength + 4
  /\ taken[GreetingLength + 1] = 5 /\ taken[GreetingLength + 2] = 1
  /\ taken[GreetingLength + 4] = atyp

\* Each operation finds read what comes before it, and reads to the end of a
\* field.
Stage ==
  /\ op = "auth_read_req" => taken = <<>> /\ need = 2
  /\ op = "auth_read_req_methods" =>
       Len(taken) = 2 /\ taken[1] = 5 /\ taken[2] # 0 /\ need = taken[2]
  /\ op \in {"auth_write_resp", "conn_read_req"} =>
       Greeted /\ Len(taken) = GreetingLength
  /\ op = "conn_read_req" => need = 4
  /\ op = "conn_read_req_addr_ipv4" =>
       HeadTaken(ATYP.v4) /\ Len(taken) = GreetingLength + 4 /\ need = 6
  /\ op = "conn_read_req_addr_ipv6" =>
       HeadTaken(ATYP.v6) /\ Len(taken) = GreetingLength + 4 /\ need = 18
  /\ op = "conn_read_req_addr_domainname" =>
       HeadTaken(ATYP.name) /\ Len(taken) = GreetingLength + 4 /\ need = 1
  /\ op = "conn_read_req_addr_domainname_str" =>
       /\ HeadTaken(ATYP.name) /\ Len(taken) = GreetingLength + 5
       /\ need = taken[GreetingLength + 5] + 2

\* What *puser_dst_ may be assigned.
RequestedSet == [kind : {"v4", "v6", "name"}, addr : Seq(Byte), port : Port]

\* The handlers called so far, and what has been written to the client.
Outcome ==
  /\ asked = "pending" <=> op \in Reads \union {"auth_write_resp"}
  /\ op = "write_connect_response" => told # "none" /\ answered = "pending"
  /\ IF asked = "ok" THEN dst \in RequestedSet ELSE told = "none" /\ dst = NoDestination
  /\ told = "none" => answered = "pending"
  /\ told # "none" /\ answered = "pending" => op = "write_connect_response"
  /\ op \in {"auth_read_req", "auth_read_req_methods", "auth_write_resp"} =>
       outp = <<>>
  /\ asked = "ok" \/ op \in Reads \ {"auth_read_req", "auth_read_req_methods"} =>
       outp = IF answered = "ok" THEN <<5, 0>> \o ReplyTo(told) ELSE <<5, 0>>

ServerInv ==
  TypeOK /\ Stage /\ Outcome /\ RequestExactlyTaken /\ RequestUnderstood

-----------------------------------------------------------------------------
(* The interface proxy/server_session.h.                                    *)

\* What input relies on (proxy/server_session.h).
Phase ==
  CASE asked = "pending" -> "reading"
    [] asked = "ok" /\ told = "none" -> "requested"
    [] asked = "ok" /\ told # "none" /\ answered = "pending" -> "answering"
    [] answered = "ok" -> "answered"
    [] OTHER -> "failed"

Contract == INSTANCE ServerSession WITH phase <- Phase,
  Requested <- RequestedSet, Untouched <- NoDestination

\* Each handler is called at most once and in order, and *puser_dst_ is
\* assigned exactly when the first one reports no error.
KeepsContract == Contract!Spec

\* With the end of the client's stream, if not before, the user has a request
\* or an error: no request, however cut short, leaves the session waiting.
Concludes == eof => <>(Phase # "reading")

\* The same of a request by IPv6 address, whose port the code comments as
\* "ipv6+port" (server_session_socks5.cpp:274) like that of any other.
V6RequestUnderstood == asked = "ok" =>
  (RequestTaken[4] = ATYP.v6 => dst = Named(RequestTaken))

=============================================================================
