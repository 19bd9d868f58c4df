---------------------------- MODULE Socks5Client ----------------------------
(***************************************************************************)
(* client_session_socks5: what one hop's proxy is told, and how its        *)
(* answers are read, from write_connect_request to the verdict.            *)
(*                                                                         *)
(* The connection is two byte streams, inp and outp.  One asynchronous     *)
(* operation is outstanding at a time: a read takes exactly need bytes, a  *)
(* write gives the connection a whole message.  An action is its           *)
(* completion with all that the handler does; output calls                 *)
(* read_connect_response from within the write handler (output.cpp:157).   *)
(***************************************************************************)
EXTENDS Socks5Wire

CONSTANTS
  Credentials,                \* creds_ to consider: [user, pass], byte strings
  Destinations,               \* user_dst_ to consider
  Streams                     \* what a proxy may send over the connection

\* write_connect_request has refused longer names and passwords; an ip_address
\* has 4 or 16 bytes, and a destination without a host name goes by address.
Text == {s \in Seq(Byte) : Len(s) <= 255}

Encodable ==
  {d \in [kind : {"v4", "v6", "name"}, addr : Text, port : Port] :
     /\ d.kind = "v4" => Len(d.addr) = 4
     /\ d.kind = "v6" => Len(d.addr) = 16
     /\ d.kind = "name" => d.addr # <<>>}

ASSUME Socks5ClientAssumption ==
  /\ Credentials \subseteq [user : Text, pass : Text]
  /\ Destinations \subseteq Encodable
  /\ Streams \subseteq Seq(Byte)

VARIABLES
  creds, dst,                 \* creds_, user_dst_
  op,                         \* the outstanding operation, by who started it
  need,                       \* the bytes it reads
  rep,                        \* conn_read_packet_header_[1]
  written,                    \* what user_write_req_handler_ was called with
  verdict,                    \* what user_read_resp_handler_ was, or *puser_conn_resp_
  inp, outp,                  \* the connection: not yet read, written so far
  taken,                      \* all that has been read from it
  eof                         \* the proxy sends nothing more

clientVars == <<creds, dst, op, need, rep, written, verdict, taken>>
vars == <<clientVars, inp, outp, eof>>

Writes == {"auth_write_req", "auth_write_creds", "conn_write_req"}
ReadsOfRequest == {"auth_read_resp", "auth_read_creds_reply"}
ReadsOfResponse == {"conn_read_resp", "conn_read_resp_addr_domainname",
                    "conn_read_resp_addr"}
Op == Writes \union ReadsOfRequest \union ReadsOfResponse \union {"none"}

Major == {"Succeeded", "HostUnreachable", "ConnectionRefused", "BadAddressType",
          "UnknownError"}
ProxyError == {"protocol_violation", "bad_auth_method", "auth_failed"}
Error == ProxyError \union {"broken"}     \* broken: any error of the socket

TypeOK ==
  /\ creds \in Credentials /\ dst \in Destinations
  /\ op \in Op /\ need \in 0..257 /\ rep \in Byte
  /\ written \in {"pending", "ok"} \union Error
  /\ verdict \in {"pending"} \union Major \union Error
  /\ inp \in Seq(Byte) /\ outp \in Seq(Byte) /\ taken \in Seq(Byte)
  /\ eof \in BOOLEAN

ClientInit ==
  /\ creds \in Credentials /\ dst \in Destinations
  /\ op = "auth_write_req"
  /\ need = 0 /\ rep = 0
  /\ written = "pending" /\ verdict = "pending"
  /\ taken = <<>>

Init ==
  /\ ClientInit
  /\ inp \in Streams
  /\ outp = <<>>
  /\ eof \in BOOLEAN

-----------------------------------------------------------------------------
(* What it writes.                                                          *)

NoCreds == creds.user = <<>> /\ creds.pass = <<>>

AuthRequest == <<5, 1, IF NoCreds THEN 0 ELSE 2>>

CredsMessage ==
  <<5, Len(creds.user)>> \o creds.user \o <<Len(creds.pass)>> \o creds.pass

\* The definitions named Fault... are seeded bugs, in the place of what follows.
FaultConnectRequest ==                    \* the length of a name left out
  <<5, 1, 0, ATYP[dst.kind]>> \o dst.addr \o PortBytes(dst.port)

ConnectRequest ==
  <<5, 1, 0, ATYP[dst.kind]>>
    \o (IF dst.kind = "name" THEN <<Len(dst.addr)>> ELSE <<>>)
    \o dst.addr \o PortBytes(dst.port)

\* socks5_rep_to_major_code
RepToMajor(r) ==
  CASE r = 0 -> "Succeeded"
    [] r = 4 -> "HostUnreachable"
    [] r = 5 -> "ConnectionRefused"
    [] r = 8 -> "BadAddressType"
    [] OTHER -> "UnknownError"

-----------------------------------------------------------------------------
(* Operations.                                                              *)

Begin(o, n) == op' = o /\ need' = n

\* An async_read of need bytes completes; Got is what it has read.
Got == SubSeq(inp, 1, need)

Take(o) ==
  /\ op = o
  /\ Len(inp) >= need
  /\ inp' = SubSeq(inp, need + 1, Len(inp))
  /\ taken' = taken \o Got

FaultRequestDone(err) ==                  \* goes on after an error
  /\ written' = err
  /\ verdict' = verdict
  /\ Begin("conn_read_resp", 4)

\* call_and_clear_handler of the one handler or the other.
RequestDone(err) ==
  /\ written' = err
  /\ verdict' = verdict
  /\ IF err = "ok" THEN Begin("conn_read_resp", 4) ELSE Begin("none", 0)

ResponseDone(v) ==
  /\ verdict' = v
  /\ written' = written
  /\ Begin("none", 0)

Continue(o, n) == Begin(o, n) /\ UNCHANGED <<written, verdict>>

Message ==
  CASE op = "auth_write_req" -> AuthRequest
    [] op = "auth_write_creds" -> CredsMessage
    [] op = "conn_write_req" -> ConnectRequest

\* auth_write_req_handler, auth_write_creds_handler, conn_write_req_handler
Written ==
  /\ op \in Writes
  /\ outp' = outp \o Message
  /\ CASE op = "auth_write_req" -> Continue("auth_read_resp", 2)
       [] op = "auth_write_creds" -> Continue("auth_read_creds_reply", 2)
       [] op = "conn_write_req" -> RequestDone("ok")
  /\ UNCHANGED <<creds, dst, rep, inp, taken, eof>>

FaultAuthRespRead ==                      \* any method but "failed" will do
  /\ Take("auth_read_resp")
  /\ \/ (Got[1] # 5 \/ Got[2] = 255) /\ RequestDone("protocol_violation")
     \/ /\ Got[1] = 5 /\ Got[2] # 255
        /\ Continue(IF NoCreds THEN "conn_write_req" ELSE "auth_write_creds", 0)
  /\ UNCHANGED <<creds, dst, rep, outp, eof>>

\* auth_read_resp_handler
AuthRespRead ==
  /\ Take("auth_read_resp")
  /\ \/ Got[1] # 5 /\ RequestDone("protocol_violation")
     \/ Got[1] = 5 /\ Got[2] = 255 /\ RequestDone("bad_auth_method")
     \/ /\ Got[1] = 5 /\ Got[2] # 255 /\ Got[2] # (IF NoCreds THEN 0 ELSE 2)
        /\ RequestDone("protocol_violation")
     \/ /\ Got[1] = 5 /\ Got[2] = (IF NoCreds THEN 0 ELSE 2)
        /\ Continue(IF NoCreds THEN "conn_write_req" ELSE "auth_write_creds", 0)
  /\ UNCHANGED <<creds, dst, rep, outp, eof>>

FaultCredsReplyRead ==                    \* the status is not looked at
  /\ Take("auth_read_creds_reply")
  /\ \/ Got[1] # 5 /\ RequestDone("protocol_violation")
     \/ Got[1] = 5 /\ Continue("conn_write_req", 0)
  /\ UNCHANGED <<creds, dst, rep, outp, eof>>

\* auth_read_creds_reply_handler
CredsReplyRead ==
  /\ Take("auth_read_creds_reply")
  /\ \/ Got[1] # 5 /\ RequestDone("protocol_violation")
     \/ Got[1] = 5 /\ Got[2] # 0 /\ RequestDone("auth_failed")
     \/ Got[1] = 5 /\ Got[2] = 0 /\ Continue("conn_write_req", 0)
  /\ UNCHANGED <<creds, dst, rep, outp, eof>>

FaultHeaderRead ==                        \* no answer to an unknown address type
  /\ Take("conn_read_resp")
  /\ rep' = Got[2]
  /\ \/ Got[4] \notin {1, 3, 4} /\ Continue("none", 0)
     \/ /\ Got[4] \in {1, 3, 4}
        /\ Got[1] # 5 \/ Got[2] > 8
        /\ ResponseDone("protocol_violation")
     \/ /\ Got[1] = 5 /\ Got[2] <= 8
        /\ \/ Got[4] = 1 /\ Continue("conn_read_resp_addr", 6)
           \/ Got[4] = 3 /\ Continue("conn_read_resp_addr_domainname", 1)
           \/ Got[4] = 4 /\ Continue("conn_read_resp_addr", 18)
  /\ UNCHANGED <<creds, dst, outp, eof>>

\* conn_read_resp_handler: the address follows, and its type tells how long.
HeaderRead ==
  /\ Take("conn_read_resp")
  /\ rep' = Got[2]
  /\ \/ /\ Got[1] # 5 \/ Got[2] > 8 \/ Got[4] \notin {1, 3, 4}
        /\ ResponseDone("protocol_violation")
     \/ /\ Got[1] = 5 /\ Got[2] <= 8
        /\ \/ Got[4] = 1 /\ Continue("conn_read_resp_addr", 6)
           \/ Got[4] = 3 /\ Continue("conn_read_resp_addr_domainname", 1)
           \/ Got[4] = 4 /\ Continue("conn_read_resp_addr", 18)
  /\ UNCHANGED <<creds, dst, outp, eof>>

FaultNameLengthRead ==                    \* the port is forgotten
  /\ Take("conn_read_resp_addr_domainname")
  /\ Continue("conn_read_resp_addr", Got[1])
  /\ UNCHANGED <<creds, dst, rep, outp, eof>>

\* conn_read_resp_addr_domainname_handler
NameLengthRead ==
  /\ Take("conn_read_resp_addr_domainname")
  /\ Continue("conn_read_resp_addr", Got[1] + 2)
  /\ UNCHANGED <<creds, dst, rep, outp, eof>>

\* The three address handlers and conn_read_resp_addr_complete: the address
\* is dropped, and the reply counts now.
AddressRead ==
  /\ Take("conn_read_resp_addr")
  /\ ResponseDone(RepToMajor(rep))
  /\ UNCHANGED <<creds, dst, rep, outp, eof>>

\* Any operation may end with an error of the socket; a read must, once what
\* it waits for cannot come.
Breaks ==
  /\ op # "none"
  /\ \/ op \notin ReadsOfResponse /\ RequestDone("broken")
     \/ op \in ReadsOfResponse /\ ResponseDone("broken")
  /\ UNCHANGED <<creds, dst, rep, inp, outp, taken, eof>>

EndOfStream ==
  /\ op \notin Writes /\ eof /\ Len(inp) < need
  /\ Breaks

Progress ==
  \/ Written \/ AuthRespRead \/ CredsReplyRead
  \/ HeaderRead \/ NameLengthRead \/ AddressRead
  \/ EndOfStream

Next == Progress \/ Breaks

Spec == Init /\ [][Next]_vars

\* io_context::run() dispatches what completes.  A read completes when its
\* bytes are there; nothing makes a silent proxy send them, and the client
\* has no timeout.
LiveSpec == Spec /\ WF_vars(Progress)

-----------------------------------------------------------------------------
(* What the client session guarantees its user.                             *)

\* The proxy's answers as read: the method, the status of the credentials if
\* there are any, and what remains is the reply.
Admission == IF NoCreds THEN 2 ELSE 4
Reply == SubSeq(taken, Admission + 1, Len(taken))

Admitted ==
  /\ Len(taken) >= Admission
  /\ taken[1] = 5 /\ taken[2] = (IF NoCreds THEN 0 ELSE 2)
  /\ NoCreds \/ (taken[3] = 5 /\ taken[4] = 0)

\* A verdict comes from one whole reply, of any address type, and not a byte
\* behind it has been read: what the destination sends first is still there
\* for the tunnel (client_session_socks5.cpp:293-470).
ReplyExactlyTaken == verdict \in Major =>
  /\ WholeMessage(Reply)
  /\ Reply[2] <= 8

\* "Succeeded" is what the proxy said, after it had let the client in; any
\* other reply is a refusal (conn_read_resp_addr_complete).
SuccessIsGranted == verdict \in Major =>
  /\ Admitted
  /\ verdict = "Succeeded" <=> Reply[2] = 0

\* User name and password leave only for a proxy that asked for them, the
\* request only for one that let the client in.
SecretsOnlyIfAsked ==
  /\ Len(outp) > 3 => taken[1] = 5 /\ taken[2] = (IF NoCreds THEN 0 ELSE 2)
  /\ written = "ok" => Admitted

\* What the proxy has got when the request handler is told of success is a
\* greeting, the credentials, and one request that names the destination.
RequestNamesDestination == written = "ok" =>
  LET n == 3 + (IF NoCreds THEN 0 ELSE Len(CredsMessage))
      request == SubSeq(outp, n + 1, Len(outp)) IN
  /\ WholeGreeting(SubSeq(outp, 1, 3))
  /\ WholeMessage(request) /\ request[2] = 1
  /\ Named(request) = dst

-----------------------------------------------------------------------------
(* The inductive invariant of Socks5ClientProofs.                           *)

Secrets == IF NoCreds THEN <<>> ELSE CredsMessage

\* The proxy has chosen the method.
Greeted ==
  /\ Len(taken) >= 2
  /\ taken[1] = 5 /\ taken[2] = (IF NoCreds THEN 0 ELSE 2)

\* The head of the reply is read and good, and rep remembers its code.
HeadAccepted ==
  /\ Len(Reply) >= 4
  /\ Reply[1] = 5 /\ Reply[2] = rep /\ rep <= 8 /\ Reply[4] \in {1, 3, 4}

\* What each operation finds, and how much it reads.
Stage ==
  /\ op = "auth_write_req" => taken = <<>> /\ outp = <<>>
  /\ op = "auth_read_resp" => need = 2 /\ taken = <<>> /\ outp = AuthRequest
  /\ op \in {"auth_write_creds", "auth_read_creds_reply"} =>
       ~NoCreds /\ Greeted /\ Len(taken) = 2
  /\ op = "auth_write_creds" => outp = AuthRequest
  /\ op = "auth_read_creds_reply" => need = 2 /\ outp = AuthRequest \o Secrets
  /\ op = "conn_write_req" =>
       Admitted /\ Len(taken) = Admission /\ outp = AuthRequest \o Secrets
  /\ op = "conn_read_resp" => need = 4 /\ Len(taken) = Admission
  /\ op = "conn_read_resp_addr_domainname" =>
       need = 1 /\ HeadAccepted /\ Reply[4] = 3 /\ Len(Reply) = 4
  /\ op = "conn_read_resp_addr" =>
       /\ HeadAccepted
       /\ Len(Reply) = IF Reply[4] = 3 THEN 5 ELSE 4
       /\ need = MessageLength(Reply) - Len(Reply)

\* What the handlers have been told, and what that rests on.
Outcome ==
  /\ op \in Writes \union ReadsOfRequest => written = "pending"
  /\ op \in ReadsOfResponse => written = "ok"
  /\ written = "ok" => Admitted /\ outp = (AuthRequest \o Secrets) \o ConnectRequest
  /\ verdict # "pending" => op = "none" /\ written = "ok"
  /\ verdict \in Major =>
       HeadAccepted /\ WholeMessage(Reply) /\ verdict = RepToMajor(rep)
  /\ Len(outp) > 3 => Greeted

ClientInv == TypeOK /\ Stage /\ Outcome

-----------------------------------------------------------------------------
\* What output relies on (proxy/client_session.h).
Phase ==
  CASE written = "pending" -> "writing"
    [] written = "ok" /\ verdict = "pending" -> "reading"
    [] verdict \in Major -> "answered"
    [] OTHER -> "failed"

\* With the end of the proxy's stream, if not before, the user has an answer:
\* no reply, however cut short, leaves the session waiting.
Concludes == eof => <>(Phase \in {"answered", "failed"})

Contract == INSTANCE ClientSession WITH phase <- Phase,
  response <- IF verdict \in Major THEN verdict ELSE "none"

\* Each handler is called at most once, the second one after the first, and
\* *puser_conn_resp_ is assigned exactly when the second reports no error.
KeepsContract == Contract!Spec

=============================================================================
