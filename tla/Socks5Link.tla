----------------------------- MODULE Socks5Link -----------------------------
(***************************************************************************)
(* Two sessions of this program back to back: the last hop of one chain is *)
(* the SOCKS5 server of another instance (README.md: chain proxy servers,  *)
(* start proxy server).  Socks5Client and Socks5Server share a connection, *)
(* on which the far session relays as soon as its answer is written        *)
(* (session.cpp:158-179) while the near one may still read that answer.    *)
(* A session that is done with an error closes, and so does one that has   *)
(* told of a refusal or been told of it.                                   *)
(***************************************************************************)
EXTENDS Socks5Wire

CONSTANTS
  Credentials, Destinations,  \* of the near session
  Relayed                     \* bound: bytes that each side relays

VARIABLES
  creds, dst, cOp, cNeed, rep, written, verdict, cTaken,       \* the client
  sDst, sOp, sNeed, asked, told, answered, sTaken,             \* the server
  up, down,                   \* the bytes under way, to the server and back
  fromNear, fromFar           \* how many bytes each side has relayed

clientVars == <<creds, dst, cOp, cNeed, rep, written, verdict, cTaken>>
serverVars == <<sDst, sOp, sNeed, asked, told, answered, sTaken>>
vars == <<clientVars, serverVars, up, down, fromNear, fromFar>>

\* The payload of the tunnel: bytes that no message of the handshake holds
\* where the two ends look.
Payload == 200

\* A session that has failed, or refused, closes its end of the connection.
ClientClosed == cOp = "none" /\ verdict # "Succeeded"
ServerClosed ==
  \/ sOp = "none" /\ asked \notin {"pending", "ok"}
  \/ answered = "broken"
  \/ answered = "ok" /\ told # "Succeeded"

Client == INSTANCE Socks5Client WITH
  Streams <- {}, op <- cOp, need <- cNeed, taken <- cTaken,
  inp <- down, outp <- up, eof <- ServerClosed

Server == INSTANCE Socks5Server WITH
  Streams <- {}, dst <- sDst, op <- sOp, need <- sNeed, taken <- sTaken,
  inp <- up, outp <- down, eof <- ClientClosed

\* The near session is given what its handlers can encode.
ASSUME LinkAssumption ==
  /\ Credentials \subseteq [user : Client!Text, pass : Client!Text]
  /\ Destinations \subseteq Client!Encodable
  /\ Relayed \in Nat

Init ==
  /\ Client!ClientInit /\ Server!ServerInit
  /\ up = <<>> /\ down = <<>>
  /\ fromNear = 0 /\ fromFar = 0

NearStep(A) == UNCHANGED <<serverVars, fromNear, fromFar>> /\ A
FarStep(A) == UNCHANGED <<clientVars, fromNear, fromFar>> /\ A

ClientStep == NearStep(Client!Next)

ServerStep == FarStep(Server!Next)

\* Both ends of the tunnel: make_tunnel follows the verdict, and the answer.
NearRelays ==
  /\ verdict = "Succeeded" /\ fromNear < Relayed
  /\ up' = Append(up, Payload) /\ fromNear' = fromNear + 1
  /\ UNCHANGED <<clientVars, serverVars, down, fromFar>>

FarRelays ==
  /\ answered = "ok" /\ told = "Succeeded" /\ fromFar < Relayed
  /\ down' = Append(down, Payload) /\ fromFar' = fromFar + 1
  /\ UNCHANGED <<clientVars, serverVars, up, fromNear>>

Next == ClientStep \/ ServerStep \/ NearRelays \/ FarRelays

Spec == Init /\ [][Next]_vars

\* Both event loops dispatch what completes, and the far session, which
\* connects to the destination meanwhile, gives some answer.
Fairness ==
  /\ WF_vars(NearStep(Client!Progress))
  /\ WF_vars(FarStep(Server!Progress))
  /\ WF_vars(FarStep(\E mc \in Client!Major : Server!Answer(mc)))

LiveSpec == Spec /\ Fairness

-----------------------------------------------------------------------------
(* What the two ends guarantee together.                                    *)

\* The far session connects to the destination that the near one was given:
\* conn_write_req and the conn_read_req_addr_*_handlers are inverse, but for
\* the port that goes with an IPv6 address.
DestinationArrives == asked = "ok" =>
  /\ sDst.kind = dst.kind /\ sDst.addr = dst.addr
  /\ dst.kind # "v6" => sDst.port = dst.port

\* The near session takes its connection for complete exactly when the far
\* one has completed it.
VerdictIsTrue == verdict \in Client!Major =>
  /\ told # "none" /\ asked = "ok"
  /\ verdict = "Succeeded" <=> told = "Succeeded"

\* Neither handshake takes a byte of the tunnel for its own, nor leaves one of
\* its own to the tunnel, although the far side may relay before the near one
\* has read the whole reply.
Repeated(n) == [i \in 1..n |-> Payload]

PayloadIntact ==
  /\ verdict = "Succeeded" => down = Repeated(fromFar)
  /\ answered = "ok" /\ told = "Succeeded" => up = Repeated(fromNear)

\* Neither end waits for the other forever, whatever breaks.
BothConclude == <>[](cOp = "none" /\ sOp = "none" /\ asked # "pending")

\* "case 4: return connect_response::eHostUnreachable" and "case 8: return
\* connect_response::eBadAddressType" (client_session_socks5.cpp:483-488): the
\* near end reads the codes that mean what the far end was told.
CauseArrives == verdict \in Client!Major => verdict = told

=============================================================================
