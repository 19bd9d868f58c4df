---------------------------- MODULE ClientSession ----------------------------
(***************************************************************************)
(* The interface proxy/client_session.h as output uses it: a request is    *)
(* written, a response is read, and each handler is called once, with an   *)
(* error that ends the session or without one.                             *)
(***************************************************************************)
CONSTANT Major                \* connect_response::major_code

VARIABLES
  phase,
  response                    \* the user's connect_response

vars == <<phase, response>>

Init == phase = "writing" /\ response = "none"

\* write_connect_request's handler, and read_connect_response from within it
RequestWritten ==
  /\ phase = "writing"
  /\ phase' = "reading"
  /\ UNCHANGED response

\* read_connect_response's handler
ResponseRead ==
  /\ phase = "reading"
  /\ phase' = "answered"
  /\ response' \in Major

\* either handler with an error
Fails ==
  /\ phase \in {"writing", "reading"}
  /\ phase' = "failed"
  /\ UNCHANGED response

Next == RequestWritten \/ ResponseRead \/ Fails

Spec == Init /\ [][Next]_vars
=============================================================================
