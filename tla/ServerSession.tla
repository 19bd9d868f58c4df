---------------------------- MODULE ServerSession ----------------------------
(***************************************************************************)
(* The interface proxy/server_session.h as input uses it: a request is     *)
(* read into the user's destination, and once the user has an answer it is *)
(* written; each handler is called once, with an error that ends the       *)
(* session or without one.                                                 *)
(***************************************************************************)
CONSTANTS
  Requested,                  \* the destinations that a client can ask for
  Untouched                   \* the user's destination before

VARIABLES
  phase,
  dst                         \* the user's destination

vars == <<phase, dst>>

Init == phase = "reading" /\ dst = Untouched

\* read_connect_request's handler; dst is assigned in no other case.
RequestRead ==
  /\ phase = "reading"
  /\ phase' = "requested"
  /\ dst' \in Requested

\* write_connect_response is called
StartAnswer ==
  /\ phase = "requested"
  /\ phase' = "answering"
  /\ UNCHANGED dst

\* its handler
AnswerWritten ==
  /\ phase = "answering"
  /\ phase' = "answered"
  /\ UNCHANGED dst

\* either handler with an error
Fails ==
  /\ phase \in {"reading", "answering"}
  /\ phase' = "failed"
  /\ UNCHANGED dst

Next == RequestRead \/ StartAnswer \/ AnswerWritten \/ Fails

Spec == Init /\ [][Next]_vars
=============================================================================
