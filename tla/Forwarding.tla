----------------------------- MODULE Forwarding -----------------------------
(***************************************************************************)
(* What one session promises to its client, whatever chain of proxies it   *)
(* takes and however often an operation of it fails: it is given one       *)
(* destination; it makes the connection to it or gives up, once; a client  *)
(* that can be told is told which, before the first byte is relayed; only  *)
(* a complete connection is relayed; and the log names a destination the   *)
(* first time that a session reaches it, and no other.  Session.tla is     *)
(* shown to implement this module.                                         *)
(***************************************************************************)
EXTENDS Sequences

CONSTANT
  Host

VARIABLES
  silent,                     \* the client cannot be told (a fixed tunnel)
  phase,                      \* "waiting", "connecting", "answering",
                              \* "relaying" or "gone"
  target,                     \* the host to connect to
  complete,                   \* the connection to it exists
  told,                       \* what the client knows: "nothing", "yes", "no"
  history,                    \* the hosts that any session has reached
  log                         \* those that this session reached first

vars == <<silent, phase, target, complete, told, history, log>>

Init ==
  /\ silent \in BOOLEAN
  /\ phase = "waiting"
  /\ target = "none"
  /\ ~complete
  /\ told = "nothing"
  /\ history \in SUBSET Host
  /\ log = <<>>

\* The destination is known, from the client or from the configuration.
Ask ==
  /\ phase = "waiting"
  /\ phase' = "connecting"
  /\ target' \in Host
  /\ UNCHANGED <<silent, complete, told, history, log>>

\* The last host of the route has been reached.
Connects ==
  /\ phase = "connecting"
  /\ phase' = IF silent THEN "relaying" ELSE "answering"
  /\ complete' = TRUE
  /\ history' = history \union {target}
  /\ log' = IF target \in history THEN log ELSE Append(log, target)
  /\ UNCHANGED <<silent, target, told>>

\* Some host of the route has not.
GivesUp ==
  /\ phase = "connecting"
  /\ phase' = IF silent THEN "gone" ELSE "answering"
  /\ UNCHANGED <<silent, target, complete, told, history, log>>

\* The client learns how it went.
Answer ==
  /\ phase = "answering"
  /\ phase' = IF complete THEN "relaying" ELSE "gone"
  /\ told' = IF complete THEN "yes" ELSE "no"
  /\ UNCHANGED <<silent, target, complete, history, log>>

\* The client is lost, or the relay has ended.
Ends ==
  /\ phase \in {"waiting", "answering", "relaying"}
  /\ phase' = "gone"
  /\ UNCHANGED <<silent, target, complete, told, history, log>>

Next == Ask \/ Connects \/ GivesUp \/ Answer \/ Ends

Spec == Init /\ [][Next]_vars
=============================================================================
