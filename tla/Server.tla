------------------------------- MODULE Server --------------------------------
(***************************************************************************)
(* The server: its start, the accept loop, and what the sessions share.    *)
(* server.cpp, session.cpp:41-61 and 88-104, debug_uid.h and               *)
(* debug_uid_table.h, as main.cpp:91-110 uses them.                        *)
(*                                                                         *)
(* sess_sptr_ always points to the session whose socket the next accept    *)
(* fills; do_accept() makes a new one before it lets go of the old one.  A *)
(* session object lives as long as some shared_ptr to it does: sess_sptr_, *)
(* or the handlers of its own operations.  What a started session does     *)
(* alone is in Session.tla and Relay.tla; here it reaches a destination,   *)
(* at most once, and comes to an end.  Every handler is one action, since  *)
(* one thread runs io_context::run().                                      *)
(*                                                                         *)
(* Each session takes a number for the log lines (debug builds) from a     *)
(* table that all sessions share, and gives it back when it is destroyed.  *)
(***************************************************************************)
EXTENDS Integers, Sequences, FiniteSets

CONSTANTS
  Client,          \* who may connect, each of them once
  Slot,            \* places in memory for session objects: a bound on how many
  Dest,            \* id_str of the destinations that sessions reach
  None             \* no session, no client, no number

ASSUME ServerAssumption == None \notin Client \union Slot \union Nat

VARIABLES
  acpt,            \* the acceptor: "new", "listening", "closed"
  accept,          \* what async_accept has: "none", "pending", "ok", "err"
  sess_sptr,       \* the session that the next accept fills
  handlers,        \* sessions kept alive by the handlers of an operation
  live,            \* session objects that exist
  uid,             \* dbg_uid_ of each
  table,           \* table_: the numbers in use
  peer,            \* whose connection a session's socket is
  backlog,         \* connections that the kernel has queued
  client,          \* "away", "queued", "accepted", "left", "done"
  reached,         \* destinations that sessions have been connected to
  busy,            \* started sessions that have not reached one yet
  history,         \* history_
  logging,         \* logfile_ is open
  log              \* lines written to it

acceptVars == <<acpt, accept, sess_sptr>>
sessionVars == <<handlers, live, uid, table, peer, busy>>
clientVars == <<backlog, client>>
sharedVars == <<reached, history, logging, log>>
vars == <<acceptVars, sessionVars, clientVars, sharedVars>>

TypeOK ==
  /\ acpt \in {"new", "listening", "closed"}
  /\ accept \in {"none", "pending", "ok", "err"}
  /\ sess_sptr \in Slot \union {None}
  /\ live \subseteq Slot /\ handlers \subseteq live /\ busy \subseteq handlers
  /\ uid \in [Slot -> Nat \union {None}]
  /\ table \in Seq(Nat)
  /\ peer \in [Slot -> Client \union {None}]
  /\ backlog \in Seq(Client)
  /\ client \in [Client -> {"away", "queued", "accepted", "left", "done"}]
  /\ reached \subseteq Dest /\ history \subseteq Dest
  /\ logging \in BOOLEAN
  /\ log \in Seq(Dest)

\* Logging is off unless enable_logging() could open the file; main.cpp:95
\* has the call commented out.
Init ==
  /\ acpt = "new" /\ accept = "none" /\ sess_sptr = None
  /\ live = {} /\ handlers = {} /\ busy = {}
  /\ uid = [s \in Slot |-> None]
  /\ table = <<>>
  /\ peer = [s \in Slot |-> None]
  /\ backlog = <<>>
  /\ client = [c \in Client |-> "away"]
  /\ reached = {} /\ history = {}
  /\ logging \in BOOLEAN /\ log = <<>>

-----------------------------------------------------------------------------
(* The table of numbers.                                                    *)

Used(t) == {t[i] : i \in DOMAIN t}

\* core::alloc: the smallest number that is not in the table.  Its search
\* stops at 2^32 - 1, far beyond what the objects in memory can use up.
Alloc(t) == CHOOSE n \in 0..Len(t) : n \notin Used(t) /\ \A m \in 0..n-1 : m \in Used(t)

FaultFree(t, n) == SubSeq(t, 1, Len(t) - 1)   \* takes the last one

Without(t, i) == SubSeq(t, 1, i - 1) \o SubSeq(t, i + 1, Len(t))

\* core::free: the first entry with this value is erased.
Free(t, n) ==
  IF n \in Used(t)
  THEN Without(t, CHOOSE j \in DOMAIN t : t[j] = n /\ \A k \in 1..j-1 : t[k] # n)
  ELSE t

-----------------------------------------------------------------------------
(* Start-up and the accept loop.                                            *)

\* Where new puts the next session object.
FreeSlot == CHOOSE s \in Slot : s \notin live

\* server::open
Open ==
  /\ acpt = "new"
  /\ acpt' = "listening"
  /\ UNCHANGED <<accept, sess_sptr, sessionVars, clientVars, sharedVars>>

\* open, bind or listen fails: the acceptor is closed and main returns.
OpenFails ==
  /\ acpt = "new"
  /\ acpt' = "closed"
  /\ UNCHANGED <<accept, sess_sptr, sessionVars, clientVars, sharedVars>>

\* server::do_accept, with the sessions that handlers keep: the new session
\* takes its number before sess_sptr_ lets go of the old one, which is then
\* destroyed, and its connection with it, unless it has been started.
DoAccept(kept) ==
  LET s == FreeSlot
      old == {sess_sptr} \ (kept \union {None})
      taken == Append(table, Alloc(table)) IN
  /\ live # Slot
  /\ sess_sptr' = s
  /\ accept' = "pending"
  /\ live' = (live \union {s}) \ old
  /\ uid' = [t \in Slot |-> IF t = s THEN Alloc(table) ELSE IF t \in old THEN None ELSE uid[t]]
  /\ table' = IF old = {} THEN taken ELSE Free(taken, uid[sess_sptr])

\* server::start
Start ==
  /\ acpt = "listening" /\ sess_sptr = None
  /\ DoAccept(handlers)
  /\ UNCHANGED <<acpt, handlers, busy, peer, clientVars, sharedVars>>

FaultHandleAccepted ==            \* the handlers do not keep the session
  /\ accept = "ok"
  /\ UNCHANGED <<handlers, busy>>
  /\ DoAccept(handlers)
  /\ UNCHANGED <<acpt, peer, clientVars, sharedVars>>

\* server::handle_accept without an error: session::start stores handlers
\* with shared_from_this, then the next accept is begun.
HandleAccepted ==
  /\ accept = "ok"
  /\ handlers' = handlers \union {sess_sptr}
  /\ busy' = busy \union {sess_sptr}
  /\ DoAccept(handlers')
  /\ UNCHANGED <<acpt, peer, clientVars, sharedVars>>

FaultHandleAcceptFailed ==        \* the loop ends with the first error
  /\ accept = "err"
  /\ accept' = "none"
  /\ UNCHANGED <<acpt, sess_sptr, sessionVars, clientVars, sharedVars>>

\* server::handle_accept with an error: the loop goes on.
HandleAcceptFailed ==
  /\ accept = "err"
  /\ DoAccept(handlers)
  /\ UNCHANGED <<acpt, handlers, busy, peer, clientVars, sharedVars>>

-----------------------------------------------------------------------------
(* Started sessions.                                                        *)

FaultReaches(s, d) ==             \* looks its own destinations up, not all
  /\ s \in busy
  /\ busy' = busy \ {s}
  /\ reached' = reached \union {d}
  /\ log' = IF logging THEN Append(log, d) ELSE log
  /\ history' = history \union {d}
  /\ UNCHANGED <<acceptVars, handlers, live, uid, table, peer, clientVars, logging>>

\* session::handle_connect_output with success.  plogfile_ is never null in a
\* started session, but a stream that is not open takes nothing.
Reaches(s, d) ==
  /\ s \in busy
  /\ busy' = busy \ {s}
  /\ reached' = reached \union {d}
  /\ IF d \in history THEN UNCHANGED <<history, log>>
     ELSE /\ history' = history \union {d}
          /\ log' = IF logging THEN Append(log, d) ELSE log
  /\ UNCHANGED <<acceptVars, handlers, live, uid, table, peer, clientVars, logging>>

\* The last handler of a session returns: ~session, and ~debug_uid with it.
Ends(s) ==
  /\ s \in handlers
  /\ handlers' = handlers \ {s} /\ busy' = busy \ {s}
  /\ live' = live \ {s}
  /\ table' = Free(table, uid[s])
  /\ uid' = [uid EXCEPT ![s] = None]
  /\ peer' = [peer EXCEPT ![s] = None]
  /\ client' = [client EXCEPT ![peer[s]] = "done"]
  /\ UNCHANGED <<acceptVars, backlog, sharedVars>>

-----------------------------------------------------------------------------
(* The clients and the kernel.                                              *)

Connects(c) ==
  /\ acpt = "listening" /\ client[c] = "away"
  /\ client' = [client EXCEPT ![c] = "queued"]
  /\ backlog' = Append(backlog, c)
  /\ UNCHANGED <<acceptVars, sessionVars, sharedVars>>

\* A queued client gives up; its connection leaves the queue.
Leaves(c) ==
  /\ client' = [client EXCEPT ![c] = "left"]
  /\ \E i \in DOMAIN backlog : backlog[i] = c /\ backlog' = Without(backlog, i)
  /\ UNCHANGED <<acceptVars, sessionVars, sharedVars>>

\* async_accept completes with the connection at the head of the queue.
Accepts ==
  /\ accept = "pending" /\ backlog # <<>>
  /\ accept' = "ok"
  /\ peer' = [peer EXCEPT ![sess_sptr] = Head(backlog)]
  /\ client' = [client EXCEPT ![Head(backlog)] = "accepted"]
  /\ backlog' = Tail(backlog)
  /\ UNCHANGED <<acpt, sess_sptr, handlers, live, uid, table, busy, sharedVars>>

\* async_accept completes with an error, the queue left as it is.
AcceptFails ==
  /\ accept = "pending"
  /\ accept' = "err"
  /\ UNCHANGED <<acpt, sess_sptr, sessionVars, clientVars, sharedVars>>

Next ==
  \/ Open \/ OpenFails \/ Start
  \/ HandleAccepted \/ HandleAcceptFailed
  \/ \E s \in Slot : Ends(s) \/ \E d \in Dest : Reaches(s, d)
  \/ \E c \in Client : Connects(c) \/ Leaves(c)
  \/ Accepts \/ AcceptFails

Spec == Init /\ [][Next]_vars

\* main runs through; io_context::run() dispatches what has completed.  That
\* accepting does not fail forever is the kernel's promise: it may fail any
\* number of times in a row, each time at once.
Fairness ==
  /\ WF_vars(Start) /\ WF_vars(HandleAccepted \/ HandleAcceptFailed)
  /\ SF_vars(Accepts)

LiveSpec == Spec /\ Fairness

-----------------------------------------------------------------------------
(* What the server guarantees.                                              *)

\* No two session objects have the same number in the log lines, and the
\* table holds the numbers of the existing ones and no other: nothing is
\* given back twice, early, or never (debug_uid.h:11-17).
NumbersDistinct ==
  /\ \A s, t \in live : uid[s] = uid[t] => s = t
  /\ Used(table) = {uid[s] : s \in live}
  /\ \A i, j \in DOMAIN table : table[i] = table[j] => i = j

\* Whatever order the sessions reach their destinations in, history_ holds
\* what any of them has reached, and an open log file has each destination
\* once (session.cpp:95-103).
LogTellsHistory ==
  /\ history = reached
  /\ \A i, j \in DOMAIN log : log[i] = log[j] => i = j
  /\ {log[i] : i \in DOMAIN log} = IF logging THEN history ELSE {}

\* A client that has been accepted has one session object of its own until
\* that session ends by itself; every other object is the one that the next
\* accept will fill: do_accept() destroys no session that was started, and
\* leaves none behind that nothing will end (server.cpp:71-97).
OneSessionPerClient ==
  /\ \A c \in Client : client[c] = "accepted" =>
       \E s \in live : peer[s] = c /\ \A t \in live : peer[t] = c => t = s
  /\ \A s \in live : s = sess_sptr \/ (peer[s] \in Client /\ client[peer[s]] = "accepted")

\* A client in the queue is accepted unless it gives up, however often
\* accepting fails before: each handler begins the next accept.
EveryClientServed == \A c \in Client :
  client[c] = "queued" ~> client[c] # "queued"

-----------------------------------------------------------------------------
(* The inductive invariant behind the safety properties.                    *)

\* Every object is held, the one of sess_sptr_ by nothing else.
Held ==
  /\ live = handlers \union ({sess_sptr} \ {None})
  /\ sess_sptr \notin handlers
  /\ accept = "none" <=> sess_sptr = None

\* The sockets that have a peer are those of the started sessions and that
\* of an accept that has completed; no two have the same.
Peers ==
  /\ \A s \in Slot : peer[s] # None <=> s \in handlers \/ (s = sess_sptr /\ accept = "ok")
  /\ \A s \in Slot : peer[s] # None => client[peer[s]] = "accepted"
  /\ \A s, t \in Slot : peer[s] = peer[t] /\ peer[s] # None => s = t
  /\ \A c \in Client : client[c] = "accepted" => \E s \in Slot : peer[s] = c

\* The queue has each waiting client once.
Queue ==
  /\ \A i \in DOMAIN backlog : client[backlog[i]] = "queued"
  /\ \A i, j \in DOMAIN backlog : backlog[i] = backlog[j] => i = j

\* The accept loop and the sessions it has started as one invariant.
ServerInv ==
  /\ TypeOK
  /\ Held
  /\ NumbersDistinct /\ (\A s \in live : uid[s] \in Nat)
  /\ Peers
  /\ Queue
  /\ LogTellsHistory

=============================================================================
