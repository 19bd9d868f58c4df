-------------------------------- MODULE Relay --------------------------------
(***************************************************************************)
(* The tunnel phase of a session (proxyswiss/detail/session.cpp:181-267):  *)
(* two sockets, two read buffers, and four completion handlers that copy   *)
(* what one socket reads to the other until both directions have ended or  *)
(* one of the sockets fails.                                               *)
(*                                                                         *)
(* An asynchronous operation has three moments: the session starts it, the *)
(* kernel completes it, and io_context::run() later dispatches its         *)
(* handler.  rd[s] and wr[s] hold where the read and the write of socket s *)
(* are, so that a result that is already queued when close_all() runs is   *)
(* still dispatched after it, as asio does.                                *)
(*                                                                         *)
(* Bytes are named by their position in the sending peer's stream (0 is    *)
(* the zero a fresh buffer holds).                                         *)
(***************************************************************************)
EXTENDS Naturals, Sequences

CONSTANTS
  BufSize,                    \* kReadBufSize
  MaxSent                     \* bound: bytes each peer may send

ASSUME RelayAssumption ==
  /\ BufSize \in Nat \ {0}
  /\ MaxSent \in Nat

Socket == {"input", "output"}

Other(s) == IF s = "input" THEN "output" ELSE "input"

VARIABLES
  \* the peers and the network
  sent,                       \* sent[s]: bytes the peer of s has sent
  fin,                        \* fin[s]: that peer has shut down its side
  broken,                     \* broken[s]: the connection of s has failed
  out,                        \* out[s]: bytes taken for the peer of s
  \* the session
  got,                        \* got[s]: bytes read from s so far
  buf,                        \* buf[s]: the read buffer of s
  rd,                         \* rd[s]: the async_read_some on s
  num,                        \* num[s]: num_bytes of its last completion
  wr,                         \* wr[s]: the async_write on s
  from, upto,                 \* buffer positions from+1..upto still to write
  shut,                       \* shut[s]: shutdown(shutdown_send) was done
  open                        \* the two sockets are open (close_all closes both)

peerVars == <<sent, fin, broken>>
readVars == <<got, buf, rd, num>>
writeVars == <<out, wr, from, upto>>
vars == <<peerVars, readVars, writeVars, shut, open>>

Idle == "idle"                \* no operation outstanding
Pending == "pending"          \* started, not completed by the kernel

TypeOK ==
  /\ sent \in [Socket -> 0..MaxSent]
  /\ fin \in [Socket -> BOOLEAN]
  /\ broken \in [Socket -> BOOLEAN]
  /\ out \in [Socket -> Seq(Nat)]
  /\ got \in [Socket -> 0..MaxSent]
  /\ buf \in [Socket -> [1..BufSize -> Nat]]
  /\ rd \in [Socket -> {Idle, Pending, "ok", "eof", "err"}]
  /\ num \in [Socket -> 0..BufSize]
  /\ wr \in [Socket -> {Idle, Pending, "ok", "err"}]
  /\ from \in [Socket -> 0..BufSize]
  /\ upto \in [Socket -> 0..BufSize]
  /\ shut \in [Socket -> BOOLEAN]
  /\ open \in BOOLEAN

-----------------------------------------------------------------------------
(* make_tunnel(): fresh zeroed buffers and one read on each socket.        *)

Init ==
  /\ sent = [s \in Socket |-> 0]
  /\ fin = [s \in Socket |-> FALSE]
  /\ broken = [s \in Socket |-> FALSE]
  /\ out = [s \in Socket |-> <<>>]
  /\ got = [s \in Socket |-> 0]
  /\ buf = [s \in Socket |-> [i \in 1..BufSize |-> 0]]
  /\ rd = [s \in Socket |-> Pending]
  /\ num = [s \in Socket |-> 0]
  /\ wr = [s \in Socket |-> Idle]
  /\ from = [s \in Socket |-> 0]
  /\ upto = [s \in Socket |-> 0]
  /\ shut = [s \in Socket |-> FALSE]
  /\ open = TRUE

-----------------------------------------------------------------------------
(* The peers and the kernel.                                               *)

PeerSend(s) ==
  /\ open /\ ~fin[s] /\ ~broken[s]
  /\ sent[s] < MaxSent
  /\ sent' = [sent EXCEPT ![s] = @ + 1]
  /\ UNCHANGED <<fin, broken, readVars, writeVars, shut, open>>

PeerShut(s) ==
  /\ open /\ ~fin[s] /\ ~broken[s]
  /\ fin' = [fin EXCEPT ![s] = TRUE]
  /\ UNCHANGED <<sent, broken, readVars, writeVars, shut, open>>

\* A reset, or a loss of the connection: from here on reads and writes fail.
\* Data that arrived before may still be read first.
PeerBreak(s) ==
  /\ open /\ ~broken[s]
  /\ broken' = [broken EXCEPT ![s] = TRUE]
  /\ UNCHANGED <<sent, fin, readVars, writeVars, shut, open>>

\* async_read_some completes with some of the bytes that have arrived.
ReadData(s) ==
  /\ rd[s] = Pending /\ open
  /\ \E n \in 1..BufSize :
       /\ got[s] + n <= sent[s]
       /\ buf' = [buf EXCEPT ![s] = [i \in 1..BufSize |->
                    IF i <= n THEN got[s] + i ELSE @[i]]]
       /\ got' = [got EXCEPT ![s] = @ + n]
       /\ num' = [num EXCEPT ![s] = n]
  /\ rd' = [rd EXCEPT ![s] = "ok"]
  /\ UNCHANGED <<peerVars, writeVars, shut, open>>

ReadEof(s) ==
  /\ rd[s] = Pending /\ open
  /\ fin[s] /\ got[s] = sent[s] /\ ~broken[s]
  /\ rd' = [rd EXCEPT ![s] = "eof"]
  /\ UNCHANGED <<peerVars, got, buf, num, writeVars, shut, open>>

\* The connection failed, or the socket was closed under the operation.
ReadFails(s) ==
  /\ rd[s] = Pending
  /\ broken[s] \/ ~open
  /\ rd' = [rd EXCEPT ![s] = "err"]
  /\ UNCHANGED <<peerVars, got, buf, num, writeVars, shut, open>>

\* async_write moves its range out of the other socket's read buffer; the
\* kernel takes it a piece at a time, here a byte at a time.
WriteByte(t) ==
  /\ wr[t] = Pending /\ open /\ ~broken[t]
  /\ out' = [out EXCEPT ![t] = Append(@, buf[Other(t)][from[t] + 1])]
  /\ from' = [from EXCEPT ![t] = @ + 1]
  /\ wr' = [wr EXCEPT ![t] = IF from[t] + 1 = upto[t] THEN "ok" ELSE Pending]
  /\ UNCHANGED <<peerVars, readVars, upto, shut, open>>

WriteFails(t) ==
  /\ wr[t] = Pending
  /\ broken[t] \/ ~open
  /\ wr' = [wr EXCEPT ![t] = "err"]
  /\ UNCHANGED <<peerVars, readVars, out, from, upto, shut, open>>

-----------------------------------------------------------------------------
(* The handlers.  Every pending operation holds a shared_ptr to the        *)
(* session, so the session is destroyed, and its sockets closed, when a    *)
(* handler returns and no operation is left.                               *)

KeepOpenWhileUsed ==
  open' = (open /\ \E s \in Socket : rd'[s] # Idle \/ wr'[s] # Idle)

\* close_all(): both sockets at once.
CloseAll == open' = FALSE

\* FaultX... operators are seeded bugs, never part of Next: each is a wrong way
\* to write the definition that follows it, and some property must notice.
FaultWholeBuffer(t, n) ==       \* kReadBufSize written, not num_bytes
  /\ wr' = [wr EXCEPT ![t] = Pending]
  /\ from' = [from EXCEPT ![t] = 0]
  /\ upto' = [upto EXCEPT ![t] = BufSize]

\* begin_output_write / begin_input_write
BeginWrite(t, n) ==
  /\ wr' = [wr EXCEPT ![t] = Pending]
  /\ from' = [from EXCEPT ![t] = 0]
  /\ upto' = [upto EXCEPT ![t] = n]

\* begin_input_read / begin_output_read
BeginRead(s) == rd' = [rd EXCEPT ![s] = Pending]

EndRead(s) == rd' = [rd EXCEPT ![s] = Idle]
EndWrite(t) == wr' = [wr EXCEPT ![t] = Idle]

FaultReadAhead(s) ==            \* the next read is begun with the write
  /\ rd[s] = "ok"
  /\ BeginRead(s)
  /\ BeginWrite(Other(s), num[s])
  /\ UNCHANGED <<peerVars, got, buf, num, out, shut, open>>

\* handle_input_read / handle_output_read
HandleReadOk(s) ==
  /\ rd[s] = "ok"
  /\ EndRead(s)
  /\ BeginWrite(Other(s), num[s])
  /\ UNCHANGED <<peerVars, got, buf, num, out, shut, open>>

FaultCloseOnEof(s) ==           \* eof treated as a hard error
  /\ rd[s] = "eof"
  /\ EndRead(s)
  /\ CloseAll
  /\ UNCHANGED <<peerVars, got, buf, num, writeVars, shut>>
FaultForgetEof(s) ==            \* eof noticed but not passed on
  /\ rd[s] = "eof"
  /\ EndRead(s)
  /\ UNCHANGED <<peerVars, got, buf, num, writeVars, shut>>
  /\ KeepOpenWhileUsed
FaultReadAgain(s) ==            \* passed on, and then read once more
  /\ rd[s] = "eof"
  /\ BeginRead(s)
  /\ shut' = [shut EXCEPT ![Other(s)] = shut[Other(s)] \/ open]
  /\ UNCHANGED <<peerVars, got, buf, num, writeVars, open>>

HandleReadEof(s) ==
  /\ rd[s] = "eof"
  /\ EndRead(s)
  /\ shut' = [shut EXCEPT ![Other(s)] = shut[Other(s)] \/ open]
  /\ UNCHANGED <<peerVars, got, buf, num, writeVars>>
  /\ KeepOpenWhileUsed

HandleReadErr(s) ==
  /\ rd[s] = "err"
  /\ EndRead(s)
  /\ CloseAll
  /\ UNCHANGED <<peerVars, got, buf, num, writeVars, shut>>

\* handle_input_write / handle_output_write
HandleWriteOk(t) ==
  /\ wr[t] = "ok"
  /\ EndWrite(t)
  /\ BeginRead(Other(t))
  /\ UNCHANGED <<peerVars, got, buf, num, out, from, upto, shut, open>>

HandleWriteErr(t) ==
  /\ wr[t] = "err"
  /\ EndWrite(t)
  /\ CloseAll
  /\ UNCHANGED <<peerVars, readVars, out, from, upto, shut>>

-----------------------------------------------------------------------------
Peer(s) == PeerSend(s) \/ PeerShut(s) \/ PeerBreak(s)
CompleteRead(s) == ReadData(s) \/ ReadEof(s) \/ ReadFails(s)
CompleteWrite(t) == WriteByte(t) \/ WriteFails(t)
HandleRead(s) == HandleReadOk(s) \/ HandleReadEof(s) \/ HandleReadErr(s)
HandleWrite(t) == HandleWriteOk(t) \/ HandleWriteErr(t)

Next == \E s \in Socket :
  Peer(s) \/ CompleteRead(s) \/ CompleteWrite(s) \/ HandleRead(s) \/ HandleWrite(s)

Spec == Init /\ [][Next]_vars

\* io_context::run() dispatches every completed operation; the kernel
\* completes a read that has something to report and a write whose peer
\* drains its connection.  The peers themselves owe nothing.
Fairness == \A s \in Socket :
  /\ WF_vars(CompleteRead(s)) /\ WF_vars(CompleteWrite(s))
  /\ WF_vars(HandleRead(s)) /\ WF_vars(HandleWrite(s))

LiveSpec == Spec /\ Fairness

-----------------------------------------------------------------------------
(* What the relay guarantees.                                              *)

\* Every byte a peer receives is the byte at the same position of the other
\* peer's stream: nothing lost in the middle, repeated, reordered or stale
\* from an earlier use of the buffer (async_write over a buffer that the next
\* async_read_some reuses, session.cpp:193-251).
InOrder == \A s \in Socket :
  /\ Len(out[Other(s)]) <= got[s]
  /\ \A i \in 1..Len(out[Other(s)]) : out[Other(s)][i] = i

\* Bytes read from s that its peer's peer has not been given yet.
InHand(s) ==
  IF rd[s] = "ok" THEN num[s]
  ELSE IF wr[Other(s)] \in {Pending, "err"} THEN upto[Other(s)] - from[Other(s)]
  ELSE 0

\* While the session is open, every byte taken from a socket has either been
\* given to the other one or is in the range being written: no completion
\* drops part of a buffer (num_bytes handed from handle_*_read to begin_*_write).
NothingMislaid == open =>
  \A s \in Socket : got[s] = Len(out[Other(s)]) + InHand(s)

\* A read buffer is never the target of a read while it is the source of a
\* write; there is at most one operation per direction at any time.
BufferExclusive == \A s \in Socket : rd[s] = Idle \/ wr[Other(s)] = Idle

\* The end of a stream is passed on only after the peer really ended it and
\* every byte of it has been delivered (shutdown_send in handle_*_read).
EndAfterData == \A s \in Socket : shut[Other(s)] =>
  fin[s] /\ Len(out[Other(s)]) = sent[s]

\* A session that ends although no connection failed has ended both
\* directions: a half-closed tunnel is not torn down while the other
\* direction still flows.
GracefulEnd == ~open /\ (\A s \in Socket : ~broken[s]) =>
  \A s \in Socket : shut[s]

\* Each direction implements Pipe.
DirectionState(s) ==
  IF shut[Other(s)] THEN "ended" ELSE IF open THEN "flowing" ELSE "cut"

Upstream == INSTANCE Pipe WITH
  sent <- sent["input"], fin <- fin["input"],
  delivered <- out["output"], state <- DirectionState("input")

Downstream == INSTANCE Pipe WITH
  sent <- sent["output"], fin <- fin["output"],
  delivered <- out["input"], state <- DirectionState("output")

\* What the output peer sees of the input peer's stream is a pipe, and one
\* that moves: session.cpp:203-211 and 247-267 together.
UpstreamIsPipe == Upstream!PipeLiveSpec

\* The same for the other direction: session.cpp:222-230 and 241-259.
DownstreamIsPipe == Downstream!PipeLiveSpec

\* A tunnel is two pipes, whatever the one direction does to the other.
DirectionsArePipes == UpstreamIsPipe /\ DownstreamIsPipe

\* When both peers have finished, the session is released: no operation keeps
\* the shared_ptr alive forever.
ReleasedAfterBothEnd == (\A s \in Socket : fin[s]) ~> ~open

\* A failed connection ends the session, unless that side had already ended
\* its stream: then nothing is pending on it, and the failure shows only at
\* the next write to it.
FailureEndsSession == \A s \in Socket :
  broken[s] ~> (~open \/ shut[Other(s)])

\* Nothing keeps a session that has no more to do (session.cpp:203-267).
SessionEnds == ReleasedAfterBothEnd /\ FailureEndsSession

-----------------------------------------------------------------------------
(* The inductive invariant behind the safety properties.  The progress of   *)
(* one direction, from the read of s to the write of Other(s), is told by   *)
(* the one operation it has outstanding.                                    *)

\* Bytes of s delivered so far; they are always 1, 2, ..., Done(s).
Done(s) == Len(out[Other(s)])

Delivered(s) == \A i \in 1..Done(s) : out[Other(s)][i] = i

Reading(s) == rd[s] \in {Pending, "eof", "err"} =>
  /\ wr[Other(s)] = Idle
  /\ got[s] = Done(s)
  /\ rd[s] = "eof" => fin[s] /\ got[s] = sent[s]

HasRead(s) == rd[s] = "ok" =>
  /\ wr[Other(s)] = Idle
  /\ num[s] > 0 /\ got[s] = Done(s) + num[s]
  /\ \A i \in 1..num[s] : buf[s][i] = Done(s) + i

Writing(s) == wr[Other(s)] \in {Pending, "err"} =>
  /\ rd[s] = Idle
  /\ from[Other(s)] < upto[Other(s)]
  /\ got[s] = Done(s) + upto[Other(s)] - from[Other(s)]
  /\ \A i \in from[Other(s)]+1..upto[Other(s)] :
       buf[s][i] = Done(s) + i - from[Other(s)]

HasWritten(s) == wr[Other(s)] = "ok" => rd[s] = Idle /\ got[s] = Done(s)

\* A direction with nothing outstanding has ended, unless the session closed.
AtRest(s) ==
  /\ shut[Other(s)] => /\ rd[s] = Idle /\ wr[Other(s)] = Idle
                       /\ fin[s] /\ got[s] = sent[s] /\ got[s] = Done(s)
  /\ open => rd[s] # Idle \/ wr[Other(s)] # Idle \/ shut[Other(s)]

\* Errors come from a failed connection or from close_all.
ErrorsHaveCause(s) ==
  /\ rd[s] = "err" => broken[s] \/ ~open
  /\ wr[Other(s)] = "err" => broken[Other(s)] \/ ~open

DirectionInv(s) ==
  /\ Done(s) <= got[s] /\ got[s] <= sent[s]
  /\ Delivered(s)
  /\ Reading(s) /\ HasRead(s) /\ Writing(s) /\ HasWritten(s)
  /\ AtRest(s)
  /\ ErrorsHaveCause(s)

\* session.cpp:193-267 as one invariant: at every moment each direction is in
\* exactly one place of its read-write cycle, and the counters agree with it.
RelayInv ==
  /\ TypeOK
  /\ \A s \in Socket : DirectionInv(s)
  /\ GracefulEnd

=============================================================================
