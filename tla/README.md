# A TLA+ model of ProxySwiss

ProxySwiss forwards TCP connections: it listens on one address, either as a fixed tunnel
or as a SOCKS5 or HTTPS proxy server, connects to the destination directly or through a
chain of SOCKS5 proxies, and then relays bytes both ways. It is a single-threaded program
around boost::asio: everything after start-up happens in completion handlers that
`io_context::run()` dispatches (`src/proxyswiss/main.cpp:108`).

This directory models that code in TLA+, checks it with TLC and proves part of it with
TLAPS. Paths below are relative to the repository.

## The system

| component | source | state | operations | interacts with |
|---|---|---|---|---|
| server | `src/proxyswiss/server.cpp` | acceptor, `sess_sptr_`, history, log file | `open`, `start`, `do_accept`, `handle_accept` | makes the session that the next accept fills, and lets go of the one before; history and log file are shared by all sessions |
| session | `src/proxyswiss/detail/session.cpp` | two sockets, `input_`, `output_`, destination, result, two buffers | request read, output connected, answer written; tunnel: two reads, two writes | drives input and output; its own lifetime is the `shared_ptr` in whatever it has started |
| input | `detail/input.cpp` | the server session, if any | `read_connect_request`, `write_connect_response` | a fixed tunnel calls the handlers at once |
| output | `detail/output.cpp` | chain of client sessions, `cur_proxy_`, stored handler | `connect_through_chain`, `handle_resolve`, `connect_next`, two handlers per hop | binds a raw `this`; its stored handler keeps the session alive |
| SOCKS5 client | `src/proxy/detail/client_session_socks5.cpp` | handlers, buffers, `user_dst_` | six messages, ten handlers | called by output, once per hop |
| SOCKS5 server | `server_session_socks5.cpp` | handler, buffers, `puser_dst_` | eight messages, nine handlers | called by input |
| HTTPS server | `server_session_https.cpp`, `read_until.cpp` | line buffer, version, parsed destination | lines one character at a time, answer | called by input |
| command line | `config_from_cmdline.cpp` | `config`; `host`, `proxy_type_str`, `creds`, which all arguments share | once at start, one argument after the other | calls the URL parser for each argument |
| URL parser | `url_parser.cpp`, `ip_address.cpp`, `inet_pton.cpp`, `host_address.cpp` | none (`inet_pton` is a state machine over characters) | `parse`, `from_string_ipv4`, `from_string_ipv6` | the command line and the HTTPS server |
| debug ids | `debug_uid.h`, `debug_uid_table.h` | table of the numbers in use | `alloc` and `free`, by constructor and destructor of a session, debug builds only | log lines |
| other pure code | `inet_ntop`, `str`, `bin_writer`, `connect_response`, `destination*`, `print_config` | none | conversions | called by all |

What is hard here, and hard to test:

* two directions with four handlers over one pair of sockets, whose buffers are only kept
  apart by which handler begins which operation;
* half-closed streams, failures on one socket while the other still works, and results
  that are already queued when `close_all()` runs;
* lifetime: no object is owned by a loop, and several handlers run on a raw pointer that a
  `shared_ptr` stored elsewhere keeps valid;
* synchronous completions (a fixed tunnel's input, a refused request) that run a whole
  chain of calls inside one handler;
* protocols whose message lengths depend on bytes already read, with the tunnel's data
  right behind;
* an accept loop that must survive any number of failed accepts, and sessions that come,
  reach destinations and end in any order over shared state;
* texts cut up by searches that run forward over the whole rest, into variables that still
  hold what an earlier argument left;
* no timeout anywhere.

What makes each part correct, in one line: the relay is two byte pipes; a session owns
exactly the operation it waits for, reaches what was asked for and tells the truth about
it; each protocol session reads exactly its own message, calls each handler once, and says
what it was told; the server gives every client one session of its own and goes on
accepting; the configuration has what each argument says and nothing else.

## The modules

* **Pipe** - the promise of one direction of a tunnel: bytes in order, none lost or
  repeated, end after the last byte; or a cut.
* **Relay** (`session.cpp:181-267`) - the tunnel phase. `rd[s]` and `wr[s]` split an
  operation into begun, completed by the kernel, and dispatched, so that a completion that
  was queued before `close_all()` still runs after it. Bytes are named by their position.
  `handle_input_*` and `handle_output_*` are one action with the socket as its parameter,
  for the code is symmetric. Peers and kernel are the environment. Each direction is an
  instance of Pipe, with a refinement mapping.
* **Forwarding** - what a session promises its client: one destination, one attempt to
  connect to it, a true answer to a client that can be told, a relay only of a complete
  connection and only after that answer, and a log that names a destination the first time
  that any session reaches it. It knows nothing of chains, names or operations.
* **Session** (`session.cpp:57-191`, `output.cpp`, `input.cpp`) - the handshake of one
  session. An action is the completion of one operation with all that its handler calls
  before it returns. `held` is where `shared_ptr`s to the session are; the session dies
  with the last. `path` is a history variable, the hosts that the connection goes through.
  Implements Forwarding: the phase is read off the outstanding operation (`Phase`), the
  connection is complete when `path` is the whole route (`Complete`), and an answer of any
  other code than "succeeded" is a no (`Learned`). The steps along the chain are stutters.
* **ClientSession**, **ServerSession** (`proxy/client_session.h`, `server_session.h`) -
  the contracts: each handler once, in order, and the user's variable assigned exactly
  when there is no error.
* **Socks5Wire** - the layout of messages as a reference: how long a message is by its own
  fields, and what it names.
* **Socks5Client**, **Socks5Server** - the two ends, on real bytes. `op` and `need` are
  the outstanding operation and the bytes that it reads; a variable `taken` remembers all
  that was read, to compare with Socks5Wire. Both implement their contract.
* **Socks5Link** - the two ends composed over one connection, with bytes of the tunnel
  behind the handshake: two instances of the program chained.
* **HttpsServer** - `server_session_https` on `read_until`, a character at a time. A
  request is a stream of characters, of which only CR and LF count, so that where its
  lines end and how long they are is real; beside it is a record of what
  `parse_first_line` tells apart in the first line. The target of the first line may be
  one whose parse does not return ("spins", as in UrlParser): `op` is then
  "parse_first_line" for ever. Implements ServerSession.
* **Server** (`server.cpp`, `session.cpp:41-61` and `88-104`, `debug_uid*.h`) - start-up,
  the accept loop, and what sessions share. `live` is the session objects in memory,
  `handlers` those kept by an operation of their own; a started session reaches a
  destination at most once and ends, which stands for Session and Relay. `table` is the
  sequence of numbers in the order of `table_`; `reached` is a history variable.
* **Address**, **UrlParser** - `inet_pton` as its state machine and `parse()` as a
  function, with the searches in the order of the code. A text is a sequence of words and
  of the six characters that the code looks for (`: / @ [ ] %`), and no two words are
  adjacent (`Separated`), for a word is what stands between two of those characters; what
  `sscanf`, `strtoul` and the hex digits make of a word is given by constants, which give
  it one value at most. `Trace` is the run of `inet_pton` over a text, as a recursive
  function of the number of characters read. A parse that never returns has the result
  "spins".
* **Cmdline** (`config_from_cmdline.cpp`, `main.cpp:71-86`) - one action per argument,
  with the shared variables as state: `creds` is assigned only where the code assigns it.
* **Usage** - the usage text (`main.cpp:37-57`) as the reference: the forms of an argument
  (`QuadForm`, `LiteralForm`, `NameForm`, `OpenEntry`, `SecretEntry`) and of a line
  (`TunnelLine`, `ProxyLine`), and what each means, with IPv6 addresses after RFC 4291; and
  the other way round, in how many ways a configuration may be spelled. `SpellsAddress`
  says of every word of an IPv6 address which group it is, by the colons around it, and
  that every other group is zero. A line with a meaning is one of those forms
  (`Documented`).
* **RelayProofs**, **SessionProofs**, **Socks5ClientProofs**, **Socks5ServerProofs**,
  **Socks5LinkProofs**, **HttpsServerProofs**, **ServerProofs**, **CmdlineProofs** -
  theorems and proofs.
* **MC...** - the instances for TLC.

Which module uses which: Relay instantiates Pipe twice, Session Forwarding; Socks5Client and Socks5Server
extend Socks5Wire and instantiate ClientSession and ServerSession, HttpsServer
instantiates ServerSession; Socks5Link instantiates Socks5Client and Socks5Server over
shared variables; Usage extends Cmdline, which extends UrlParser, which extends Address.

Definitions named `Fault...` are seeded bugs: a wrong way to write the definition that
follows. They are no part of any specification; replacing the definition by one of them
shows that a property can fail.

## The runs

| run | states | bounds | shows |
|---|---|---|---|
| relay | 116 640 | buffer 2, 3 bytes per peer | both directions implement Pipe, with fairness (`DirectionsArePipes`); completeness, exclusion, half-close; release of a session whose streams have ended or failed (`SessionEnds`) |
| session | 202 832 | chains of 0 to 3 hops, by name or address, oversized or not | one operation, one reference, right hop; each completion leaves fewer to come (`EachStepCounts`); Forwarding is implemented (`KeepsPromise`); it settles |
| socks5_client | 68 556 | see below | exact reads, true verdict, secrets, contract; it concludes |
| socks5_server | 12 808 | see below | exact reads, understood request, true reply, contract; it concludes |
| socks5_link | 553 | five destinations, with and without credentials, 2 bytes each way | agreement of both ends, nothing lost to the tunnel, no deadlock |
| https | 147 102 | limit 3, every stream of up to 8 characters | exact head, acceptance, limit, contract; it concludes, scopes of IPv6 addresses aside |
| server | 88 445 | 3 clients, 5 places for objects, 2 destinations | one session per client, numbers, history and log; every waiting client is accepted |
| cmdline | 106 565 | see below | documented forms mean what the usage text says; what is accepted is what is written; nothing carried over; it concludes, or stays at an argument with a scope |

Why the bounds are enough. *Relay*: a stream longer than the buffer, so that the buffer is
reused with stale contents, and a buffer of more than one byte, so that reads are partial
and writes take several steps. The streams are not bounded in the proofs. *Session*: two
hops are the least for which "the next hop" is not the destination; three make a hop that
is neither first nor last; the same proxy twice is included. The proofs are for every
chain. *SOCKS5*: every address type, a name of length 0, wrong versions, methods, states
and codes, ports whose two bytes differ, and streams cut off after every byte; bytes
behind the message stand for the tunnel. *HTTPS*: the limit of 3 stands for 2048: with every
stream of up to 8 characters, lengths below, at and above it all occur, ended by LF or
CR LF or cut off, for the first line and for headers, with the tunnel's bytes behind;
first lines differ from a good one in one respect at a time. The proofs are for every
limit and every stream. *Server*: three
sessions are the least in which numbers are given back out of order with another one
between them; a place for each client's session, the one that the next accept fills and
the one that do_accept() is about to destroy (the action waits for a place, so five make
that wait impossible); two destinations, reached by several sessions in either order.
*Cmdline*: documented lines have an IPv6 address for every place and every length of the
"::", and ports 0, 80 and 65535; odd ones have every combination of right, odd and missing
scheme and every three unusual parts among credentials, host, port and path, in the place
of each argument; and there is every text of up to five characters and words in brackets,
with some of six to nine groups.

Deadlock checking is off throughout: a session that is over, or whose peer is silent,
really stops.

**Fairness.** `io_context::run()` dispatches every completed operation, so handlers are
weakly fair. Completions are weakly fair when what they wait for is there: bytes, the end
of a stream, a peer that drains its connection. Peers are not fair: they may be silent for
ever, and the code, which has no timeout, then waits for ever. For that reason `Concludes`
starts from a stream that ends, and `Settles` is under the assumption that operations
complete. In Relay a failed connection is noticed only by an operation on it, and after an
end of stream there may be none: `SessionEnds` says exactly that. In Server the fairness
is weak for the start and the handlers, and strong for an accept that completes with a
connection: that accepting does not fail for ever is the kernel's promise, the code only
promises to try again. Clients may wait, leave or never come. In Cmdline one thread runs
`main`, so Next is weakly fair; a parse that does not return enables no action.

All of this takes it that a handler returns, and one does not: a CONNECT to an IPv6
address with a scope, such as [::1%1]:80, keeps `inet_pton` in its loop
(`inet_pton.cpp:129-139`) inside `parse_first_line`, on the only thread. In HttpsServer
that is an outcome of the first line, which `ConcludesUnlessScope` excepts by name and the
run https_scope shows. Relay, Session, the SOCKS5 modules and Server are without it: what
`DirectionsArePipes`, `SessionEnds`, `Settles`, `EveryClientServed` and the `Concludes` of
SOCKS5 promise holds as long as no other session of the program has received such a
request. A SOCKS5 server never parses an address, so a program started with `tunnel` or
with a socks5 inProxy is not exposed to it.

### Where the code and its own words disagree

Each of these runs checks one statement of the repository, and TLC finds the behaviour
that violates it.

| run | statement | what happens |
|---|---|---|
| session_oversize | `client_session.h:32`: the instance must exist until all handlers are called | a tunnel whose second or later hop is refused for its length is released inside `conn_read_resp_addr_complete`, which then writes to a member (`client_session_socks5.cpp:380`) |
| socks5_server_ipv6 | "ipv6+port", `server_session_socks5.cpp:274` | the port of an IPv6 request is not swapped (`:298`) |
| socks5_link_cause | `case 4` and `case 8` of the client, `client_session_socks5.cpp:483-488` | `major_code_to_rep` has no return for an unreachable host and falls through to 5 (`server_session_socks5.cpp:348`), and sends 7 for a bad address type (`:350`) |
| https_scope | `*scope_id = current_word, state = done;`, `inet_pton.cpp:133` | the line is commented out: the parse of a CONNECT to [::1%1]:80 never ends, no handler is called, and the only thread is lost (`Endless`) |

Properties next to them say what does hold: `StaleOnlyAfterOversizedHop`,
`RequestUnderstood`, `DestinationArrives`, `VerdictIsTrue` and `ConcludesUnlessScope` leave
out exactly these cases.

In these places, too, the models follow code that is not what one would expect; they have
no run of their own.

* SOCKS5: the user name and password message has version 5
  (`client_session_socks5.cpp:159`), and expects 5 in the answer, where RFC 1929, cited at
  line 18, has 1 in both (`CredsMessage`). A request for a name of length 0 makes a
  destination without a host name, against `assert(puser_dst_->using_hostname())`
  (`server_session_socks5.cpp:264`; `ByName`; `RequestUnderstood` leaves it out).
* HTTPS: `verify_err = verify_header_line(line_)` is followed by a test of `err`
  (`server_session_https.cpp:96-97`), so that no header line is ever refused, and
  `AnotherLineRead` does not look at what it says. A target with a path passes
  `parse_first_line` under the comment "Allow only host:port format"
  (`server_session_https.cpp:145`; `Acceptable` does not look at `path`).
  `assert(... == eIPv4)` stands in the branch for IPv6 addresses
  (`destination_from_url_parser.cpp:34`).
* Command line: an address with a scope keeps the program reading for ever, as in
  https_scope (`ConcludesUnlessScope` of Cmdline says where). Credentials in `inProxy`,
  which the usage text has (`main.cpp:46`), are refused (`config_from_cmdline.cpp:187`;
  `Usage` leaves them out). A host that begins with a dotted quad, such as
  1.2.3.4.example.com, is the address (`FromStringV4`; `SpellsHost` allows it). A user
  name without a password is dropped (`Credentials`; `SpellsCreds` allows it). `@` ends the credentials at its first
  place, in a password as in a path.
* IPv6: a group may be empty behind the "::", so 1::2::3, and 1:2:3 without any "::", are
  accepted (`EndOfWord`; `SpellsAddress` takes what is left out for zero). An empty port is
  0 (`Number`; `SpellsPort`).

The models are of the build without assertions: where the two named above fail, they go
on as the code does.

## The proofs

The theorems hold for every value of the constants under the assumptions of the modules:
`RelayAssumption` (a buffer of at least one byte), `SessionAssumption` (configurations and
requests are of their type), `Socks5ClientAssumption` (names and passwords have at most
255 bytes, which `write_connect_request` has checked; addresses have 4 or 16),
`Socks5ServerAssumption` (a client sends bytes), `LinkAssumption` (what
`Socks5ClientAssumption` says, of the near session), `HttpsAssumption` (a limit of at least
one character; requests are of their type), `ServerAssumption` (`None` is no client, object
or number), `AddressAssumption` (a word is no delimiter, and has one value at most for
each conversion), `CmdlineAssumption` (arguments are texts), `UsageAssumption` (names are
no dotted quads, port numbers are at most 65535, the groups of an IPv6 address are hex
digits and fit) and `LinesAssumption` (a line that is given a meaning has one of the forms
of the usage text). TLC evaluates all of them.

**RelayProofs.** `RelayInv` says, for each direction, which place of its cycle it is in:
reading, read, writing, written, or at rest, and what then holds between the count of
bytes read, the bytes delivered, and the part of the buffer still to be written. None of
the safety properties is inductive alone: `InOrder` needs to know what is in the buffer,
`BufferExclusive` that the other operation is idle, `GracefulEnd` why an error completion
exists. One lemma per kind of action shows that it is preserved. Theorems: `TypeOK`,
`InOrder`, `NothingMislaid`, `BufferExclusive`, `EndAfterData`, `GracefulEnd`, and that
both directions implement the safety part of Pipe (`UpstreamImplementsPipe`,
`DownstreamImplementsPipe`): the initial state maps to Pipe's, and every step to a step of
Pipe or to a stutter.

**SessionProofs.** `SessionInv` ties the one outstanding operation to the stage of the
attempt (`Stage`), the references to it (`Lifetime`), and the result to the connection
made so far (`Outcome`). The lemmas follow the code: one for each thing that a handler
calls (`ConnectDone`, `ConnectThroughChain`, `ConnectNext`), one for each handler.
Theorems: every safety invariant of the run `session`, that a handshake is over after
five completions and two for each hop, whatever fails (`HandshakeEnds`: `StepsLeft` is a
measure that each completion decreases, because the operation that a handler starts is
further along than the one that it completes, and `cur` only grows), and that Session
implements Forwarding (`SessionKeepsPromise`). For that, `Progress` follows from the invariant: an
attempt under way is short of its destination, and a decided one succeeded exactly if it
is not. `DecidedKeeps` then maps `handle_connect_output` to Connects or GivesUp, whichever
of its callers has decided, and the other lemmas (`...Keeps`) map each remaining handler to
one action or to a stutter.

**Socks5ClientProofs.** `ClientInv` says what each outstanding operation finds (`Stage`:
how much has been read, what has been written, how many bytes it reads) and what the
handlers have been told and why (`Outcome`). It is needed because a verdict is decided by
a code read two operations earlier (`rep`) and the end of the reply by a length read one
operation earlier. The lemmas before it turn reading into arithmetic: a read appends its
bytes to what was taken (`TakeStep`), and behind the admission extends the reply and
nothing else (`ReplyStep`). Theorems: every safety property of the run `socks5_client`,
for any bytes that a proxy sends; that no read is larger than 257 bytes (`TypeOK`;
`conn_read_packet_addr_` has 270); and that the session implements ClientSession (safety
part). `RequestDecoded` is about the message alone: the encoding of every destination is
one whole request, and the reference decoder gives the destination back.

**Socks5ServerProofs.** `ServerInv` has the same two parts (`Stage`, `Outcome`) and the
two properties of an accepted request. The position of everything depends on NMETHODS, the
second byte of the stream, so the lemmas are about the request behind the greeting
(`RequestFacts`, `GreetingKept`, `AddressTaken`): a read leaves the greeting and the head
in place and adds its bytes to the request, and the bytes of an address stand in the
request as they were read (`AddressInPlace`). Theorems: every safety property of the run
`socks5_server`, for any bytes that a client sends; that no read is larger than 257 bytes;
and that the session implements ServerSession (safety part). Of the destination of an IPv6
request only the address is claimed: its port is wrong.

**Socks5LinkProofs.** `LinkInv` reuses both invariants: `Near!ClientInv` and
`Far!ServerInv`, where what each end has written (`outp`) is all that has ever gone over
the connection, read or not, without the bytes of the tunnel at its end (`Sent`,
`SentBack`). A step of the near session in the link is then a step of Socks5Client
(`NearSteps`) and one of the far session a step of Socks5Server (`FarKeepsInv`), so that
`ClientInvNext` and `ServerInvNext` carry over as they are; what the other end does
changes only what is still to be read, which neither invariant minds (`ClientInvKept`,
`ServerInvKept`). Two parts are about the link alone: `Relaying` (what is relayed comes
last, and only after success) and `Messages` (the rest is a whole number of messages, in
order). They are needed because the properties compare an end that has finished with
another that may be anywhere: what one has read is in front of what the other has
written (`InFront`), and the fields at the head of a message tell how long it is, so two
whole messages with the same head, one from each side, are the same (`SameMessage`,
`RequestOnWire`, `VerdictOnAnswer`). Theorems: every safety property of the run
`socks5_link`, for all credentials and destinations and any number of relayed bytes,
whatever breaks.

**HttpsServerProofs.** `HttpsInv` says what the line buffer holds (`LineSoFar`: what has
come since the last line feed, shorter than the limit), that no blank line and no line too
long has been passed (`HeadSoFar`), and what the handlers called so far rest on
(`Outcome`). `AcceptedExactly` is not inductive: that a blank line is the first one needs
what was read before, which the buffer, cleared for each line, no longer has. Theorems:
every safety property of the run `https`, and `TypeOK`, for every stream of characters and
every limit; and that the session implements ServerSession (safety part).

**ServerProofs.** `ServerInv` says which objects exist and what holds each (`Held`), that
sockets and accepted clients correspond one to one (`Peers`), that the queue has each
waiting client once (`Queue`), and two of the properties. `OneSessionPerClient` is not
inductive: it needs to know that no handler holds the session that `sess_sptr_` points to.
That `Alloc` returns a number at all is a lemma of its own (the least of those not used,
found among the first Len + 1), and so is what `Free` leaves in the table. Theorems: every
safety property of the run `server`, for any number of clients, objects and destinations.

**CmdlineProofs.** Four layers, from the bottom up, for arguments and command lines of any
length.

*inet_pton* (`AddressesParsed`). What the state machine has collected after n characters
is what those characters spell (`Along`), so that at the end it has accepted exactly the
regular texts (`Regular`: words are groups, and there are no more colons than groups
allow), and each as the one address that it spells. This is an induction over the
characters. The induction theorems of the library take a predicate as a parameter, which
the provers cannot instantiate; `NumbersInduction` is about a set of numbers in the place
of a predicate, and is proved from the well-foundedness of the finite subsets of Nat.
`Trace` and `Colons` are unfolded with it, one character at a time.

*url_parser*. The searches cut an argument into parts that put together are the argument
again, so that what is made of the parts is spelled by it.

*config_from_cmdline* (`CmdlineCorrect`). `CmdInv` ties each field of `cfg` to the
argument that it was made from and to `at`: what has been filled is what the arguments
before `at` say alone. That every argument passed was one that may stand there is a second
invariant. `NothingIsCarriedOver` needs the first and keeps `Parse` opaque: nothing gets
from one argument into the entry of another, whatever the parser does.
`ConfigIsSpelledByArguments` needs both, and what the parser does: whatever the program
runs with is spelled by its arguments, from end to end, in the ways that `Spells` allows;
those that are odder than the usage text are listed above.

*The other way round* (`DocumentedFormsAreAccepted`): a line of the usage text is never
refused and never taken for something else. Credentials in inProxy, which are refused,
and names that begin with a dotted quad, which are taken for the address, are not among
the forms of Usage. Each form of an argument is read as what it
means, with every search finding the place that the form has for it, which for IPv6 rests
on `LiteralText` being regular and spelling `LiteralAddress` only. From there
`LineIsRead` says what each argument of a line comes to (`LineRead`), and the invariant
`MeantSoFar` adds to `CmdInv` that the fields filled so far are those of the meaning. It
is needed because `DocumentedFormsAccepted` compares only a finished configuration and
says nothing of one that is half read.

Proved besides what the runs check, because a stronger property has taken its place there:
`TypeOK` of each module with proofs, `InOrder` and `EndAfterData` (now part of
`DirectionsArePipes`), `OneOperation` of Session (part of `HeldWhileUsed`), and
`AnswerIsTrue` and `TunnelReachesDestination` of Session (now part of `KeepsPromise`).

Model-checked only: liveness and fairness (`DirectionsArePipes` has a liveness part, of
which the safety part is proved; `SessionEnds`, `Settles`, `Concludes`, `BothConclude`,
`EveryClientServed`, and `ConcludesUnlessScope` of HttpsServer and of Cmdline), for which the prover has neither the rules
nor ENABLED; of `Settles` the measure is proved (`HandshakeEnds`). And the statements of
the table above, which are false. Every safety property that a passing run checks is
proved.

## Not modelled, and why

* Time. The code has no timer.
* TCP below a byte stream: a connection delivers a prefix of what was sent, then ends or
  breaks.
* Formatting: `inet_ntop`, `print_config`, `to_string`, the texts of errors; debug output
  and its assertions on `dbglog_uid_`. No decision depends on them.
  (`destination::to_wstring` prints an IPv6 address without brackets, and the usage text
  is put together with one separator too many, `main.cpp:37`.)
* Code that nothing calls: `ip_address::is_local`, `host_address::from_string`.
* The two switches of the factories (`server_session.cpp`, `client_session.cpp`), which
  have no state.
* That a resolver returns several addresses: the code takes the first.
* What `sscanf`, `strtoul` and a run of hex digits make of a word: given by constants of
  Address.
* `enable_logging()`: whether there is a log file is chosen at the start (`main.cpp:95`
  has the call commented out).
* Several sessions each with their full handshake and relay: they share only what Server
  has.
* Big-endian machines: `PortBytes` and `AddrV6Read` are for the little-endian ones that
  the project builds for.

## Plan

Done: all components that keep state; proofs of every safety property that a run checks,
for the relay, the handshake, both SOCKS5 ends alone and together, HTTPS, the server, the
command line and the parsers below it.

Left:

1. One module for all server sessions: that whatever implements ServerSession can take the
   place of input in Session.
2. The server over Forwarding: that what Server says of a started session (one destination
   reached at most once, one entry in the shared history and log) is what Forwarding
   promises.
3. Measures for the other conclusions, as `HandshakeEnds` is for `Settles`: that the
   protocol sessions and the reading of a command line take a bounded number of steps.
