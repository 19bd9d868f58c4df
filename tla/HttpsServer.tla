----------------------------- MODULE HttpsServer -----------------------------
(***************************************************************************)
(* server_session_https and read_until: an HTTP CONNECT request is read a  *)
(* character at a time, a line at a time, up to the blank line; between    *)
(* the request and Answer the session connects to the destination.         *)
(*                                                                         *)
(* A request is a stream of characters, of which only the ends of lines    *)
(* count; what parse_first_line makes of the text of its first line is a   *)
(* record of what it tells apart.                                          *)
(***************************************************************************)
EXTENDS Integers, Sequences

CONSTANTS
  Requests,                   \* what a client may send, tunnel data included
  MaxLine                     \* kMaxLineLen

Char == {"x", "CR", "LF"}

\* The first line: three parts, the method, the version, and the target as
\* url_parser sees it ("bad": it does not parse; "spins": parse() does not
\* return, as for an IPv6 address with a scope, see Address).
FirstLine == [parts3 : BOOLEAN, connect : BOOLEAN, version : {"1.0", "1.1", "other"},
              host : {"v4", "v6", "name", "bad", "spins"},
              scheme : BOOLEAN, user : BOOLEAN, port : BOOLEAN, path : BOOLEAN]

\* A request: its characters, and the text of its first line.
Request == [chars : Seq(Char), first : FirstLine]

ASSUME HttpsAssumption == MaxLine \in Nat \ {0} /\ Requests \subseteq Request

VARIABLES
  request, eof,               \* what the client sends, and if it ends there
  pos,                        \* how many of its characters have been read
  line,                       \* line_
  op,                         \* the outstanding operation, or "parse_first_line"
                              \*   for a handler that does not return from it
  ver,                        \* http_ver_
  dst,                        \* *puser_dst_: the kind of the host
  asked,                      \* what user_read_req_handler_ was called with
  told,                       \* the connect_response to write
  reply                       \* what has been written: [ver, code]

clientVars == <<request, eof>>
vars == <<clientVars, pos, line, op, ver, dst, asked, told, reply>>

NoReply == [ver |-> "none", code |-> 0]

TypeOK ==
  /\ request \in Request /\ eof \in BOOLEAN
  /\ pos \in 0..Len(request.chars)
  /\ line \in Seq(Char) /\ Len(line) <= MaxLine
  /\ op \in {"read_first_line", "parse_first_line", "read_another_line", "write", "none"}
  /\ ver \in {"1.0", "1.1"}
  /\ dst \in {"none", "v4", "v6", "name"}
  /\ asked \in {"pending", "ok", "protocol_violation", "line_too_long", "broken"}
  /\ told \in {"none", "Succeeded", "refused"}
  /\ reply \in [ver : {"1.0", "1.1"}, code : {200, 502}] \union {NoReply}

Init ==
  /\ request \in Requests /\ eof \in BOOLEAN
  /\ pos = 0 /\ line = <<>>
  /\ op = "read_first_line"
  /\ ver = "1.0" /\ dst = "none"
  /\ asked = "pending" /\ told = "none" /\ reply = NoReply

-----------------------------------------------------------------------------
(* read_until: one async_read per character.                                *)

EndsLine(l) == l # <<>> /\ l[Len(l)] = "LF"

\* read_next stops at the limit, or at the delimiter.
LineDone(l) == Len(l) = MaxLine \/ EndsLine(l)

\* The definitions named Fault... are seeded bugs, in the place of what follows.
FaultTrims(l) == Len(l) < MaxLine /\ EndsLine(l)

\* trim_line fails without the delimiter: the limit was reached before it.
Trims(l) == EndsLine(l)

\* What it leaves of the line.
Trimmed(l) ==
  LET n == IF Len(l) >= 2 /\ l[Len(l) - 1] = "CR" THEN 2 ELSE 1 IN
  IF Trims(l) THEN SubSeq(l, 1, Len(l) - n) ELSE l

\* parse_first_line, up to where it parses the target
TargetParsed(f) == f.parts3 /\ f.connect /\ f.version # "other"

\* It does not return from there.
Endless(f) == TargetParsed(f) /\ f.host = "spins"

\* What lets a first line pass.
Acceptable(f) ==
  /\ TargetParsed(f)
  /\ f.host \notin {"bad", "spins"}
  /\ ~f.scheme /\ ~f.user /\ f.port

\* read_line begins with buf_.clear().
ReadLine == op' = "read_another_line" /\ line' = <<>> /\ asked' = asked

\* The handler is called; the line stays as trim_line left it.
RequestDone(l, err) == asked' = err /\ op' = "none" /\ line' = Trimmed(l)

FaultFirstLine(l) ==                      \* assigns *puser_dst_ already here
  LET first == request.first IN
  /\ dst' = IF Acceptable(first) THEN first.host ELSE dst
  /\ ver' = IF Acceptable(first) THEN first.version ELSE ver
  /\ IF Acceptable(first) THEN ReadLine ELSE RequestDone(l, "protocol_violation")

\* inet_pton stays in its scope state: nothing is called any more.
Spin(l) == op' = "parse_first_line" /\ line' = Trimmed(l) /\ asked' = asked

\* handle_read_first_line
FirstLineRead(l) ==
  LET first == request.first IN
  /\ dst' = dst
  /\ \/ ~Trims(l) /\ RequestDone(l, "line_too_long") /\ ver' = ver
     \/ /\ Trims(l)
        /\ ver' = IF TargetParsed(first) THEN first.version ELSE ver
        /\ \/ Endless(first) /\ Spin(l)
           \/ /\ ~Endless(first) /\ ~Acceptable(first)
              /\ RequestDone(l, "protocol_violation")
           \/ Acceptable(first) /\ ReadLine

FaultAnotherLine(l) ==                    \* takes the first header for the end
  /\ ver' = ver
  /\ dst' = request.first.host
  /\ RequestDone(l, "ok")

FaultLostError(l) ==                      \* a line too long: no handler is called
  /\ ver' = ver
  /\ \/ ~Trims(l) /\ op' = "none" /\ UNCHANGED <<asked, line, dst>>
     \/ /\ Trims(l) /\ Trimmed(l) # <<>>
        /\ ReadLine /\ dst' = dst
     \/ /\ Trims(l) /\ Trimmed(l) = <<>>
        /\ RequestDone(l, "ok") /\ dst' = request.first.host

\* handle_read_another_line: the result of verify_header_line is not used, so
\* that what a header line says makes no difference.
AnotherLineRead(l) ==
  /\ ver' = ver
  /\ \/ ~Trims(l) /\ RequestDone(l, "line_too_long") /\ dst' = dst
     \/ /\ Trims(l) /\ Trimmed(l) # <<>>
        /\ ReadLine /\ dst' = dst
     \/ /\ Trims(l) /\ Trimmed(l) = <<>>
        /\ RequestDone(l, "ok") /\ dst' = request.first.host

\* handle_read: a character has come, and ends the line or not.
CharRead ==
  /\ op \in {"read_first_line", "read_another_line"}
  /\ pos < Len(request.chars)
  /\ pos' = pos + 1
  /\ LET l == Append(line, request.chars[pos + 1]) IN
       \/ /\ ~LineDone(l)
          /\ line' = l
          /\ UNCHANGED <<op, ver, dst, asked>>
       \/ /\ LineDone(l)
          /\ IF op = "read_first_line" THEN FirstLineRead(l) ELSE AnotherLineRead(l)
  /\ UNCHANGED <<clientVars, told, reply>>

-----------------------------------------------------------------------------
(* The answer, and errors.                                                  *)

FaultCode(mc) == IF mc = "Succeeded" THEN 502 ELSE 200

\* major_to_http_code, and the default
Code(mc) == IF mc = "Succeeded" THEN 200 ELSE 502

\* The session calls write_connect_response, which begins the write.
Answer(mc) ==
  /\ asked = "ok" /\ told = "none"
  /\ told' = mc /\ op' = "write"
  /\ UNCHANGED <<clientVars, pos, line, ver, dst, asked, reply>>

AnswerWritten ==
  /\ op = "write"
  /\ reply' = [ver |-> ver, code |-> Code(told)]
  /\ op' = "none"
  /\ UNCHANGED <<clientVars, pos, line, ver, dst, asked, told>>

\* Any operation may end with an error of the socket; a read must, once what
\* it waits for cannot come.
Breaks ==
  /\ op \in {"read_first_line", "read_another_line", "write"} /\ op' = "none"
  /\ asked' = IF op = "write" THEN asked ELSE "broken"
  /\ UNCHANGED <<clientVars, pos, line, ver, dst, told, reply>>

EndOfStream ==
  /\ op \in {"read_first_line", "read_another_line"}
  /\ eof /\ pos = Len(request.chars)
  /\ Breaks

Progress == CharRead \/ AnswerWritten \/ EndOfStream

Next == Progress \/ Breaks \/ \E mc \in {"Succeeded", "refused"} : Answer(mc)

Spec == Init /\ [][Next]_vars

\* What completes is dispatched; a silent client owes nothing, and the time
\* that the session takes to connect is its own.
LiveSpec == Spec /\ WF_vars(Progress)

-----------------------------------------------------------------------------
(* What the server session guarantees its user.                             *)

\* A line feed ends a blank line if another one comes right before it, or
\* before the carriage return in front of it; the first line is none.
LineFeed(p) == p > 0 /\ request.chars[p] = "LF"
BlankLine(p) ==
  LineFeed(p) /\ (LineFeed(p - 1) \/ (p > 1 /\ request.chars[p - 1] = "CR" /\ LineFeed(p - 2)))

\* The n characters up to p have no end of a line among them.
Unbroken(p, n) == n <= p /\ \A i \in p - n + 1..p : ~LineFeed(i)

\* An accepted request is a CONNECT to a host and a port, without a line too
\* long, and it has been read up to its blank line and not a character further:
\* what the client sends next goes to the tunnel, and nothing of the request
\* does (read_until reads one character at a time for that reason).
AcceptedExactly == asked = "ok" =>
  /\ BlankLine(pos) /\ \A p \in 1..pos - 1 : ~BlankLine(p)
  /\ \A p \in 1..pos : ~Unbroken(p, MaxLine)
  /\ LET first == request.first IN
       /\ first.parts3 /\ first.connect /\ first.version \in {"1.0", "1.1"}
       /\ ~first.scheme /\ ~first.user /\ first.port /\ dst = first.host

\* A line is refused for its length only if it is longer than the limit: one
\* that fills it exactly is not, although read_next looks at the limit first.
RefusedLineIsTooLong == asked = "line_too_long" =>
  Unbroken(pos, MaxLine) /\ (pos = MaxLine \/ LineFeed(pos - MaxLine))

\* The status line has the version of the request, and says 200 exactly if the
\* session has connected to the destination.
ReplyIsTrue == reply # NoReply =>
  /\ reply.ver = request.first.version
  /\ reply.code = 200 <=> told = "Succeeded"

-----------------------------------------------------------------------------
(* The inductive invariant of HttpsServerProofs.                            *)

Reading == op \in {"read_first_line", "read_another_line"}

\* The line buffer holds what has come since the last line feed, less than the
\* limit and no line feed of its own.
LineSoFar == Reading =>
  /\ Len(line) < MaxLine /\ Len(line) <= pos
  /\ \A i \in 1..Len(line) : line[i] = request.chars[pos - Len(line) + i]
  /\ Unbroken(pos, Len(line))
  /\ op = "read_first_line" => pos = Len(line)
  /\ op = "read_another_line" => LineFeed(pos - Len(line))

\* Neither a blank line nor one too long has been passed.
HeadSoFar == Reading => \A p \in 1..pos : ~BlankLine(p) /\ ~Unbroken(p, MaxLine)

\* The handlers called so far, and what that rests on.
Outcome ==
  /\ asked = "pending" <=> Reading \/ op = "parse_first_line"
  /\ op = "parse_first_line" => Endless(request.first)
  /\ op = "read_another_line" \/ asked = "ok" =>
       Acceptable(request.first) /\ ver = request.first.version
  /\ IF asked = "ok" THEN dst = request.first.host ELSE dst = "none" /\ told = "none"
  /\ op = "write" => told # "none"
  /\ reply # NoReply =>
       op = "none" /\ told # "none" /\ reply = [ver |-> ver, code |-> Code(told)]

HttpsInv ==
  /\ TypeOK /\ LineSoFar /\ HeadSoFar /\ Outcome
  /\ AcceptedExactly /\ RefusedLineIsTooLong

-----------------------------------------------------------------------------
(* The interface proxy/server_session.h.                                    *)

\* What input relies on (proxy/server_session.h).
Phase ==
  CASE asked = "pending" -> "reading"
    [] asked = "ok" /\ told = "none" -> "requested"
    [] op = "write" -> "answering"
    [] reply # NoReply -> "answered"
    [] OTHER -> "failed"

Contract == INSTANCE ServerSession WITH phase <- Phase,
  Requested <- {"v4", "v6", "name"}, Untouched <- "none"

\* Each handler is called at most once and in order, and *puser_dst_ is
\* assigned exactly when the first one reports no error.
KeepsContract == Contract!Spec

\* The first line comes in full, within the limit.
FirstLineComes == \E p \in 1..MaxLine : p <= Len(request.chars) /\ LineFeed(p)

\* With the end of the client's stream, if not before, the user has a request
\* or an error: no request, however cut short, leaves the session waiting.
\* The one exception is a target whose parse does not return.
ConcludesUnlessScope ==
  eof /\ ~(FirstLineComes /\ Endless(request.first)) => <>(Phase # "reading")

-----------------------------------------------------------------------------
(* What the code says, and does not do.                                     *)

\* "*scope_id = current_word, state = done;" (inet_pton.cpp:133): a scope ends
\* with the text, inet_pton with it, and the request is accepted or refused.
Concludes == eof => <>(Phase # "reading")

=============================================================================
