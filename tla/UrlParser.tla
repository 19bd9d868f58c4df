------------------------------ MODULE UrlParser ------------------------------
(***************************************************************************)
(* url_parser_T::parse (url_parser.cpp:20-190) and the host_address that   *)
(* it fills (host_address.cpp:21-31).  Where the code searches from x on,  *)
(* the search here is in the text that is left; positions count from 1,    *)
(* and 0 is npos.  A pointer that may be null is a set of at most one      *)
(* element.                                                                *)
(***************************************************************************)
EXTENDS Address

First(places) == IF places = {} THEN 0 ELSE CHOOSE i \in places : \A j \in places : i <= j

Find(text, c, x) == First({i \in x..Len(text) : text[i] = c})

FindScheme(text) ==
  First({i \in 1..Len(text) - 2 : SubSeq(text, i, i + 2) = <<":", "/", "/">>})

From(text, x) == SubSeq(text, x, Len(text))
StartsWith(text, c) == text # <<>> /\ text[1] = c

-----------------------------------------------------------------------------
(* The host, at the start of what is left.                                  *)

NoHost == [kind |-> "none", value |-> <<>>]
Host(kind, value) == [kind |-> kind, value |-> value]

HostIs(host, length) == [result |-> "ok", host |-> host, length |-> length]
HostFails(result) == [result |-> result, host |-> NoHost, length |-> 0]

\* Behind the bracket the first ':', or without one the first '/', must come
\* at once, if there is either.
GoesOn(text) ==
  IF Find(text, ":", 1) # 0 THEN Find(text, ":", 1) = 1
  ELSE IF Find(text, "/", 1) # 0 THEN Find(text, "/", 1) = 1
  ELSE text = <<>>

Bracketed(text) ==
  LET close == Find(text, "]", 2)
      raw == SubSeq(text, 2, close - 1) IN
  CASE close = 0 -> HostFails("bad")
    [] close # 0 /\ Spins(raw) -> HostFails("spins")
    [] close # 0 /\ ~Spins(raw) ->
         IF FromStringV6(raw) # None /\ GoesOn(From(text, close + 1))
         THEN HostIs(Host("v6", The(FromStringV6(raw))), close) ELSE HostFails("bad")

\* A host without brackets ends before the first ':', or if there is none
\* before the first '/'.
Plain(text) ==
  LET n == IF Find(text, ":", 1) # 0 THEN Find(text, ":", 1) - 1
           ELSE IF Find(text, "/", 1) # 0 THEN Find(text, "/", 1) - 1
           ELSE Len(text)
      raw == SubSeq(text, 1, n) IN
  IF FromStringV4(raw) # None THEN HostIs(Host("v4", The(FromStringV4(raw))), n)
  ELSE IF raw = <<>> THEN HostFails("bad")
  ELSE HostIs(Host("name", raw), n)

ParseHost[text \in Text] == IF StartsWith(text, "[") THEN Bracketed(text) ELSE Plain(text)

-----------------------------------------------------------------------------
(* The port and the path, behind the host.                                  *)

PathStart(text) == IF Find(text, "/", 1) = 0 THEN Len(text) + 1 ELSE Find(text, "/", 1)

\* str_to_uint makes 0 of nothing.
Number(raw) ==
  IF raw = <<>> THEN {0} ELSE IF Len(raw) = 1 /\ raw[1] \in Word THEN Dec[raw[1]] ELSE None

FaultPort(text) ==                \* ports over 0xffff are cut down to 16 bits
  {n % (MaxUint16 + 1) : n \in Number(SubSeq(text, 2, PathStart(text) - 1))}

Port(text) ==
  {n \in Number(SubSeq(text, 2, PathStart(text) - 1)) : n <= MaxUint16}

PortAndPath[text \in Text] ==
  IF StartsWith(text, ":")
  THEN [result |-> IF Port(text) = None THEN "bad" ELSE "ok",
        port |-> Port(text), path |-> From(text, PathStart(text))]
  ELSE [result |-> "ok", port |-> None, path |-> text]

-----------------------------------------------------------------------------
(* The whole.                                                               *)

Url(result, scheme, user, pass, host, port, path) ==
  [result |-> result, scheme |-> scheme, user |-> user, pass |-> pass,
   host |-> host, port |-> port, path |-> path]

NoUrl(result) == Url(result, None, None, None, NoHost, None, <<>>)

\* What stands behind the scheme.
Behind[text \in Text] ==
  LET a == Find(text, "@", 1)
      creds == SubSeq(text, 1, a - 1)
      c == Find(creds, ":", 1)
      h == ParseHost[From(text, a + 1)]
      p == PortAndPath[From(text, a + h.length + 1)] IN
  IF h.result # "ok" THEN NoUrl(h.result)
  ELSE IF p.result # "ok" THEN NoUrl(p.result)
  ELSE Url("ok", None,
           IF a = 0 THEN None ELSE {IF c = 0 THEN creds ELSE SubSeq(creds, 1, c - 1)},
           IF c = 0 THEN None ELSE {From(creds, c + 1)},
           h.host, p.port, p.path)

Parse[text \in Text] ==
  LET s == FindScheme(text) IN
  CASE s = 0 -> Behind[text]
    [] s = 1 -> NoUrl("bad")
    [] s > 1 -> [Behind[From(text, s + 3)] EXCEPT !.scheme = {SubSeq(text, 1, s - 1)}]

=============================================================================
