------------------------------- MODULE Cmdline -------------------------------
(***************************************************************************)
(* config_from_cmdline (config_from_cmdline.cpp) as main.cpp:71-86 calls   *)
(* it: one action per argument.  The variables host, proxy_type_str and    *)
(* creds of the function are filled by one argument after the other; what  *)
(* they still hold from an earlier one must not get into the              *)
(* configuration.                                                          *)
(***************************************************************************)
EXTENDS UrlParser

CONSTANT
  Lines            \* sets of command lines: the arguments fv, and in meant
                   \*   what the usage text says of them, if anything

NoDest == [ip |-> <<"0.0.0.0">>, hostname |-> <<>>, port |-> 0]
NoCreds == [username |-> <<>>, password |-> <<>>]

NoConfig == [type |-> "none", listen |-> NoDest, destination |-> NoDest,
             server |-> <<>>, chain |-> <<>>]

ASSUME CmdlineAssumption == \A k \in DOMAIN Lines : \A l \in Lines[k] :
  l.fv \in Seq(Text) /\ \A i \in DOMAIN l.fv : Separated(l.fv[i])

VARIABLES
  line,            \* what the program is called with; line.fv never changes
  at,              \* the argument to look at next
  status,          \* "reading"; then "running", "error" or "usage"
  cfg,             \* the configuration so far
  host,            \* the destination that the last argument has left
  proxy_type_str,  \* its proxy type
  creds            \* its credentials

vars == <<line, at, status, cfg, host, proxy_type_str, creds>>

fv == line.fv

Init ==
  /\ \E k \in DOMAIN Lines : line \in Lines[k]
  /\ at = 1 /\ status = "reading"
  /\ cfg = NoConfig
  /\ host = NoDest /\ proxy_type_str = <<>> /\ creds = NoCreds

-----------------------------------------------------------------------------
(* What an argument may be, and what is made of it.                         *)

\* server_session_type_from_string and client_session_type_from_string
ServerTypes == {<<"socks5">>, <<"https">>}
ClientTypes == {<<"socks5">>}

\* endpoint_from_string
IsEndpoint(u) ==
  /\ u.result = "ok"
  /\ u.scheme = None /\ u.path = <<>> /\ u.user = None /\ u.pass = None
  /\ u.port # None /\ u.host.kind # "name"

Endpoint(u) == [ip |-> u.host.value, hostname |-> <<>>, port |-> The(u.port)]

\* What proxy_info_from_string lets pass: typed, if a proxy type is wanted;
\* secret, if credentials are allowed.
IsProxyInfo(u, typed, secret) ==
  /\ u.result = "ok"
  /\ u.path = <<>>
  /\ typed <=> u.scheme # None
  /\ ~secret => u.user = None /\ u.pass = None
  /\ u.port # None

\* The destination it fills: a host name leaves the address as it was.
Destination(u, old) ==
  IF u.host.kind = "name"
  THEN [ip |-> old.ip, hostname |-> u.host.value, port |-> The(u.port)]
  ELSE [ip |-> u.host.value, hostname |-> <<>>, port |-> The(u.port)]

\* What it gives as credentials: both parts, or none.
Credentials(u) ==
  IF u.user # None /\ u.pass # None
  THEN [username |-> The(u.user), password |-> The(u.pass)] ELSE NoCreds

FaultTakeCredentials(u) ==        \* set only if there are any
  creds' = IF u.user # None /\ u.pass # None THEN Credentials(u) ELSE creds

TakeCredentials(u) == creds' = Credentials(u)

UsingHostname(d) == d.hostname # <<>>

-----------------------------------------------------------------------------
(* The arguments in their order.                                            *)

Refuse(how) ==
  /\ status' = how
  /\ UNCHANGED <<line, at, cfg, host, proxy_type_str, creds>>

Tunnel == <<"tunnel">>
Proxy == <<"proxy">>

TooFew == Len(fv) < IF fv # <<>> /\ fv[1] = Tunnel THEN 3 ELSE 2

\* fv[0], the input type
Usage == status = "reading" /\ at = 1 /\ TooFew /\ Refuse("usage")

UnknownInType ==
  /\ status = "reading" /\ at = 1 /\ ~TooFew /\ fv[1] \notin {Tunnel, Proxy}
  /\ Refuse("error")

InType ==
  /\ status = "reading" /\ at = 1 /\ ~TooFew /\ fv[1] \in {Tunnel, Proxy}
  /\ at' = 2
  /\ cfg' = [cfg EXCEPT !.type = fv[1][1]]
  /\ UNCHANGED <<line, status, host, proxy_type_str, creds>>

\* The first argument that belongs to the chain.
Chain0 == IF fv[1] = Tunnel THEN 4 ELSE 3

\* parse() comes back for the argument: if it does not, nothing more happens.
Parsed == Parse[fv[at]].result # "spins"

TunIn ==
  /\ status = "reading" /\ at = 2 /\ fv[1] = Tunnel /\ Parsed
  /\ \E u \in {Parse[fv[at]]} :
       \/ ~IsEndpoint(u) /\ Refuse("error")
       \/ /\ IsEndpoint(u)
          /\ cfg' = [cfg EXCEPT !.listen = Endpoint(u)]
          /\ at' = 3
          /\ UNCHANGED <<line, status, host, proxy_type_str, creds>>

TunOut ==
  /\ status = "reading" /\ at = 3 /\ fv[1] = Tunnel /\ Parsed
  /\ \E u \in {Parse[fv[at]]} :
       \/ ~IsProxyInfo(u, FALSE, FALSE) /\ Refuse("error")
       \/ /\ IsProxyInfo(u, FALSE, FALSE)
          /\ cfg' = [cfg EXCEPT !.destination = Destination(u, @)]
          /\ at' = 4
          /\ UNCHANGED <<line, status, host, proxy_type_str, creds>>

\* inProxy has to have an address.
IsInProxy(u) ==
  IsProxyInfo(u, TRUE, FALSE) /\ The(u.scheme) \in ServerTypes /\ u.host.kind # "name"

InProxy ==
  /\ status = "reading" /\ at = 2 /\ fv[1] = Proxy /\ Parsed
  /\ \E u \in {Parse[fv[at]]} :
       \/ ~IsInProxy(u) /\ Refuse("error")
       \/ /\ IsInProxy(u)
          /\ host' = Destination(u, host) /\ proxy_type_str' = The(u.scheme)
          /\ cfg' = [cfg EXCEPT !.server = proxy_type_str', !.listen = host']
          /\ at' = 3
          /\ UNCHANGED <<line, status, creds>>

IsChainEntry(u) == IsProxyInfo(u, TRUE, TRUE) /\ The(u.scheme) \in ClientTypes

\* The arguments behind the fixed ones.
Chain ==
  /\ status = "reading" /\ at > 1 /\ at >= Chain0 /\ at <= Len(fv) /\ Parsed
  /\ \E u \in {Parse[fv[at]]} :
       \/ ~IsChainEntry(u) /\ Refuse("error")
       \/ /\ IsChainEntry(u)
          /\ host' = Destination(u, host)
          /\ proxy_type_str' = The(u.scheme)
          /\ TakeCredentials(u)
          /\ cfg' = [cfg EXCEPT !.chain = Append(@,
                       [type |-> proxy_type_str', address |-> host', creds |-> creds'])]
          /\ at' = at + 1
          /\ UNCHANGED <<line, status>>

\* All arguments are done: main goes on with the configuration.
Run ==
  /\ status = "reading" /\ at > 1 /\ at >= Chain0 /\ at > Len(fv)
  /\ status' = "running"
  /\ UNCHANGED <<line, at, cfg, host, proxy_type_str, creds>>

Next == Usage \/ UnknownInType \/ InType \/ TunIn \/ TunOut \/ InProxy \/ Chain \/ Run

Spec == Init /\ [][Next]_vars

\* One thread runs main from beginning to end.
LiveSpec == Spec /\ WF_vars(Next)
-----------------------------------------------------------------------------
(* What the configuration has to do with the arguments.                     *)

TypeOK ==
  /\ \E k \in DOMAIN Lines : line \in Lines[k]
  /\ at \in Nat \ {0} /\ at <= Len(fv) + 1
  /\ status \in {"reading", "running", "error", "usage"}
  /\ DOMAIN cfg = DOMAIN NoConfig /\ cfg.type \in {"none", "tunnel", "proxy"}

\* A destination is what one argument says; the address next to a host name is
\* whatever was there before, and nothing looks at it.
SaidBy(d, u) ==
  /\ d.port = The(u.port)
  /\ d.hostname = IF u.host.kind = "name" THEN u.host.value ELSE <<>>
  /\ u.host.kind # "name" => d.ip = u.host.value

\* What the argument of a chain entry says alone.
EntryIs(e, text) ==
  \E u \in {Parse[text]} :
    e.type = The(u.scheme) /\ SaidBy(e.address, u) /\ e.creds = Credentials(u)

\* Every argument behind the fixed ones makes one entry of the chain, in the
\* order of the command line, and an entry has nothing of an argument before
\* it: no credentials are sent to a proxy that were given for another one
\* (host, proxy_type_str and creds are shared, config_from_cmdline.cpp:154-158).
NothingCarriedOver == status = "running" =>
  /\ Len(cfg.chain) = Len(fv) - Chain0 + 1
  /\ \A i \in 1..Len(cfg.chain) : EntryIs(cfg.chain[i], fv[Chain0 + i - 1])
  /\ \E u \in {Parse[fv[2]]} : SaidBy(cfg.listen, u)
  /\ cfg.type = "tunnel" => \E u \in {Parse[fv[3]]} : SaidBy(cfg.destination, u)

\* An IPv6 address with a scope stands somewhere in the text.
HasScope(text) == \E i, j, k \in DOMAIN text :
  i < j /\ j < k /\ text[i] = "[" /\ text[j] = "%" /\ text[k] = "]"

\* The program starts or gives up, or stays at an argument whose address has a
\* scope: that is where inet_pton does not return (inet_pton.cpp:128-139), and
\* the only place; a scope elsewhere, in an argument never looked at or in one
\* that is not parsed so far, keeps it from nothing.
ConcludesUnlessScope ==
  <>(status # "reading") \/ <>[](at \in 2..Len(fv) /\ HasScope(fv[at]))

=============================================================================
