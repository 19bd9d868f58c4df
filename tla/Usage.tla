-------------------------------- MODULE Usage --------------------------------
(***************************************************************************)
(* What the usage text (main.cpp:37-57) says of a command line, and that   *)
(* config_from_cmdline understands it so.  The text is taken at its word   *)
(* except for two things that the code does not do: credentials in         *)
(* inProxy, and host names that begin with a dotted quad.                  *)
(***************************************************************************)
EXTENDS Cmdline, FiniteSets

CONSTANTS
  Name,            \* host names, user names and passwords
  Address4,        \* dotted quads
  PortNumber,      \* numbers up to 65535
  Literals         \* IPv6 addresses: the groups before and behind the "::"

ASSUME UsageAssumption ==
  /\ Name \union Address4 \union PortNumber \subseteq Word
  /\ \A w \in Name : Quad[w] = None
  /\ \A w \in Address4 : Quad[w] # None
  /\ \A w \in PortNumber : Dec[w] # None /\ The(Dec[w]) <= MaxUint16
  /\ \A l \in Literals :
       /\ l[1] \in Seq(Word) /\ l[2] \in Seq(Word)
       /\ \A i \in DOMAIN l[1] : Hex[l[1][i]] # None
       /\ \A i \in DOMAIN l[2] : Hex[l[2][i]] # None
       /\ \/ Len(l[1]) = 8 /\ l[2] = <<>>
          \/ Len(l[1]) + Len(l[2]) <= 7

-----------------------------------------------------------------------------
(* IPv6 addresses as RFC 4291, 2.2 has them: eight groups, or fewer with    *)
(* one "::" in the place of one or more groups of zeros.                    *)

WithColons(words) ==
  [i \in 1..2 * Len(words) - 1 |-> IF i % 2 = 1 THEN words[(i + 1) \div 2] ELSE ":"]

LiteralText(l) ==
  IF Len(l[1]) = 8 THEN WithColons(l[1])
  ELSE WithColons(l[1]) \o <<":", ":">> \o WithColons(l[2])

GroupsOf(words) == [i \in DOMAIN words |-> The(Hex[words[i]])]

LiteralAddress(l) ==
  GroupsOf(l[1]) \o [i \in 1..8 - Len(l[1]) - Len(l[2]) |-> "0"] \o GroupsOf(l[2])

-----------------------------------------------------------------------------
(* The forms of an argument: what is written, and what it means.            *)

Written(text, dest) == [text |-> text, dest |-> dest]

\* The program uses the address of a destination only without a host name.
Used(d) == IF UsingHostname(d) THEN [d EXCEPT !.ip = NoDest.ip] ELSE d

Dest(ip, hostname, port) == [ip |-> ip, hostname |-> hostname, port |-> port]

QuadForm(a, p) == Written(<<a, ":", p>>, Dest(The(Quad[a]), <<>>, The(Dec[p])))

LiteralForm(l, p) ==
  Written(<<"[">> \o LiteralText(l) \o <<"]", ":", p>>,
          Dest(LiteralAddress(l), <<>>, The(Dec[p])))

NameForm(n, p) == Written(<<n, ":", p>>, Dest(NoDest.ip, <<n>>, The(Dec[p])))

\* ip:port
IpPort ==
  {QuadForm(a, p) : a \in Address4, p \in PortNumber}
    \union {LiteralForm(l, p) : l \in Literals, p \in PortNumber}

\* host:port
HostPort == IpPort \union {NameForm(n, p) : n \in Name, p \in PortNumber}

Typed(type, w) == type \o <<":", "/", "/">> \o w.text

\* proxy-client-type://[uname:pwd@]host:port
OpenEntry(w) ==
  [text |-> Typed(<<"socks5">>, w),
   entry |-> [type |-> <<"socks5">>, address |-> w.dest, creds |-> NoCreds]]

SecretEntry(u, p, w) ==
  [text |-> <<"socks5", ":", "/", "/", u, ":", p, "@">> \o w.text,
   entry |-> [type |-> <<"socks5">>, address |-> w.dest,
              creds |-> [username |-> <<u>>, password |-> <<p>>]]]

Entry(hosts) ==
  {OpenEntry(w) : w \in hosts}
    \union {SecretEntry(u, p, w) : u \in Name, p \in Name, w \in hosts}

Texts(entries) == [i \in DOMAIN entries |-> entries[i].text]
Entries(entries) == [i \in DOMAIN entries |-> entries[i].entry]

\* proxyswiss tunnel <tunIn> <tunOut> [proxy-chain]
TunnelLine(tunIn, tunOut, entries) ==
  [fv |-> <<Tunnel, tunIn.text, tunOut.text>> \o Texts(entries),
   meant |-> {[type |-> "tunnel", listen |-> tunIn.dest, destination |-> tunOut.dest,
               server |-> <<>>, chain |-> Entries(entries)]}]

\* proxyswiss proxy <inProxy> [proxy-chain]
ProxyLine(type, ip, entries) ==
  [fv |-> <<Proxy, Typed(type, ip)>> \o Texts(entries),
   meant |-> {[type |-> "proxy", listen |-> ip.dest, destination |-> NoDest,
               server |-> type, chain |-> Entries(entries)]}]

ChainEntries == Entry(HostPort)

\* Those of the forms that an argument of the line is.
Among(forms, l) == {w \in forms : \E i \in DOMAIN l.fv : l.fv[i] = w.text}

Documented(l) ==
  \/ \E a \in Among(IpPort, l), b \in Among(HostPort, l),
        c \in [1..Len(l.fv) - 3 -> Among(ChainEntries, l)] : l = TunnelLine(a, b, c)
  \/ \E type \in ServerTypes, a \in IpPort,
        c \in [1..Len(l.fv) - 2 -> Among(ChainEntries, l)] : l = ProxyLine(type, a, c)

ASSUME LinesAssumption ==
  \A k \in DOMAIN Lines : \A l \in Lines[k] : l.meant # {} => Documented(l)

-----------------------------------------------------------------------------

\* What the configuration says, without what nothing looks at.
Plainly(e) == [e EXCEPT !.address = Used(@)]

Meaning == [cfg EXCEPT !.destination = Used(cfg.destination),
                       !.chain = [i \in DOMAIN cfg.chain |-> Plainly(cfg.chain[i])]]

\* A command line as the usage text has it is accepted and means what it says.
DocumentedFormsAccepted == line.meant # {} =>
  /\ status \in {"reading", "running"}
  /\ status = "running" => Meaning = The(line.meant)

\* Where the words of an IPv6 address belong: in the group that the colons in
\* front of it say, or behind the first "::" those that follow it.
Colons(text, n) == Cardinality({i \in 1..n : text[i] = ":"})

DoubleColon(text) == First({i \in 1..Len(text) - 1 : text[i] = ":" /\ text[i + 1] = ":"})

GroupAt(text, i) ==
  IF DoubleColon(text) \in 1..i THEN 8 - (Colons(text, Len(text)) - Colons(text, i))
  ELSE 1 + Colons(text, i)

\* Every word is a group, in its place, and every other group is zero.
SpellsAddress(text, groups) ==
  /\ Len(groups) = 8
  /\ \A i \in DOMAIN text :
       \/ text[i] = ":"
       \/ /\ text[i] \in Word /\ GroupAt(text, i) \in 1..8
          /\ Hex[text[i]] = {groups[GroupAt(text, i)]}
  /\ \A g \in 1..8 :
       groups[g] = Zero \/ \E i \in DOMAIN text : text[i] \in Word /\ GroupAt(text, i) = g

\* Some way to write the host: a name as it is, an IPv4 address with anything
\* behind it, an IPv6 address within brackets.
SpellsHost(text, d) ==
  IF UsingHostname(d) THEN text = d.hostname
  ELSE IF Len(d.ip) = 1 THEN text # <<>> /\ text[1] \in Word /\ Quad[text[1]] = {d.ip}
  ELSE /\ Len(text) > 2 /\ text[1] = "[" /\ text[Len(text)] = "]"
       /\ SpellsAddress(SubSeq(text, 2, Len(text) - 1), d.ip)

\* Nothing at all is taken for port 0.
SpellsPort(text, port) ==
  \/ text = <<>> /\ port = 0
  \/ \E w \in Word : text = <<w>> /\ Dec[w] = {port} /\ port <= MaxUint16

\* A user name alone is not taken for credentials.
SpellsCreds(text, c) ==
  \/ text = c.username \o <<":">> \o c.password \o <<"@">>
  \/ c = NoCreds /\ (text = <<>> \/ (text[Len(text)] = "@" /\ \A i \in DOMAIN text : text[i] # ":"))

Spells(text, type, c, d) ==
  LET head == IF type = <<>> THEN 0 ELSE Len(type) + 3 IN
  /\ SubSeq(text, 1, head) = IF type = <<>> THEN <<>> ELSE type \o <<":", "/", "/">>
  /\ \E i \in head..Len(text), k \in head..Len(text) :
       /\ i < k /\ text[k] = ":"
       /\ SpellsCreds(SubSeq(text, head + 1, i), c)
       /\ SpellsHost(SubSeq(text, i + 1, k - 1), d)
       /\ SpellsPort(SubSeq(text, k + 1, Len(text)), d.port)

\* Whatever the program runs with is what its arguments spell, from the first
\* character to the last: nothing is cut off, ignored or read as something
\* else, but for what the definitions above name.
ConfigSpelledByArguments == status = "running" =>
  /\ cfg.type = "tunnel" => /\ Spells(fv[2], <<>>, NoCreds, cfg.listen)
                            /\ Spells(fv[3], <<>>, NoCreds, cfg.destination)
  /\ cfg.type = "proxy" => Spells(fv[2], cfg.server, NoCreds, cfg.listen)
  /\ \A i \in DOMAIN cfg.chain : LET e == cfg.chain[i] IN
       Spells(fv[Chain0 + i - 1], e.type, e.creds, e.address)

=============================================================================
