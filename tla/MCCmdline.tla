------------------------------ MODULE MCCmdline ------------------------------
(* Usage with command lines of three kinds: what the usage text allows, with  *)
(* an IPv6 address for every place and length of the "::"; every combination  *)
(* of right, odd and missing parts of one argument, in each place; and every  *)
(* short text within brackets.                                                *)
EXTENDS Usage, FiniteSets, TLC

MCHex == ("1" :> {"1"}) @@ ("80" :> {"80"}) @@ ("0" :> {"0"}) @@ ("0db8" :> {"db8"})
         @@ ("65535" :> {}) @@ [w \in {"65536", "host", "me", "1.2.3.4", "1.2.3.4.example",
                                "socks5", "https", "tunnel", "proxy"} |-> {}]

MCWord == DOMAIN MCHex

MCDec == [w \in MCWord |->
  CASE w = "0" -> {0} [] w = "1" -> {1} [] w = "80" -> {80} [] w = "65535" -> {65535}
    [] w = "65536" -> {65536} [] OTHER -> {}]

MCQuad == [w \in MCWord |-> IF w \in {"1.2.3.4", "1.2.3.4.example"} THEN {<<"1.2.3.4">>} ELSE {}]

MCName == {"host", "me"}
MCAddress4 == {"1.2.3.4"}
MCPortNumber == {"80", "0", "65535"}

Group(i) == IF i % 3 = 0 THEN "0db8" ELSE IF i % 3 = 1 THEN "1" ELSE "0"
GroupRun(from, n) == [i \in 1..n |-> Group(from + i)]

\* Groups in front of the "::" and behind it.
MCLiterals ==
  {<<GroupRun(n[1], n[1]), GroupRun(n[2], n[2])>> :
     n \in {m \in (0..7) \X (0..7) : m[1] + m[2] <= 7}}
    \union {<<GroupRun(0, 8), <<>>>>}

Good == <<"1.2.3.4", ":", "80">>
SomeIp == Written(Good, Dest(<<"1.2.3.4">>, <<>>, 80))

\* One of each kind.
Few == {SomeIp, Written(<<"host", ":", "80">>, Dest(NoDest.ip, <<"host">>, 80)),
        Written(<<"[", ":", ":", "]", ":", "80">>, Dest([i \in 1..8 |-> "0"], <<>>, 80))}

Pairs(entries) == {<<e, f>> : e \in entries, f \in entries}

\* All addresses in every place; in the chain also two entries of any kind.
Meant == <<
  {TunnelLine(a, SomeIp, <<>>) : a \in IpPort},
  {TunnelLine(SomeIp, b, <<>>) : b \in HostPort},
  {TunnelLine(SomeIp, b, c) : b \in Few, c \in Pairs(Entry(Few))},
  {ProxyLine(t, a, <<>>) : t \in ServerTypes, a \in IpPort},
  {ProxyLine(<<"socks5">>, SomeIp, <<e>>) : e \in Entry(HostPort)},
  {ProxyLine(<<"https">>, SomeIp, c) : c \in Pairs(Entry(Few))}>>

-----------------------------------------------------------------------------
Sep == <<":", "/", "/">>
Schemes == {<<>>, Sep} \union {<<t>> \o Sep : t \in {"socks5", "https", "me"}}
Creds == {<<>>, <<"@">>, <<"me", "@">>, <<":", "@">>, <<"me", ":", "@">>,
          <<"me", ":", "host", "@">>, <<"me", ":", "1", ":", "host", "@">>,
          <<"me", ":", "host", "@", "1", "@">>}
Hosts == {<<>>, <<"host">>, <<"1.2.3.4">>, <<"1.2.3.4.example">>, <<"[", "]">>,
          <<"[", ":", ":", "1", "]">>, <<"[", ":", ":", "%", "1", "]">>, <<"[", "host", "]">>,
          <<"[", ":", ":", "1">>, <<"[", ":", ":", "1", "]", "host">>, <<"1.2.3.4", "/", "1">>}
Ports == {<<>>, <<":">>, <<":", "80">>, <<":", "65536">>, <<":", "host">>, <<":", "80", ":", "80">>}
Paths == {<<>>, <<"/">>, <<"/", "me">>, <<"/", "me", ":", "80">>, <<"/", "@", "host">>}

\* At most three of the last four parts are not the usual ones.
OddTexts == {x[1] \o x[2] \o x[3] \o x[4] \o x[5] :
  x \in {x \in Schemes \X Creds \X Hosts \X Ports \X Paths :
           Cardinality({i \in 2..5 : x[i] # <<0, <<>>, <<"host">>, <<":", "80">>, <<>>>>[i]}) <= 3}}

\* Every text of up to five characters and words, and some too long, in brackets.
ShortTexts == UNION {[1..n -> {":", "0db8", "1", "%", "host"}] : n \in 0..5}
LongTexts == {WithColons(GroupRun(0, n)) : n \in 6..9}
  \union {WithColons(GroupRun(0, n)) \o <<":", ":">> \o WithColons(GroupRun(0, 8 - n)) : n \in 0..8}
InBrackets == {<<"[">> \o t \o <<"]", ":", "80">> :
  t \in {t \in ShortTexts \union LongTexts :
           \A i \in 1..Len(t) - 1 : t[i] \in MCWord => t[i + 1] \notin MCWord}}

GoodEntry == <<"socks5">> \o Sep \o Good

NoMeaning(fvs) == {[fv |-> f, meant |-> {}] : f \in fvs}

Odd == <<
  NoMeaning({<<Tunnel, t, Good>> : t \in OddTexts}),
  NoMeaning({<<Tunnel, t, Good>> : t \in InBrackets}),
  NoMeaning({<<Tunnel, Good, t>> : t \in OddTexts}),
  NoMeaning({<<Proxy, t>> : t \in OddTexts}),
  NoMeaning({<<Proxy, <<"https">> \o Sep \o Good, GoodEntry, t, GoodEntry>> : t \in OddTexts}),
  NoMeaning({<<>>, <<Tunnel>>, <<Proxy>>, <<Tunnel, Good>>, <<<<"host">>, Good, Good>>, <<<<"me">>>>})>>

MCLines == Meant \o Odd
=============================================================================
