----------------------------- MODULE MCSession -----------------------------
(* Session over every chain of up to two hops, and some of three, with each *)
(* hop given by address or by name, with and without lengths that a SOCKS5  *)
(* request cannot carry; tunnel and proxy input.                            *)
EXTENDS Session

CONSTANTS h1, h2, h3, d1

D(host, named, long) == [host |-> host, named |-> named, long |-> long]

MCHost == {h1, h2, h3, d1}

MCRequests == {D(d1, FALSE, FALSE), D(d1, TRUE, FALSE), D(d1, TRUE, TRUE)}

First == [at : {D(h1, FALSE, FALSE), D(h1, TRUE, FALSE)}, longCreds : BOOLEAN]
Second == [at : {D(h2, FALSE, FALSE), D(h2, TRUE, TRUE)}, longCreds : BOOLEAN]
Third == [at : {D(h3, TRUE, FALSE)}, longCreds : {FALSE}]

MCChains ==
  {<<>>}
  \union {<<a>> : a \in First}
  \union {<<a, b>> : a \in First, b \in Second}
  \union {<<a, b, c>> : a \in First, b \in Second, c \in Third}
  \union {<<a, a>> : a \in First}    \* the same proxy twice

MCConfigs == [tunnel : BOOLEAN, chain : MCChains, dst : MCRequests]
=============================================================================
