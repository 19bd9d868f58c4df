---------------------------- MODULE MCSocks5Link ----------------------------
(* Socks5Link with a destination of each kind, with and without credentials, *)
(* and a port whose two bytes differ.                                        *)
EXTENDS Socks5Link

MCCredentials == {[user |-> <<>>, pass |-> <<>>], [user |-> <<97>>, pass |-> <<98>>]}

MCDestinations == {Destination("v4", <<1, 2, 3, 4>>, 443),
                   Destination("v6", [i \in 1..16 |-> i], 443),
                   Destination("name", <<119>>, 443),
                   Destination("name", <<119, 0, 5>>, 1),
                   Destination("v4", <<255, 255, 255, 255>>, 65535)}

MCRelayed == 2
=============================================================================
