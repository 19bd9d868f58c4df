--------------------------- MODULE MCSocks5Server ---------------------------
(* Socks5Server against what a client may send: greetings with up to two    *)
(* methods, requests of every address type with a port whose two bytes      *)
(* differ, wrong versions and commands, with bytes of the tunnel behind     *)
(* them, cut off at every length.                                           *)
EXTENDS Socks5Server

Greetings == {<<5, 0>>, <<5, 1, 0>>, <<5, 1, 2>>, <<5, 2, 2, 0>>, <<4, 1, 0>>}
Addresses == {<<1, 10, 0, 0, 1>>, <<3, 0>>, <<3, 2, 97, 98>>,
              <<4>> \o [i \in 1..16 |-> i], <<2>>}

Whole == {g \o <<v, c, 0>> \o a \o <<1, 187>> \o <<22, 3>> :
            g \in Greetings, v \in {4, 5}, c \in {1, 2}, a \in Addresses}

MCStreams == Whole \union UNION {{SubSeq(w, 1, n) : n \in 0..Len(w)} : w \in Whole}
=============================================================================
