--------------------------- MODULE MCSocks5Client ---------------------------
(* Socks5Client against what a proxy may send: right and wrong versions,    *)
(* methods, states and replies of every address type, with bytes of the     *)
(* tunnel behind them, cut off at every length.                             *)
EXTENDS Socks5Client

MCCredentials == {[user |-> <<>>, pass |-> <<>>], [user |-> <<97>>, pass |-> <<98, 99>>],
                  [user |-> <<>>, pass |-> <<98>>]}

MCDestinations == {Destination("v4", <<1, 2, 3, 4>>, 443),
                   Destination("v6", [i \in 1..16 |-> i], 80),
                   Destination("name", <<119, 119>>, 8080)}

Methods == {<<5, 0>>, <<5, 2>>, <<5, 255>>, <<4, 0>>}
Statuses == {<<>>, <<5, 0>>, <<5, 1>>, <<1, 0>>}
Codes == {0, 4, 5, 9}
Addresses == {<<1>> \o Zeros(4), <<3, 0>>, <<3, 2, 97, 98>>, <<4>> \o Zeros(16), <<2>>}

Replies == {<<5, c, 0>> \o a \o <<0, 7>> : c \in Codes, a \in Addresses}
             \union {<<4, 0, 0, 1>> \o Zeros(6)}

Whole == {m \o s \o r \o <<23, 5>> : m \in Methods, s \in Statuses, r \in Replies}

\* Every cut of those that let the client in and end in a verdict or a refusal.
Cut == {a \o <<5, c, 0>> \o r \o <<0, 7, 23>> :
          a \in {<<5, 0>>, <<5, 2, 5, 0>>}, c \in {0, 5}, r \in Addresses}

MCStreams == Whole \union UNION {{SubSeq(w, 1, n) : n \in 0..Len(w)} : w \in Cut}
=============================================================================
