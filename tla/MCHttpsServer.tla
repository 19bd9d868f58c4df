--------------------------- MODULE MCHttpsServer ---------------------------
(* HttpsServer with every stream of characters up to a length that holds     *)
(* lines around the limit, and first lines that differ from an acceptable    *)
(* one in one respect.                                                       *)
EXTENDS HttpsServer, SequencesExt

MCMaxLine == 3
MaxChars == 8

Good == [parts3 |-> TRUE, connect |-> TRUE, version |-> "1.1", host |-> "name",
         scheme |-> FALSE, user |-> FALSE, port |-> TRUE, path |-> FALSE]

NoParts == [Good EXCEPT !.parts3 = FALSE]

Texts == {Good, [Good EXCEPT !.version = "1.0"], [Good EXCEPT !.host = "v4"],
          [Good EXCEPT !.host = "v6"], [Good EXCEPT !.path = TRUE],
          NoParts, [Good EXCEPT !.connect = FALSE],
          [Good EXCEPT !.version = "other"], [Good EXCEPT !.host = "bad"],
          [Good EXCEPT !.scheme = TRUE], [Good EXCEPT !.user = TRUE],
          [Good EXCEPT !.port = FALSE]}

\* Targets whose parse does not return, and first lines that are refused
\* before their target is looked at.
Scoped == [Good EXCEPT !.host = "spins"]
ScopedTexts == {Scoped, [Scoped EXCEPT !.version = "other"], [Scoped EXCEPT !.connect = FALSE]}

R(chars, first) == [chars |-> chars, first |-> first]

\* A first line without a character has no three parts.
FirstIsBlank(c) == IsPrefix(<<"LF">>, c) \/ IsPrefix(<<"CR", "LF">>, c)

\* The tunnel's data begin as soon as the blank line has been sent.
FullLine == <<"x", "CR", "LF">>
BareHead == FullLine \o <<"CR", "LF">>

MCRequests ==
  {R(c, IF FirstIsBlank(c) THEN NoParts ELSE Good) : c \in BoundedSeq(Char, MaxChars)}
    \union
  {R(c \o <<"x">>, t) : c \in {BareHead, FullLine \o BareHead}, t \in Texts}
    \union
  {R(c, t) : c \in {<<"x">>, <<"x", "x", "x">> \o BareHead, BareHead}, t \in ScopedTexts}
=============================================================================
