------------------------------- MODULE Address -------------------------------
(***************************************************************************)
(* ip_address::from_string_ipv4 and from_string_ipv6 (ip_address.cpp:      *)
(* 138-164), and inet_pton (inet_pton.cpp:13-151) below them.              *)
(*                                                                         *)
(* A text is a sequence of words and of the six characters in Delimiter; a *)
(* word is what stands between two of those, so no two are adjacent.  What *)
(* the conversions make of a word as a whole is given by the constants; a  *)
(* value that may be absent is a set of at most one element.  An IPv4      *)
(* address is a sequence of one element, an IPv6 address of eight.         *)
(***************************************************************************)
EXTENDS Integers, Sequences

CONSTANTS
  Word,            \* the words
  Hex,             \* Hex[w]: the group, if w is hex digits of at most 0xFFFF
  Dec,             \* Dec[w]: the number, if w is one as a whole for strtoul;
                   \*   MaxUint16 + 1 stands for every larger one
  Quad             \* Quad[w]: the IPv4 address that w begins with

MaxUint16 == 65535

Delimiter == {":", "/", "@", "[", "]", "%"}

Text == Seq(Word \union Delimiter)

Separated(text) == \A i \in 1..Len(text) - 1 : text[i] \in Word => text[i + 1] \notin Word

AtMostOne(option) == \A x, y \in option : x = y

ASSUME AddressAssumption ==
  /\ Word \intersect Delimiter = {} /\ "end" \notin Word
  /\ DOMAIN Hex = Word /\ DOMAIN Dec = Word /\ DOMAIN Quad = Word
  /\ \A w \in Word :
       /\ AtMostOne(Hex[w]) /\ AtMostOne(Dec[w]) /\ AtMostOne(Quad[w])
       /\ Dec[w] \subseteq 0..MaxUint16 + 1
       /\ \A a \in Quad[w] : Len(a) = 1

None == {}
The(option) == CHOOSE x \in option : TRUE

\* sscanf_s converts what the text begins with and ignores the rest.
FromStringV4(text) == IF text # <<>> /\ text[1] \in Word THEN Quad[text[1]] ELSE None

-----------------------------------------------------------------------------
(* The state machine of inet_pton.  front and back are the groups stored in *)
(* bytes and in back_bytes, word is current_word.                           *)

Groups == 8
Zero == "0"

Start == [state |-> "fword", front |-> <<>>, back |-> <<>>, word |-> Zero]

Fail(s) == [s EXCEPT !.state = "failed"]

\* The definitions named Fault... are seeded bugs, in the place of what follows.
FaultFull(s) == Len(s.front) + Len(s.back) = Groups - 1

\* Both bounds: in fword nothing is in back_bytes yet.
Full(s) == Len(s.front) + Len(s.back) = Groups

Store(s) ==
  IF s.state = "bword" THEN [s EXCEPT !.back = Append(@, s.word), !.word = Zero]
                       ELSE [s EXCEPT !.front = Append(@, s.word), !.word = Zero]

\* fword and bword: the digits of a word, then the character that ends it.
Digits(s, w) == IF Hex[w] = None THEN Fail(s) ELSE [s EXCEPT !.word = The(Hex[w])]

EndOfWord(s, c) ==
  IF Full(s) THEN Fail(s)
  ELSE CASE c = ":" -> [Store(s) EXCEPT !.state = IF s.state = "bword" THEN "bword" ELSE "fcolon"]
         [] c = "%" -> [Store(s) EXCEPT !.state = "scope"]
         [] c = "end" -> [Store(s) EXCEPT !.state = "done"]
         [] OTHER -> Fail(s)

InWord(s, c) == IF c \in Word THEN Digits(s, c) ELSE EndOfWord(s, c)

\* scope: the id is read, and its end neither moves p nor leaves the loop.
InScope(s, c) ==
  IF c = "end" THEN [s EXCEPT !.state = "spins"]
  ELSE IF c \in Word /\ Dec[c] # None /\ The(Dec[c]) <= MaxUint16 THEN s
  ELSE Fail(s)

FaultStep(s, c) ==                \* fcolon waits for a colon
  CASE s.state \in {"fword", "bword"} -> InWord(s, c)
    [] s.state = "fcolon" -> [s EXCEPT !.state = IF c = ":" THEN "bword" ELSE "spins"]
    [] s.state = "scope" -> InScope(s, c)
    [] OTHER -> s

Step(s, c) ==
  CASE s.state \in {"fword", "bword"} -> InWord(s, c)
    [] s.state = "fcolon" -> IF c = ":" THEN [s EXCEPT !.state = "bword"]
                             ELSE InWord([s EXCEPT !.state = "fword"], c)
    [] s.state = "scope" -> InScope(s, c)
    [] OTHER -> s

After(states, c) == {Step(s, c) : s \in states}

\* Where the text and its end lead: Trace(text)[n] is the state, as the only
\* element of a set, that n characters lead to.
Trace(text) ==
  LET p == Append(text, "end")
      Reached[n \in 0..Len(p)] == IF n = 0 THEN {Start} ELSE After(Reached[n - 1], p[n]) IN
  Reached

InetPton[text \in Text] == The(Trace(text)[Len(text) + 1])

\* The address that the groups make: those in front, those at the back, and
\* zeros between them.
Filled(s) ==
  s.front \o [i \in 1..Groups - Len(s.front) - Len(s.back) |-> Zero] \o s.back

\* from_string_ipv6 refuses the empty text itself.
FromStringV6(text) ==
  IF text = <<>> \/ InetPton[text].state # "done" THEN None ELSE {Filled(InetPton[text])}

\* The loop is left only in the state done.
Spins(text) == text # <<>> /\ InetPton[text].state = "spins"

=============================================================================
