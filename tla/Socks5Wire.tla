----------------------------- MODULE Socks5Wire -----------------------------
(***************************************************************************)
(* The SOCKS5 messages (RFC 1928) as the reference that both ends are      *)
(* measured against: how long each is, by its own fields, and what a       *)
(* connect request names.  Sequences of bytes; ports as 16-bit integers.   *)
(***************************************************************************)
EXTENDS Integers, Sequences

Byte == 0..255
LastPort == 65535
Port == 0..LastPort

Zeros(n) == [i \in 1..n |-> 0]

\* A destination (proxy/destination.h): an address of 4 or 16 bytes, or the
\* characters of a host name.
Destination(kind, addr, port) == [kind |-> kind, addr |-> addr, port |-> port]

NoDestination == Destination("none", <<>>, 0)

\* destination(): no host name, and the default address, which is 0.0.0.0.
DefaultAddress == Zeros(4)

\* bin_writer::write_uint16(htons(port)): native order of the swapped value,
\* so the high byte goes first.
PortBytes(port) == <<(port \div 256) % 256, port % 256>>

PortOf(hi, lo) == 256 * hi + lo

ATYP == [v4 |-> 1, name |-> 3, v6 |-> 4]

-----------------------------------------------------------------------------
(* Lengths.                                                                 *)

\* Requests and replies have one layout: VER, CMD or REP, RSV, ATYP, the
\* address, the port.  The length of the one at the head of m, from its own
\* fields; m holds at least those.
MessageLength(m) ==
  CASE m[4] = ATYP.v4 -> 10
    [] m[4] = ATYP.v6 -> 22
    [] m[4] = ATYP.name -> 7 + m[5]

\* m is one whole request or reply, with nothing behind it.
WholeMessage(m) ==
  /\ Len(m) >= 5
  /\ m[1] = 5 /\ m[4] \in {1, 3, 4}
  /\ Len(m) = MessageLength(m)

\* m is one whole method selection: VER, NMETHODS, METHODS.
WholeGreeting(m) == Len(m) >= 3 /\ m[1] = 5 /\ Len(m) = 2 + m[2]

\* The destination that a whole request names.
Named(m) ==
  LET port == PortOf(m[Len(m) - 1], m[Len(m)]) IN
  CASE m[4] = ATYP.v4 -> Destination("v4", SubSeq(m, 5, 8), port)
    [] m[4] = ATYP.v6 -> Destination("v6", SubSeq(m, 5, 20), port)
    [] m[4] = ATYP.name -> Destination("name", SubSeq(m, 6, Len(m) - 2), port)

\* Whether a whole request is one that a destination can stand for.
Nameable(m) == ~(m[4] = ATYP.name /\ m[5] = 0)

=============================================================================
