------------------------------ MODULE MCServer -------------------------------
(* Server with enough clients for sessions to overlap and to end in any     *)
(* order, so that numbers are given back and taken again, and with room for *)
(* one object per client, the next one and the one about to be destroyed.   *)
EXTENDS Server, TLC

CONSTANTS c1, c2, c3, s1, s2, s3, s4, s5, d1, d2

MCClient == {c1, c2, c3}
MCSlot == {s1, s2, s3, s4, s5}
MCDest == {d1, d2}
=============================================================================
