------------------------------ MODULE MCRelay ------------------------------
(* Relay on small streams: the buffer holds fewer bytes than a peer may     *)
(* send, so that a buffer is reused, and more than one, so that a read is   *)
(* partial and a write takes several steps.                                 *)
EXTENDS Relay

MCBufSize == 2
MCMaxSent == 3
=============================================================================
