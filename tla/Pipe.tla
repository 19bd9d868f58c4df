-------------------------------- MODULE Pipe --------------------------------
(***************************************************************************)
(* What one direction of an established tunnel promises: the bytes that    *)
(* one peer sends come out at the other peer in order, unchanged, none     *)
(* twice; the end of the stream comes out after the last byte and never    *)
(* before it; and if the tunnel is torn down early, what was delivered is  *)
(* still a prefix of what was sent.  Bytes are named by their position in  *)
(* the stream.  Relay.tla is shown to implement this module twice, once    *)
(* per direction.                                                          *)
(***************************************************************************)
EXTENDS Naturals, Sequences

CONSTANT
  MaxSent                     \* bound on the length of the stream

VARIABLES
  sent,                       \* how many bytes the sender has written
  fin,                        \* the sender has finished its stream
  delivered,                  \* the bytes handed to the receiver, in order
  state                       \* "flowing", "ended" (cleanly) or "cut"

pipeVars == <<sent, fin, delivered, state>>

PipeInit ==
  /\ sent = 0
  /\ fin = FALSE
  /\ delivered = <<>>
  /\ state = "flowing"

Send ==
  /\ state = "flowing"
  /\ ~fin
  /\ sent < MaxSent
  /\ sent' = sent + 1
  /\ UNCHANGED <<fin, delivered, state>>

Finish ==
  /\ state = "flowing"
  /\ ~fin
  /\ fin' = TRUE
  /\ UNCHANGED <<sent, delivered, state>>

Deliver ==
  /\ state = "flowing"
  /\ Len(delivered) < sent
  /\ delivered' = Append(delivered, Len(delivered) + 1)
  /\ UNCHANGED <<sent, fin, state>>

End ==
  /\ state = "flowing"
  /\ fin
  /\ Len(delivered) = sent
  /\ state' = "ended"
  /\ UNCHANGED <<sent, fin, delivered>>

Cut ==
  /\ state = "flowing"
  /\ state' = "cut"
  /\ UNCHANGED <<sent, fin, delivered>>

PipeNext == Send \/ Finish \/ Deliver \/ End \/ Cut

PipeSpec == PipeInit /\ [][PipeNext]_pipeVars

\* A pipe that is neither cut nor out of data keeps moving: every byte sent is
\* delivered, and a finished stream is ended.
PipeFairness == WF_pipeVars(Deliver) /\ WF_pipeVars(End)

PipeLiveSpec == PipeSpec /\ PipeFairness

=============================================================================
