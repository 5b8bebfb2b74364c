-------------------------------- MODULE Fifo --------------------------------
(***************************************************************************)
(* What a one-way channel promises its two ends: what is received is what   *)
(* was sent, whole, in order and once.                                      *)
(***************************************************************************)
EXTENDS Naturals, Sequences

CONSTANT Messages

VARIABLES sent, received

chanVars == <<sent, received>>

Init == sent = <<>> /\ received = <<>>

Put(m) == sent' = Append(sent, m) /\ UNCHANGED received

Get ==
  /\ Len(received) < Len(sent)
  /\ received' = Append(received, sent[Len(received) + 1])
  /\ UNCHANGED sent

Next == Get \/ \E m \in Messages : Put(m)

Spec == Init /\ [][Next]_chanVars
=============================================================================
