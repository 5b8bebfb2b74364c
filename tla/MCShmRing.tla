------------------------------ MODULE MCShmRing ------------------------------
(* Model-checking instances of ShmRing. *)
EXTENDS ShmRing, TLC

CONSTANTS m1, m2, m3, m5

\* Messages of one cell up to one that is larger than the ring.
MCSize == m1 :> 1 @@ m2 :> 2 @@ m3 :> 3 @@ m5 :> 5
=============================================================================
