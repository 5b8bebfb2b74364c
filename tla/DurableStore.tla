---------------------------- MODULE DurableStore ----------------------------
(***************************************************************************)
(* What NyFS promises of save and load (NPS-004 section 7): a commit is    *)
(* atomic under a power failure, and what a restart reads back is the last *)
(* state committed, or, when the failure hits a commit, that state or the  *)
(* one being committed.                                                    *)
(***************************************************************************)
CONSTANTS
  Image,   \* the states a file system can have
  Empty,   \* the state it is made with
  Lost     \* what memory holds while the machine is down, or a disk never saved to

VARIABLES
  live,    \* the state in memory
  clean,   \* does the store claim that `live` is committed?
  stable   \* the states a restart may find, were the power to fail now

storeVars == <<live, clean, stable>>

Init == live = Empty /\ clean = TRUE /\ stable = {Lost}

Up == live # Lost

\* No change is accepted while the outcome of a commit is open.
Mutate ==
  /\ Up
  /\ \E s \in stable : stable = {s}
  /\ live' \in Image
  /\ clean' = FALSE
  /\ UNCHANGED stable

CommitBegins == Up /\ stable' = stable \cup {live} /\ UNCHANGED <<live, clean>>

CommitEnds ==
  /\ Up
  /\ live \in stable
  /\ stable' = {live}
  /\ clean' \in {clean, TRUE}
  /\ UNCHANGED live

PowerFails ==
  /\ Up
  /\ live' = Lost
  /\ clean' = TRUE
  /\ \E s \in stable : stable' = {s}

Restart ==
  /\ ~ Up
  /\ live' \in IF stable = {Lost} THEN {Empty} ELSE stable
  /\ UNCHANGED <<clean, stable>>

Next == Mutate \/ CommitBegins \/ CommitEnds \/ PowerFails \/ Restart

Spec == Init /\ [][Next]_storeVars
=============================================================================
