--------------------------- MODULE PackageUpdates ---------------------------
(***************************************************************************)
(* The update path of one installed package, backend/update_orchestrate.py: *)
(* apply_update copies the install directory to a restore point, verifies   *)
(* the delta and writes its files one after another (delta_update.py);      *)
(* rollback removes the install directory and copies the newest restore     *)
(* point back.  Nothing keeps two commands from running at once, every file *)
(* operation may fail, and a process may die between any two of them and in *)
(* the middle of a write.                                                   *)
(*                                                                         *)
(* A directory is a function from the entries it holds to the version each  *)
(* is of, or Torn; <<>> is a directory that is absent or empty.  The         *)
(* manifest is an entry like the others, but only apply_update's last step   *)
(* rewrites it.  Every version changes every file, and a delta carries whole *)
(* files, as delta_update.py's do.                                           *)
(***************************************************************************)
EXTENDS Integers, FiniteSetsExt, Functions

CONSTANTS Commands,         \* processes of the command line tool
          Files,            \* payload files of the package
          MaxVersion,       \* bound: the newest version in the repository
          MaxStamp          \* bound: seconds in which a restore point is taken

ASSUME UpdateAssumption ==
    /\ MaxVersion \in Nat
    /\ MaxStamp \in Nat
    /\ "manifest" \notin Files

VARIABLES install,   \* the install directory
          points,    \* stamp -> directory under restore-points
          clock,     \* the second that stamps a restore point
          op,        \* what each command does
          gambled    \* history, read by no action: while no restore point was
                     \* whole, a rollback began, or an apply without one wrote

updateVars == <<install, points, clock, op, gambled>>

Torn == -1
Entries == Files \cup {"manifest"}
Version == 0 .. MaxVersion
Directory == UNION {[held -> Version \cup {Torn}] : held \in SUBSET Entries}
Idle == [step |-> "idle"]

\* The payload is all there and of version v, or of some one version.
IsAt(dir, v) == \A f \in Files : f \in DOMAIN dir /\ dir[f] = v
IsWhole(dir) == \E v \in Version : IsAt(dir, v)

NoneWhole == \A s \in DOMAIN points : ~IsWhole(points[s])

\* An entry of a directory is written, or removed.
With(dir, entry, version) ==
    [e \in DOMAIN dir \cup {entry} |-> IF e = entry THEN version ELSE dir[e]]
Without(dir, entry) == Restrict(dir, DOMAIN dir \ {entry})

-----------------------------------------------------------------------------
UpdateInit ==
    /\ install = [e \in Entries |-> 0]
    /\ points = <<>>
    /\ clock = 0
    /\ op = [c \in Commands |-> Idle]
    /\ gambled = FALSE

SecondPasses ==
    /\ clock < MaxStamp
    /\ clock' = clock + 1
    /\ UNCHANGED <<install, points, op, gambled>>

\* The process dies between two steps, or a file operation raises and the
\* command ends where it stands.
Stops(c) ==
    /\ op[c] # Idle
    /\ op' = [op EXCEPT ![c] = Idle]
    /\ UNCHANGED <<install, points, clock, gambled>>

-----------------------------------------------------------------------------
(* apply_update                                                             *)

\* The command line tool reads the installed version from the manifest, and
\* the repository has a verified delta from it.
ResolveUpdate(c, to) ==
    /\ op[c] = Idle
    /\ "manifest" \in DOMAIN install
    /\ install["manifest"] \in 0 .. to - 1
    /\ op' = [op EXCEPT ![c] = [step |-> "resolved", to |-> to]]
    /\ UNCHANGED <<install, points, clock, gambled>>

Snapshotting(c) ==
    [step |-> "snapshot", point |-> clock, to |-> op[c].to,
     todo |-> DOMAIN install]

Verifying(c, bare) == [step |-> "verify", to |-> op[c].to, bare |-> bare]

\* restore_point=False, the command line's --no-restore-point.
SkipSnapshot(c) ==
    /\ op[c].step = "resolved"
    /\ op' = [op EXCEPT ![c] = Verifying(c, TRUE)]
    /\ UNCHANGED <<install, points, clock, gambled>>

\* _restore_point finds no directory to copy, another command's rollback being
\* between its rmtree and its copytree: an empty restore point will do, and
\* mkdir takes one that exists as it is.
SnapshotOfNothing(c) ==
    /\ op[c].step = "resolved"
    /\ install = <<>>
    /\ points' = IF clock \in DOMAIN points THEN points ELSE With(points, clock, <<>>)
    /\ op' = [op EXCEPT ![c] = Verifying(c, FALSE)]
    /\ UNCHANGED <<install, clock, gambled>>

\* Mutant: the copy goes into a directory that exists already.
BeginsAnyway(c) ==
    /\ op[c].step = "resolved"
    /\ install # <<>>
    /\ points' = With(points, clock, <<>>)
    /\ op' = [op EXCEPT ![c] = Snapshotting(c)]
    /\ UNCHANGED <<install, clock, gambled>>

\* Mutant: the restore point is stamped a second early.
StampsBefore(c) ==
    /\ op[c].step = "resolved"
    /\ install # <<>>
    /\ clock - 1 \notin DOMAIN points
    /\ points' = With(points, clock - 1, <<>>)
    /\ op' = [op EXCEPT ![c] = Snapshotting(c)]
    /\ UNCHANGED <<install, clock, gambled>>

\* _restore_point: copytree refuses a directory that exists, so that a second
\* apply within one second is refused here.
BeginSnapshot(c) ==
    /\ op[c].step = "resolved"
    /\ install # <<>>
    /\ clock \notin DOMAIN points
    /\ points' = With(points, clock, <<>>)
    /\ op' = [op EXCEPT ![c] = Snapshotting(c)]
    /\ UNCHANGED <<install, clock, gambled>>

\* copytree takes the entries in any order.  One that cannot be copied, or has
\* gone meanwhile, stays to do: the others are copied all the same, and the
\* command ends with an error, which is Stops.
SnapshotEntry(c, entry) ==
    /\ op[c].step = "snapshot"
    /\ entry \in op[c].todo \cap DOMAIN install
    /\ points' = With(points, op[c].point,
                      With(points[op[c].point], entry, install[entry]))
    /\ op' = [op EXCEPT ![c].todo = @ \ {entry}]
    /\ UNCHANGED <<install, clock, gambled>>

\* Mutant: a failed restore point does not refuse the apply.
TakesAnyPoint(c) ==
    /\ op[c].step = "snapshot"
    /\ op' = [op EXCEPT ![c] = Verifying(c, FALSE)]
    /\ UNCHANGED <<install, points, clock, gambled>>

\* _restore_point returns a path only when everything was copied; otherwise the
\* apply is refused, and what was copied stays where it is.
SnapshotEnds(c) ==
    /\ op[c].step = "snapshot"
    /\ op[c].todo = {}
    /\ op' = [op EXCEPT ![c] = Verifying(c, FALSE)]
    /\ UNCHANGED <<install, points, clock, gambled>>

Writing(step, to, entries) ==
    [step |-> step, to |-> to, todo |-> entries, open |-> "none"]

\* apply_delta_update refuses a delta whose signature does not verify, after the
\* restore point has been taken.
VerifyDelta(c, trusted) ==
    /\ op[c].step = "verify"
    /\ op' = [op EXCEPT ![c] = IF trusted THEN Writing("write", op[c].to, Files)
                                          ELSE Idle]
    /\ gambled' = (gambled \/ (trusted /\ op[c].bare /\ NoneWhole))
    /\ UNCHANGED <<install, points, clock>>

\* write_bytes and write_text truncate the file before they fill it.
WriteOpens(c, entry) ==
    /\ op[c].step \in {"write", "manifest"}
    /\ op[c].open = "none"
    /\ entry \in op[c].todo
    /\ install' = With(install, entry, Torn)
    /\ op' = [op EXCEPT ![c].open = entry]
    /\ UNCHANGED <<points, clock, gambled>>

WriteFills(c) ==
    /\ op[c].step \in {"write", "manifest"}
    /\ op[c].open # "none"
    /\ install' = With(install, op[c].open, op[c].to)
    /\ op' = [op EXCEPT ![c].todo = @ \ {op[c].open}, ![c].open = "none"]
    /\ UNCHANGED <<points, clock, gambled>>

\* The payload is written: only now is the manifest rewritten.
RecordVersion(c) ==
    /\ op[c].step = "write"
    /\ op[c].open = "none"
    /\ op[c].todo = {}
    /\ op' = [op EXCEPT ![c] = IF "manifest" \in DOMAIN install
                               THEN Writing("manifest", op[c].to, {"manifest"})
                               ELSE Idle]
    /\ UNCHANGED <<install, points, clock, gambled>>

ApplyReturns(c) ==
    /\ op[c].step = "manifest"
    /\ op[c].todo = {}
    /\ op' = [op EXCEPT ![c] = Idle]
    /\ UNCHANGED <<install, points, clock, gambled>>

-----------------------------------------------------------------------------
(* rollback                                                                 *)

Newest == Max(DOMAIN points)

\* The newest restore point, whatever state it is in.
BeginRollback(c) ==
    /\ op[c] = Idle
    /\ points # <<>>
    /\ op' = [op EXCEPT ![c] = [step |-> "remove", point |-> Newest]]
    /\ gambled' = (gambled \/ NoneWhole)
    /\ UNCHANGED <<install, points, clock>>

\* rmtree: a file another command has open for writing goes with what that
\* command writes into it.
RemoveEntry(c, entry) ==
    /\ op[c].step = "remove"
    /\ entry \in DOMAIN install
    /\ install' = Without(install, entry)
    /\ op' = [d \in Commands |->
                IF op[d].step \in {"write", "manifest"} /\ op[d].open = entry
                THEN [op[d] EXCEPT !.todo = @ \ {entry}, !.open = "none"]
                ELSE op[d]]
    /\ UNCHANGED <<points, clock, gambled>>

BeginCopyBack(c) ==
    /\ op[c].step = "remove"
    /\ install = <<>>
    /\ op' = [op EXCEPT ![c] =
                 [step |-> "copy", point |-> op[c].point,
                  todo |-> DOMAIN points[op[c].point]]]
    /\ UNCHANGED <<install, points, clock, gambled>>

\* As in a snapshot, an entry that fails stays to do.
CopyBack(c, entry) ==
    /\ op[c].step = "copy"
    /\ entry \in op[c].todo
    /\ install' = With(install, entry, points[op[c].point][entry])
    /\ op' = [op EXCEPT ![c].todo = @ \ {entry}]
    /\ UNCHANGED <<points, clock, gambled>>

\* copytree raises at its end when an entry has failed.
RollbackReturns(c) ==
    /\ op[c].step = "copy"
    /\ op[c].todo = {}
    /\ op' = [op EXCEPT ![c] = Idle]
    /\ UNCHANGED <<install, points, clock, gambled>>

-----------------------------------------------------------------------------
UpdateNext ==
    \/ SecondPasses
    \/ \E c \in Commands :
        \/ Stops(c)
        \/ \E to \in Version : ResolveUpdate(c, to)
        \/ SkipSnapshot(c)
        \/ SnapshotOfNothing(c)
        \/ BeginSnapshot(c)
        \/ \E entry \in Entries : SnapshotEntry(c, entry)
        \/ SnapshotEnds(c)
        \/ \E trusted \in BOOLEAN : VerifyDelta(c, trusted)
        \/ \E entry \in Entries : WriteOpens(c, entry)
        \/ WriteFills(c)
        \/ RecordVersion(c)
        \/ ApplyReturns(c)
        \/ BeginRollback(c)
        \/ \E entry \in Entries : RemoveEntry(c, entry)
        \/ BeginCopyBack(c)
        \/ \E entry \in Entries : CopyBack(c, entry)
        \/ RollbackReturns(c)

UpdateSpec == UpdateInit /\ [][UpdateNext]_updateVars

-----------------------------------------------------------------------------
(* Properties                                                               *)

\* Types: directories hold entries of known versions, a command that copies
\* has its restore point, and points are stamped with seconds that have come.
UpdateTypeOK ==
    /\ install \in Directory
    /\ DOMAIN points \subseteq 0 .. clock
    /\ \A s \in DOMAIN points : points[s] \in Directory
    /\ clock \in 0 .. MaxStamp
    /\ gambled \in BOOLEAN
    /\ \A c \in Commands :
        /\ op[c].step \in {"idle", "resolved", "snapshot", "verify", "write",
                           "manifest", "remove", "copy"}
        /\ op[c].step \in {"snapshot", "remove", "copy"} => op[c].point \in DOMAIN points

\* Commands interleave, fail and die anywhere, and one whole version of the
\* package exists all the time, installed or in a restore point: the fail-safe
\* that _restore_point is to be.  It protects nobody who went round it, and the
\* code lets both ways through: to roll back, or to write under
\* --no-restore-point, while no restore point is whole.
NeverStranded ==
    ~gambled => IsWhole(install) \/ \E s \in DOMAIN points : IsWhole(points[s])

\* Only an incomplete restore point changes: a whole one stays as it is, though
\* its stamp may come up again and two applies may fall into one second.
WholePointsStay ==
    [][\A s \in DOMAIN points :
          \/ s \in DOMAIN points' /\ points'[s] = points[s]
          \/ ~(IsWhole(points[s]) /\ DOMAIN points[s] = Entries)]_updateVars

\* rollback restores "the newest restore point taken before the CURRENT version
\* was applied": when it begins, and that point is whole, it holds a version
\* older than the installed one.
RollbackGoesBack ==
    [][\A c \in Commands, v, w \in Version :
          BeginRollback(c) /\ IsAt(install, v) /\ IsAt(points[Newest], w) => w < v
      ]_updateVars
=============================================================================
