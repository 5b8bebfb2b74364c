------------------------ MODULE PackageUpdates_proofs ------------------------
(***************************************************************************)
(* Proofs about PackageUpdates, for every number of commands, files,        *)
(* versions and stamps: type correctness, restore points that only grow and *)
(* stay as they are once complete, a whole version of the package at every  *)
(* moment, and what a command delivers that nobody interferes with.         *)
(*                                                                         *)
(* The inductive invariant rests on one observation.  Until a whole restore *)
(* point exists nobody has touched the install directory: an apply writes   *)
(* only after a complete snapshot, which is then a copy of an untouched     *)
(* directory, unless it was told to take none; that apply, and a rollback,  *)
(* are what gambled remembers.  From then on the whole point stays.         *)
(***************************************************************************)
EXTENDS PackageUpdates, TLAPS, WellFoundedInduction

\* What an entry of a directory can be.
Content == Version \cup {Torn}

\* What a command can be at.
IdleJob == [step : {"idle"}]
ResolvedJob == [step : {"resolved"}, to : Version]
SnapshotJob == [step : {"snapshot"}, point : Nat, to : Version, todo : SUBSET Entries]
VerifyJob == [step : {"verify"}, to : Version, bare : BOOLEAN]
WriteJob == [step : {"write", "manifest"}, to : Version, todo : SUBSET Entries,
             open : Entries \cup {"none"}]
RemoveJob == [step : {"remove"}, point : Nat]
CopyJob == [step : {"copy"}, point : Nat, todo : SUBSET Entries]
Job == IdleJob \cup ResolvedJob \cup SnapshotJob \cup VerifyJob \cup WriteJob
       \cup RemoveJob \cup CopyJob

TypeInv ==
  /\ install \in Directory
  /\ points \in [DOMAIN points -> Directory]
  /\ DOMAIN points \subseteq 0 .. clock
  /\ clock \in 0 .. MaxStamp
  /\ gambled \in BOOLEAN
  /\ op \in [Commands -> Job]
  /\ \A c \in Commands :
       op[c].step \in {"snapshot", "remove", "copy"} => op[c].point \in DOMAIN points

\* A restore point that is being filled is one command's, who has yet to copy
\* what it lacks; one that is being restored holds what is left to copy.
PointInv ==
  /\ \A c \in Commands : op[c].step = "snapshot" =>
        op[c].todo \cap DOMAIN points[op[c].point] = {}
  /\ \A c, d \in Commands :
        op[c].step = "snapshot" /\ op[d].step = "snapshot" /\ op[c].point = op[d].point
          => c = d
  /\ \A c \in Commands : op[c].step = "copy" =>
        op[c].todo \subseteq DOMAIN points[op[c].point]

\* Until there is a whole restore point nobody has touched the install
\* directory, a snapshot is a copy of it so far, and only an apply that takes
\* no restore point has got past the snapshot.
Untouched ==
  /\ DOMAIN install = Entries /\ IsWhole(install)
  /\ \A c \in Commands : op[c].step \in {"idle", "resolved", "snapshot", "verify"}
  /\ \A c \in Commands : op[c].step = "verify" => op[c].bare
  /\ \A c \in Commands : op[c].step = "snapshot" =>
        \A e \in Entries \ op[c].todo :
           e \in DOMAIN points[op[c].point] /\ points[op[c].point][e] = install[e]

WholeInv == ~gambled /\ NoneWhole => Untouched

UpdateInv == TypeInv /\ PointInv /\ WholeInv

-----------------------------------------------------------------------------
(* Directories.                                                              *)

LEMMA DirectoryIs ==
  ASSUME NEW d
  PROVE  d \in Directory <=> \E held \in SUBSET Entries : d \in [held -> Content]
BY Zenon DEF Directory, Content

LEMMA InDirectory ==
  ASSUME NEW d \in Directory
  PROVE  /\ DOMAIN d \subseteq Entries
         /\ d = [e \in DOMAIN d |-> d[e]]
         /\ \A e \in DOMAIN d : d[e] \in Content
BY DirectoryIs

LEMMA WithIs ==
  ASSUME NEW d, NEW e, NEW v
  PROVE  /\ DOMAIN With(d, e, v) = DOMAIN d \cup {e}
         /\ With(d, e, v)[e] = v
         /\ \A x \in DOMAIN d \ {e} : With(d, e, v)[x] = d[x]
BY DEF With

LEMMA WithIsDirectory ==
  ASSUME NEW d \in Directory, NEW e \in Entries, NEW v \in Content
  PROVE  With(d, e, v) \in Directory
<1>1. DOMAIN d \subseteq Entries /\ \A x \in DOMAIN d : d[x] \in Content
  BY InDirectory
<1>2. With(d, e, v) \in [DOMAIN d \cup {e} -> Content]
  BY <1>1 DEF With
<1> QED BY <1>1, <1>2, DirectoryIs

LEMMA WithoutIsDirectory ==
  ASSUME NEW d \in Directory, NEW e
  PROVE  Without(d, e) \in Directory
<1>1. DOMAIN d \subseteq Entries /\ \A x \in DOMAIN d : d[x] \in Content
  BY InDirectory
<1>2. Without(d, e) \in [DOMAIN d \ {e} -> Content]
  BY <1>1 DEF Without, Restrict
<1> QED BY <1>1, <1>2, DirectoryIs

LEMMA EmptyIsDirectory == <<>> \in Directory /\ DOMAIN <<>> = {}
<1>1. <<>> \in [{} -> Content]
  OBVIOUS
<1> QED BY <1>1, DirectoryIs

\* A directory that agrees with a whole one wherever that has a file is whole.
LEMMA WholeCarries ==
  ASSUME NEW d, IsWhole(d), NEW e,
         \A f \in DOMAIN d : f \in DOMAIN e /\ e[f] = d[f]
  PROVE  IsWhole(e)
BY DEF IsWhole, IsAt

-----------------------------------------------------------------------------
(* Restore points.                                                           *)

\* A set of stamps that have come has a greatest.
LEMMA GreatestStamp ==
  ASSUME NEW n \in Nat, NEW S \in SUBSET (0 .. n), S # {}
  PROVE  Max(S) \in S
<1> DEFINE less == OpToRel(<, Nat)
           gaps == {n - s : s \in S}
<1>1. gaps \in SUBSET Nat /\ gaps # {}
  OBVIOUS
<1>2. PICK m \in gaps : \A k \in gaps : ~ (<<k, m>> \in less)
  <2>1. IsWellFoundedOn(less, Nat)
    BY NatLessThanWellFounded
  <2> HIDE DEF less, gaps
  <2> QED BY <1>1, <2>1, WFMin
<1>3. PICK top \in S : m = n - top
  BY <1>2
<1>4. ASSUME NEW s \in S
      PROVE  top >= s
  <2>1. n - s \in gaps /\ n - s \in Nat /\ m \in Nat
    BY <1>1
  <2>2. ~ (<<n - s, m>> \in less)
    BY <1>2, <2>1
  <2>3. ~ (n - s < m)
    BY <2>1, <2>2 DEF OpToRel
  <2>4. s \in Int /\ top \in Int
    OBVIOUS
  <2> QED BY <1>3, <2>3, <2>4
<1>5. \E x \in S : \A y \in S : x >= y
  BY <1>4
<1> QED BY <1>5 DEF Max

LEMMA NewestIsAPoint ==
  ASSUME TypeInv, points # <<>>
  PROVE  Newest \in DOMAIN points
<1>1. points = [s \in DOMAIN points |-> points[s]]
  BY DEF TypeInv
<1>2. DOMAIN points # {}
  BY <1>1
<1>3. clock \in Nat /\ DOMAIN points \in SUBSET (0 .. clock)
  BY UpdateAssumption DEF TypeInv
<1> QED BY <1>2, <1>3, GreatestStamp DEF Newest

\* What the step of a command makes of what the command was.
LEMMA JobIsKnown ==
  ASSUME TypeInv, NEW c \in Commands
  PROVE  /\ op[c] \in Job
         /\ op[c].step = "resolved" => op[c] \in ResolvedJob
         /\ op[c].step = "snapshot" => op[c] \in SnapshotJob
         /\ op[c].step = "verify" => op[c] \in VerifyJob
         /\ op[c].step \in {"write", "manifest"} => op[c] \in WriteJob
         /\ op[c].step = "remove" => op[c] \in RemoveJob
         /\ op[c].step = "copy" => op[c] \in CopyJob
<1>1. op[c] \in Job
  BY DEF TypeInv
<1> QED BY <1>1 DEF Job, IdleJob, ResolvedJob, SnapshotJob, VerifyJob, WriteJob,
           RemoveJob, CopyJob

\* The restore points grow: none goes, and what one holds it keeps.
Grows ==
  /\ DOMAIN points \subseteq DOMAIN points'
  /\ \A s \in DOMAIN points :
       /\ DOMAIN points[s] \subseteq DOMAIN points'[s]
       /\ \A e \in DOMAIN points[s] : points'[s][e] = points[s][e]

LEMMA WholePointStaysWhole ==
  ASSUME Grows, NEW s \in DOMAIN points, IsWhole(points[s])
  PROVE  s \in DOMAIN points' /\ IsWhole(points'[s])
BY WholeCarries DEF Grows

LEMMA NoneWasWhole ==
  ASSUME Grows, NoneWhole'
  PROVE  NoneWhole
BY WholePointStaysWhole DEF NoneWhole

-----------------------------------------------------------------------------
(* Steps that leave the restore points alone.                                *)

LEMMA SamePointsGrow ==
  ASSUME points' = points
  PROVE  Grows
BY DEF Grows

\* A command goes on with j.
LEMMA CommandMoves ==
  ASSUME TypeInv, PointInv, NEW c \in Commands, NEW j \in Job,
         points' = points, clock' = clock, install' \in Directory,
         gambled' \in BOOLEAN, op' = [op EXCEPT ![c] = j],
         j.step \in {"snapshot", "remove", "copy"} => j.point \in DOMAIN points,
         j.step = "snapshot" =>
           /\ op[c].step = "snapshot" /\ j.point = op[c].point
           /\ j.todo \subseteq op[c].todo,
         j.step = "copy" => j.todo \subseteq DOMAIN points[j.point]
  PROVE  TypeInv' /\ PointInv'
<1>1. /\ op' \in [Commands -> Job] /\ op'[c] = j
      /\ \A d \in Commands \ {c} : op'[d] = op[d]
  BY DEF TypeInv
<1>2. TypeInv'
  BY <1>1 DEF TypeInv
<1>3. PointInv'
  <2>1. \A d \in Commands : op'[d].step = "snapshot" =>
           op[d].step = "snapshot" /\ op'[d].point = op[d].point
           /\ op'[d].todo \subseteq op[d].todo
    BY <1>1
  <2>2. \A d \in Commands : op'[d].step = "snapshot" =>
           op'[d].todo \cap DOMAIN points[op'[d].point] = {}
    BY <2>1 DEF PointInv
  <2>3. \A d, e \in Commands :
           op'[d].step = "snapshot" /\ op'[e].step = "snapshot" /\ op'[d].point = op'[e].point
             => d = e
    BY <2>1 DEF PointInv
  <2>4. \A d \in Commands : op'[d].step = "copy" =>
           op'[d].todo \subseteq DOMAIN points[op'[d].point]
    BY <1>1 DEF PointInv
  <2> QED BY <2>2, <2>3, <2>4 DEF PointInv
<1> QED BY <1>2, <1>3

\* Nothing has happened yet to a package without a whole restore point, and
\* no command that only reads makes a difference.
LEMMA ReaderMoves ==
  ASSUME TypeInv, WholeInv, NEW c \in Commands, NEW j \in Job,
         points' = points, install' = install, op' = [op EXCEPT ![c] = j],
         gambled => gambled',
         NoneWhole /\ ~gambled' =>
           j.step \in {"idle", "resolved"} \/ (j.step = "verify" /\ j.bare)
  PROVE  WholeInv'
<1> SUFFICES ASSUME ~gambled', NoneWhole'
             PROVE  Untouched'
  BY DEF WholeInv
<1>1. /\ NoneWhole /\ Untouched
      /\ j.step \in {"idle", "resolved"} \/ (j.step = "verify" /\ j.bare)
  BY NoneWasWhole, SamePointsGrow DEF WholeInv
<1>2. op'[c] = j /\ \A d \in Commands \ {c} : op'[d] = op[d]
  BY DEF TypeInv
<1> QED BY <1>1, <1>2 DEF Untouched

\* Once somebody writes, a whole restore point is there to stay, or somebody
\* has gambled.
LEMMA WriterMoves ==
  ASSUME WholeInv, points' = points, gambled' = gambled, NEW c \in Commands,
         op[c].step \notin {"idle", "resolved", "snapshot", "verify"}
  PROVE  WholeInv'
<1> SUFFICES ASSUME ~gambled', NoneWhole'
             PROVE  FALSE
  BY DEF WholeInv
<1>1. NoneWhole /\ Untouched
  BY NoneWasWhole, SamePointsGrow DEF WholeInv
<1> QED BY <1>1 DEF Untouched

LEMMA SecondPassesStep ==
  ASSUME UpdateInv, SecondPasses
  PROVE  UpdateInv' /\ Grows
<1>1. /\ install' = install /\ points' = points /\ op' = op
      /\ clock' = clock + 1 /\ clock < MaxStamp /\ gambled' = gambled
  BY DEF SecondPasses
<1>2. TypeInv'
  <2>1. clock \in Nat /\ MaxStamp \in Nat /\ DOMAIN points \subseteq 0 .. clock
    BY UpdateAssumption DEF UpdateInv, TypeInv
  <2>2. clock' \in 0 .. MaxStamp /\ DOMAIN points \subseteq 0 .. clock'
    BY <1>1, <2>1
  <2> QED BY <1>1, <2>2 DEF UpdateInv, TypeInv
<1>3. PointInv' /\ WholeInv'
  BY <1>1 DEF UpdateInv, PointInv, WholeInv, NoneWhole, Untouched
<1> QED BY <1>1, <1>2, <1>3, SamePointsGrow DEF UpdateInv

LEMMA StopsStep ==
  ASSUME UpdateInv, NEW c \in Commands, Stops(c)
  PROVE  UpdateInv' /\ Grows
<1>1. /\ install' = install /\ points' = points /\ clock' = clock
      /\ gambled' = gambled
      /\ op' = [op EXCEPT ![c] = Idle]
  BY DEF Stops
<1>2. Idle \in Job /\ Idle.step = "idle"
  BY DEF Idle, Job, IdleJob
<1>3. install' \in Directory /\ gambled' \in BOOLEAN
  BY <1>1 DEF UpdateInv, TypeInv
<1> QED BY <1>1, <1>2, <1>3, CommandMoves, ReaderMoves, SamePointsGrow DEF UpdateInv

LEMMA ResolveUpdateStep ==
  ASSUME UpdateInv, NEW c \in Commands, NEW to \in Version, ResolveUpdate(c, to)
  PROVE  UpdateInv' /\ Grows
<1> DEFINE j == [step |-> "resolved", to |-> to]
<1>1. /\ install' = install /\ points' = points /\ clock' = clock
      /\ gambled' = gambled
      /\ op' = [op EXCEPT ![c] = j]
  BY DEF ResolveUpdate
<1>2. j \in Job /\ j.step = "resolved"
  BY DEF Job, ResolvedJob
<1>3. install' \in Directory /\ gambled' \in BOOLEAN
  BY <1>1 DEF UpdateInv, TypeInv
<1> HIDE DEF j
<1> QED BY <1>1, <1>2, <1>3, CommandMoves, ReaderMoves, SamePointsGrow DEF UpdateInv

-----------------------------------------------------------------------------
(* The steps of apply_update.                                                *)

\* One restore point is added or written to.
LEMMA PointIsSet ==
  ASSUME TypeInv, NEW s \in 0 .. clock, NEW d \in Directory,
         points' = With(points, s, d)
  PROVE  /\ points' \in [DOMAIN points' -> Directory]
         /\ DOMAIN points' = DOMAIN points \cup {s} /\ DOMAIN points' \subseteq 0 .. clock
         /\ points'[s] = d /\ \A r \in DOMAIN points \ {s} : points'[r] = points[r]
<1>1. points \in [DOMAIN points -> Directory] /\ DOMAIN points \subseteq 0 .. clock
  BY DEF TypeInv
<1>2. /\ DOMAIN points' = DOMAIN points \cup {s}
      /\ points'[s] = d /\ \A r \in DOMAIN points \ {s} : points'[r] = points[r]
  BY DEF With
<1>3. points' = [r \in DOMAIN points' |-> points'[r]]
  BY DEF With
<1>4. \A r \in DOMAIN points' : points'[r] \in Directory
  BY <1>1, <1>2
<1> QED BY <1>1, <1>2, <1>3, <1>4

\* A command goes on with j and a new, empty restore point.
LEMMA PointIsAdded ==
  ASSUME TypeInv, PointInv, NEW c \in Commands, NEW j \in Job,
         clock \notin DOMAIN points, points' = With(points, clock, <<>>),
         install' = install, clock' = clock, gambled' = gambled,
         op' = [op EXCEPT ![c] = j],
         j.step \in {"snapshot", "verify"}, j.step = "snapshot" => j.point = clock
  PROVE  TypeInv' /\ PointInv' /\ Grows
<1>2. clock \in Nat /\ clock \in 0 .. clock
  BY UpdateAssumption DEF TypeInv
<1>4. /\ points' \in [DOMAIN points' -> Directory]
      /\ DOMAIN points' = DOMAIN points \cup {clock} /\ DOMAIN points' \subseteq 0 .. clock
      /\ points'[clock] = <<>> /\ \A r \in DOMAIN points : points'[r] = points[r]
      /\ DOMAIN points'[clock] = {}
  BY <1>2, EmptyIsDirectory, PointIsSet
<1>5. /\ op' \in [Commands -> Job] /\ op'[c] = j
      /\ \A d \in Commands \ {c} : op'[d] = op[d]
  BY DEF TypeInv
<1>6. Grows
  BY <1>4 DEF Grows
<1>7. TypeInv'
  <2>1. \A d \in Commands : op'[d].step \in {"snapshot", "remove", "copy"}
           => op'[d].point \in DOMAIN points'
    BY <1>4, <1>5 DEF TypeInv
  <2> QED BY <1>4, <1>5, <2>1 DEF TypeInv
<1>8. PointInv'
  <2>1. \A d \in Commands \ {c} : op[d].step \in {"snapshot", "copy"} =>
           op[d].point \in DOMAIN points /\ op[d].point # clock
    BY DEF TypeInv
  <2>2. \A d \in Commands : op'[d].step = "snapshot" =>
           op'[d].todo \cap DOMAIN points'[op'[d].point] = {}
    BY <1>4, <1>5, <2>1 DEF PointInv
  <2>3. \A d, e \in Commands :
           op'[d].step = "snapshot" /\ op'[e].step = "snapshot" /\ op'[d].point = op'[e].point
             => d = e
    BY <1>5, <2>1 DEF PointInv
  <2>4. \A d \in Commands : op'[d].step = "copy" =>
           op'[d].todo \subseteq DOMAIN points'[op'[d].point]
    BY <1>4, <1>5, <2>1 DEF PointInv
  <2> QED BY <2>2, <2>3, <2>4 DEF PointInv
<1> QED BY <1>6, <1>7, <1>8

LEMMA SkipSnapshotStep ==
  ASSUME UpdateInv, NEW c \in Commands, SkipSnapshot(c)
  PROVE  UpdateInv' /\ Grows
<1> DEFINE j == Verifying(c, TRUE)
<1>1. /\ install' = install /\ points' = points /\ clock' = clock /\ gambled' = gambled
      /\ op' = [op EXCEPT ![c] = j] /\ op[c].step = "resolved"
      /\ TypeInv /\ PointInv /\ WholeInv
  BY DEF SkipSnapshot, UpdateInv
<1>2. op[c] \in ResolvedJob
  BY <1>1, JobIsKnown
<1>3. j \in Job /\ j.step = "verify" /\ j.bare
  BY <1>2 DEF Verifying, Job, VerifyJob, ResolvedJob
<1> HIDE DEF j
<1>4. install' \in Directory /\ gambled' \in BOOLEAN
  BY <1>1 DEF TypeInv
<1> QED BY <1>1, <1>3, <1>4, CommandMoves, ReaderMoves, SamePointsGrow DEF UpdateInv

\* The install directory is missing: somebody has had a hand in it.
LEMMA SnapshotOfNothingStep ==
  ASSUME UpdateInv, NEW c \in Commands, SnapshotOfNothing(c)
  PROVE  UpdateInv' /\ Grows
<1> DEFINE j == Verifying(c, FALSE)
<1>1. /\ install' = install /\ clock' = clock /\ gambled' = gambled /\ install = <<>>
      /\ points' = IF clock \in DOMAIN points THEN points ELSE With(points, clock, <<>>)
      /\ op' = [op EXCEPT ![c] = j] /\ op[c].step = "resolved"
      /\ TypeInv /\ PointInv /\ WholeInv
  BY DEF SnapshotOfNothing, UpdateInv
<1>2. op[c] \in ResolvedJob
  BY <1>1, JobIsKnown
<1>3. j \in Job /\ j.step = "verify"
  BY <1>2 DEF Verifying, Job, VerifyJob, ResolvedJob
<1> HIDE DEF j
<1>4. install' \in Directory /\ gambled' \in BOOLEAN
  BY <1>1 DEF TypeInv
<1>5. TypeInv' /\ PointInv' /\ Grows
  <2>1. CASE clock \in DOMAIN points
    BY <1>1, <1>3, <1>4, <2>1, CommandMoves, SamePointsGrow
  <2>2. CASE clock \notin DOMAIN points
    BY <1>1, <1>3, <2>2, PointIsAdded
  <2> QED BY <2>1, <2>2
<1>6. WholeInv'
  <2> SUFFICES ASSUME ~gambled', NoneWhole'
               PROVE  FALSE
    BY DEF WholeInv
  <2>1. Untouched
    BY <1>1, <1>5, NoneWasWhole DEF WholeInv
  <2> QED BY <1>1, <2>1, EmptyIsDirectory DEF Untouched, Entries
<1> QED BY <1>5, <1>6 DEF UpdateInv

LEMMA BeginSnapshotStep ==
  ASSUME UpdateInv, NEW c \in Commands, BeginSnapshot(c)
  PROVE  UpdateInv' /\ Grows
<1> DEFINE j == Snapshotting(c)
<1>1. /\ install' = install /\ points' = With(points, clock, <<>>) /\ clock' = clock
      /\ gambled' = gambled
      /\ op' = [op EXCEPT ![c] = j] /\ op[c].step = "resolved" /\ clock \notin DOMAIN points
      /\ TypeInv /\ PointInv /\ WholeInv
  BY DEF BeginSnapshot, UpdateInv
<1>2. op[c] \in ResolvedJob /\ clock \in Nat
      /\ install \in Directory /\ DOMAIN install \subseteq Entries
  BY <1>1, JobIsKnown, UpdateAssumption, InDirectory DEF TypeInv
<1>3. /\ j.step = "snapshot" /\ j.point = clock /\ j.todo = DOMAIN install
      /\ j \in Job
  BY <1>2 DEF Snapshotting, Job, SnapshotJob, ResolvedJob
<1> HIDE DEF j
<1>4. TypeInv' /\ PointInv' /\ Grows
  BY <1>1, <1>3, PointIsAdded
<1>5. WholeInv'
  <2> SUFFICES ASSUME ~gambled', NoneWhole'
               PROVE  Untouched'
    BY DEF WholeInv
  <2>1. NoneWhole /\ Untouched
    BY <1>1, <1>4, NoneWasWhole DEF WholeInv
  <2>2. op'[c] = j /\ \A d \in Commands \ {c} : op'[d] = op[d]
    BY <1>1 DEF TypeInv
  <2>3. \A d \in Commands : op'[d].step = "snapshot" =>
          \A e \in Entries \ op'[d].todo :
             e \in DOMAIN points'[op'[d].point] /\ points'[op'[d].point][e] = install[e]
    <3>1. j.todo = Entries
      BY <1>3, <2>1 DEF Untouched
    <3>2. \A d \in Commands : op[d].step = "snapshot" => op[d].point \in DOMAIN points
      BY <1>1 DEF TypeInv
    <3> QED BY <1>4, <2>1, <2>2, <3>1, <3>2 DEF Untouched, Grows
  <2> QED BY <1>1, <1>3, <2>1, <2>2, <2>3 DEF Untouched
<1> QED BY <1>4, <1>5 DEF UpdateInv

LEMMA SnapshotEntryStep ==
  ASSUME UpdateInv, NEW c \in Commands, NEW entry \in Entries, SnapshotEntry(c, entry)
  PROVE  UpdateInv' /\ Grows
<1> DEFINE j == [op[c] EXCEPT !.todo = @ \ {entry}]
           p == op[c].point
           dir == With(points[p], entry, install[entry])
<1>1. /\ install' = install /\ clock' = clock /\ gambled' = gambled
      /\ op[c].step = "snapshot" /\ entry \in op[c].todo /\ entry \in DOMAIN install
      /\ points' = With(points, p, dir)
      /\ TypeInv /\ PointInv /\ WholeInv
  BY DEF SnapshotEntry, UpdateInv
<1>2. op' = [op EXCEPT ![c] = j]
  BY DEF SnapshotEntry
<1>3. op[c] \in SnapshotJob /\ p \in DOMAIN points /\ p \in 0 .. clock /\ points[p] \in Directory
  BY <1>1, JobIsKnown DEF TypeInv
<1>4. j.step = "snapshot" /\ j.point = p /\ j.todo = op[c].todo \ {entry} /\ j \in Job
  BY <1>3 DEF Job, SnapshotJob
<1>5. entry \notin DOMAIN points[p]
  BY <1>1 DEF PointInv
<1>6. dir \in Directory
  <2>1. install[entry] \in Content
    BY <1>1, InDirectory DEF TypeInv
  <2> QED BY <1>3, <2>1, WithIsDirectory
<1>7. /\ DOMAIN dir = DOMAIN points[p] \cup {entry} /\ dir[entry] = install[entry]
      /\ \A x \in DOMAIN points[p] : dir[x] = points[p][x]
  BY <1>5 DEF With
<1> HIDE DEF j, p, dir
<1>8. /\ points' \in [DOMAIN points' -> Directory]
      /\ DOMAIN points' = DOMAIN points
      /\ points'[p] = dir
      /\ \A r \in DOMAIN points \ {p} : points'[r] = points[r]
  BY <1>1, <1>3, <1>6, PointIsSet
<1>9. /\ op' \in [Commands -> Job] /\ op'[c] = j
      /\ \A d \in Commands \ {c} : op'[d] = op[d]
  BY <1>1, <1>2, <1>4 DEF TypeInv
<1>10. Grows
  <2>1. \A r \in DOMAIN points \ {p} : points'[r] = points[r]
    BY <1>8
  <2>2. /\ DOMAIN points[p] \subseteq DOMAIN points'[p]
        /\ \A e \in DOMAIN points[p] : points'[p][e] = points[p][e]
    BY <1>7, <1>8
  <2>3. \A r \in DOMAIN points : /\ DOMAIN points[r] \subseteq DOMAIN points'[r]
                                 /\ \A e \in DOMAIN points[r] : points'[r][e] = points[r][e]
    BY <2>1, <2>2
  <2> QED BY <1>8, <2>3 DEF Grows
<1>11. TypeInv'
  <2>1. \A d \in Commands : op'[d].step \in {"snapshot", "remove", "copy"}
           => op'[d].point \in DOMAIN points'
    BY <1>1, <1>3, <1>4, <1>8, <1>9 DEF TypeInv
  <2> QED BY <1>1, <1>8, <1>9, <2>1 DEF TypeInv
<1>12. \A d \in Commands \ {c} : op[d].step = "snapshot" =>
          op[d].point \in DOMAIN points /\ op[d].point # p
  BY <1>1 DEF PointInv, TypeInv, p
<1>13. PointInv'
  <2>1. op[c].todo \cap DOMAIN points[p] = {}
    BY <1>1 DEF PointInv, p
  <2>2. j.todo \cap DOMAIN points'[p] = {}
    BY <1>4, <1>7, <1>8, <2>1
  <2>3. \A d \in Commands \ {c} : op[d].step = "snapshot" =>
           op[d].todo \cap DOMAIN points'[op[d].point] = {}
    BY <1>1, <1>8, <1>12 DEF PointInv
  <2>4. \A d, e \in Commands :
           op'[d].step = "snapshot" /\ op'[e].step = "snapshot" /\ op'[d].point = op'[e].point
             => d = e
    BY <1>1, <1>4, <1>9, <1>12 DEF PointInv
  <2>5. \A d \in Commands : op'[d].step = "copy" =>
           op'[d].todo \subseteq DOMAIN points'[op'[d].point]
    <3>1. \A d \in Commands : op'[d].step = "copy" =>
             /\ d # c /\ op[d].step = "copy" /\ op'[d] = op[d]
             /\ op[d].point \in DOMAIN points
             /\ op[d].todo \subseteq DOMAIN points[op[d].point]
      BY <1>1, <1>4, <1>9 DEF PointInv, TypeInv
    <3> QED BY <1>10, <3>1 DEF Grows
  <2> QED BY <1>4, <1>9, <2>2, <2>3, <2>4, <2>5 DEF PointInv
<1>14. WholeInv'
  <2> SUFFICES ASSUME ~gambled', NoneWhole'
               PROVE  Untouched'
    BY DEF WholeInv
  <2>1. NoneWhole /\ Untouched
    BY <1>1, <1>10, NoneWasWhole DEF WholeInv
  <2>2. \A d \in Commands \ {c} : op[d].step = "snapshot" =>
          \A e \in Entries \ op[d].todo :
             e \in DOMAIN points'[op[d].point] /\ points'[op[d].point][e] = install[e]
    BY <1>8, <1>12, <2>1 DEF Untouched
  <2>3. ASSUME NEW e \in Entries \ j.todo
        PROVE  e \in DOMAIN points'[p] /\ points'[p][e] = install[e]
    <3>1. CASE e = entry
      BY <1>7, <1>8, <3>1
    <3>2. CASE e # entry
      <4>1. e \in DOMAIN points[p] /\ points[p][e] = install[e]
        BY <1>1, <1>4, <2>1, <3>2 DEF Untouched, p
      <4> QED BY <1>7, <1>8, <4>1
    <3> QED BY <3>1, <3>2
  <2>4. \A d \in Commands : op'[d].step \in {"idle", "resolved", "snapshot", "verify"}
    BY <1>4, <1>9, <2>1 DEF Untouched
  <2>6. \A d \in Commands : op'[d].step = "verify" => op'[d].bare
    BY <1>4, <1>9, <2>1 DEF Untouched
  <2>5. \A d \in Commands : op'[d].step = "snapshot" =>
          \A e \in Entries \ op'[d].todo :
             e \in DOMAIN points'[op'[d].point] /\ points'[op'[d].point][e] = install[e]
    BY <1>4, <1>9, <2>2, <2>3
  <2> QED BY <1>1, <2>1, <2>4, <2>5, <2>6 DEF Untouched
<1> QED BY <1>10, <1>11, <1>13, <1>14 DEF UpdateInv

\* A restore point that is complete, with nobody at the install directory, is
\* whole.
LEMMA TakenIsWhole ==
  ASSUME Untouched, TypeInv, NEW c \in Commands, op[c].step = "snapshot",
         op[c].todo = {}
  PROVE  ~NoneWhole
<1>1. op[c].point \in DOMAIN points
  BY DEF TypeInv
<1>2. \A e \in Entries : e \in DOMAIN points[op[c].point]
                         /\ points[op[c].point][e] = install[e]
  BY DEF Untouched
<1>3. IsWhole(points[op[c].point])
  BY <1>2, WholeCarries DEF Untouched
<1> QED BY <1>1, <1>3 DEF NoneWhole

LEMMA SnapshotEndsStep ==
  ASSUME UpdateInv, NEW c \in Commands, SnapshotEnds(c)
  PROVE  UpdateInv' /\ Grows
<1> DEFINE j == Verifying(c, FALSE)
<1>1. /\ install' = install /\ points' = points /\ clock' = clock /\ gambled' = gambled
      /\ op' = [op EXCEPT ![c] = j] /\ op[c].step = "snapshot" /\ op[c].todo = {}
      /\ TypeInv /\ PointInv /\ WholeInv
  BY DEF SnapshotEnds, UpdateInv
<1>2. op[c] \in SnapshotJob
  BY <1>1, JobIsKnown
<1>3. j \in Job /\ j.step = "verify"
  BY <1>2 DEF Verifying, Job, VerifyJob, SnapshotJob
<1> HIDE DEF j
<1>4. ~(NoneWhole /\ ~gambled')
  BY <1>1, TakenIsWhole DEF WholeInv
<1>5. install' \in Directory /\ gambled' \in BOOLEAN
  BY <1>1 DEF TypeInv
<1> QED BY <1>1, <1>3, <1>4, <1>5, CommandMoves, ReaderMoves, SamePointsGrow DEF UpdateInv

\* Before there is a whole restore point only an apply without one gets here,
\* and it gambles.
LEMMA VerifyDeltaStep ==
  ASSUME UpdateInv, NEW c \in Commands, NEW trusted \in BOOLEAN, VerifyDelta(c, trusted)
  PROVE  UpdateInv' /\ Grows
<1> DEFINE j == IF trusted THEN Writing("write", op[c].to, Files) ELSE Idle
<1>1. /\ install' = install /\ points' = points /\ clock' = clock
      /\ gambled' = (gambled \/ (trusted /\ op[c].bare /\ NoneWhole))
      /\ op' = [op EXCEPT ![c] = j] /\ op[c].step = "verify"
      /\ TypeInv /\ PointInv /\ WholeInv
  BY DEF VerifyDelta, UpdateInv
<1>2. op[c] \in VerifyJob
  BY <1>1, JobIsKnown
<1>3. j \in Job /\ j.step \in {"write", "idle"} /\ (~trusted => j.step = "idle")
  BY <1>2 DEF Writing, Idle, Job, IdleJob, WriteJob, VerifyJob, Entries
<1> HIDE DEF j
<1>4. install' \in Directory /\ gambled' \in BOOLEAN /\ (gambled => gambled')
  BY <1>1, <1>2 DEF TypeInv, VerifyJob
<1>5. NoneWhole /\ ~gambled' => j.step = "idle"
  <2> SUFFICES ASSUME NoneWhole, ~gambled'
               PROVE  ~trusted
    BY <1>3
  <2>1. op[c].bare
    BY <1>1, <1>4 DEF WholeInv, Untouched
  <2> QED BY <1>1, <2>1
<1> QED BY <1>1, <1>3, <1>4, <1>5, CommandMoves, ReaderMoves, SamePointsGrow DEF UpdateInv

LEMMA WriteOpensStep ==
  ASSUME UpdateInv, NEW c \in Commands, NEW entry \in Entries, WriteOpens(c, entry)
  PROVE  UpdateInv' /\ Grows
<1> DEFINE j == [op[c] EXCEPT !.open = entry]
<1>1. /\ install' = With(install, entry, Torn) /\ points' = points /\ clock' = clock
      /\ gambled' = gambled
      /\ op[c].step \in {"write", "manifest"} /\ TypeInv /\ PointInv /\ WholeInv
  BY DEF WriteOpens, UpdateInv
<1>2. op' = [op EXCEPT ![c] = j]
  BY DEF WriteOpens
<1>3. op[c] \in WriteJob
  BY <1>1, JobIsKnown
<1>4. j \in Job /\ j.step \in {"write", "manifest"}
  BY <1>3 DEF Job, WriteJob
<1> HIDE DEF j
<1>5. install' \in Directory /\ gambled' \in BOOLEAN
  BY <1>1, WithIsDirectory DEF TypeInv, Content
<1>6. WholeInv'
  BY <1>1, WriterMoves
<1> QED BY <1>1, <1>2, <1>4, <1>5, <1>6, CommandMoves, SamePointsGrow DEF UpdateInv

LEMMA WriteFillsStep ==
  ASSUME UpdateInv, NEW c \in Commands, WriteFills(c)
  PROVE  UpdateInv' /\ Grows
<1> DEFINE j == [op[c] EXCEPT !.todo = @ \ {op[c].open}, !.open = "none"]
<1>1. /\ install' = With(install, op[c].open, op[c].to) /\ points' = points /\ clock' = clock
      /\ gambled' = gambled
      /\ op[c].step \in {"write", "manifest"} /\ op[c].open # "none"
      /\ TypeInv /\ PointInv /\ WholeInv
  BY DEF WriteFills, UpdateInv
<1>2. op[c] \in WriteJob
  BY <1>1, JobIsKnown
<1>3. op' = [op EXCEPT ![c] = j]
  BY DEF WriteFills
<1>4. j \in Job /\ j.step \in {"write", "manifest"}
  BY <1>2 DEF Job, WriteJob
<1> HIDE DEF j
<1>5. install' \in Directory /\ gambled' \in BOOLEAN
  <2>1. op[c].open \in Entries /\ op[c].to \in Content
    BY <1>1, <1>2 DEF WriteJob, Content
  <2> QED BY <1>1, <2>1, WithIsDirectory DEF TypeInv
<1>6. WholeInv'
  BY <1>1, WriterMoves
<1> QED BY <1>1, <1>3, <1>4, <1>5, <1>6, CommandMoves, SamePointsGrow DEF UpdateInv

LEMMA RecordVersionStep ==
  ASSUME UpdateInv, NEW c \in Commands, RecordVersion(c)
  PROVE  UpdateInv' /\ Grows
<1> DEFINE j == IF "manifest" \in DOMAIN install
                THEN Writing("manifest", op[c].to, {"manifest"}) ELSE Idle
<1>1. /\ install' = install /\ points' = points /\ clock' = clock
      /\ gambled' = gambled
      /\ op' = [op EXCEPT ![c] = j] /\ op[c].step = "write"
      /\ TypeInv /\ PointInv /\ WholeInv
  BY DEF RecordVersion, UpdateInv
<1>2. op[c] \in WriteJob
  BY <1>1, JobIsKnown
<1>3. j \in Job /\ j.step \in {"manifest", "idle"}
  BY <1>2 DEF Writing, Idle, Job, IdleJob, WriteJob, Entries
<1> HIDE DEF j
<1>4. install' \in Directory /\ gambled' \in BOOLEAN
  BY <1>1 DEF TypeInv
<1>5. WholeInv'
  BY <1>1, WriterMoves
<1> QED BY <1>1, <1>3, <1>4, <1>5, CommandMoves, SamePointsGrow DEF UpdateInv

\* A command that has had a hand in the install directory ends.
LEMMA WriterEnds ==
  ASSUME UpdateInv, NEW c \in Commands,
         op[c].step \notin {"idle", "resolved", "snapshot", "verify"},
         install' = install, points' = points, clock' = clock, gambled' = gambled,
         op' = [op EXCEPT ![c] = Idle]
  PROVE  UpdateInv' /\ Grows
<1>1. Idle \in Job /\ Idle.step = "idle"
  BY DEF Idle, Job, IdleJob
<1>2. install' \in Directory /\ gambled' \in BOOLEAN
  BY DEF UpdateInv, TypeInv
<1>3. WholeInv'
  BY WriterMoves DEF UpdateInv
<1> QED BY <1>1, <1>2, <1>3, CommandMoves, SamePointsGrow DEF UpdateInv

LEMMA ApplyReturnsStep ==
  ASSUME UpdateInv, NEW c \in Commands, ApplyReturns(c)
  PROVE  UpdateInv' /\ Grows
BY WriterEnds DEF ApplyReturns

-----------------------------------------------------------------------------
(* The steps of rollback.                                                    *)

\* To begin a rollback while no restore point is whole is a gamble.
LEMMA BeginRollbackStep ==
  ASSUME UpdateInv, NEW c \in Commands, BeginRollback(c)
  PROVE  UpdateInv' /\ Grows
<1> DEFINE j == [step |-> "remove", point |-> Newest]
<1>1. /\ install' = install /\ points' = points /\ clock' = clock
      /\ gambled' = (gambled \/ NoneWhole)
      /\ op' = [op EXCEPT ![c] = j] /\ points # <<>>
      /\ TypeInv /\ PointInv /\ WholeInv
  BY DEF BeginRollback, UpdateInv
<1>2. Newest \in DOMAIN points
  BY <1>1, NewestIsAPoint
<1>3. Newest \in Nat
  <2>1. DOMAIN points \subseteq 0 .. clock
    BY <1>1 DEF TypeInv
  <2> QED BY <1>2, <2>1
<1>4. j \in Job /\ j.step = "remove" /\ j.point = Newest
  BY <1>3 DEF Job, RemoveJob
<1> HIDE DEF j
<1>5. (gambled => gambled') /\ ~(NoneWhole /\ ~gambled')
  BY <1>1
<1>6. install' \in Directory /\ gambled' \in BOOLEAN
  BY <1>1 DEF TypeInv, NoneWhole
<1> QED BY <1>1, <1>2, <1>4, <1>5, <1>6, CommandMoves, ReaderMoves, SamePointsGrow
        DEF UpdateInv

LEMMA RemoveEntryStep ==
  ASSUME UpdateInv, NEW c \in Commands, NEW entry \in Entries, RemoveEntry(c, entry)
  PROVE  UpdateInv' /\ Grows
<1>1. /\ install' = Without(install, entry) /\ points' = points /\ clock' = clock
      /\ gambled' = gambled
      /\ op[c].step = "remove" /\ TypeInv /\ PointInv /\ WholeInv
  BY DEF RemoveEntry, UpdateInv
<1>2. \A d \in Commands : op'[d] =
         IF op[d].step \in {"write", "manifest"} /\ op[d].open = entry
         THEN [op[d] EXCEPT !.todo = @ \ {entry}, !.open = "none"] ELSE op[d]
  BY DEF RemoveEntry
<1>3. ASSUME NEW d \in Commands
      PROVE  /\ op'[d] \in Job /\ op'[d].step = op[d].step
             /\ op[d].step \notin {"write", "manifest"} => op'[d] = op[d]
  <2>1. CASE op[d].step \in {"write", "manifest"} /\ op[d].open = entry
    <3>1. op[d] \in WriteJob
      BY <1>1, <2>1, JobIsKnown
    <3> DEFINE j == [op[d] EXCEPT !.todo = @ \ {entry}, !.open = "none"]
    <3>2. j \in WriteJob /\ j.step = op[d].step
      BY <3>1 DEF WriteJob
    <3>3. op'[d] = j
      BY <1>2, <2>1
    <3> HIDE DEF j
    <3> QED BY <2>1, <3>2, <3>3 DEF Job
  <2>2. CASE ~(op[d].step \in {"write", "manifest"} /\ op[d].open = entry)
    BY <1>1, <1>2, <2>2 DEF TypeInv
  <2> QED BY <2>1, <2>2
<1>4. op' \in [Commands -> Job]
  <2>1. op' = [d \in Commands |-> op'[d]]
    BY DEF RemoveEntry
  <2> QED BY <1>3, <2>1
<1>5. install' \in Directory /\ gambled' \in BOOLEAN
  BY <1>1, WithoutIsDirectory DEF TypeInv
<1>6. TypeInv'
  BY <1>1, <1>3, <1>4, <1>5 DEF TypeInv
<1>7. PointInv'
  BY <1>1, <1>3 DEF PointInv
<1>8. WholeInv'
  BY <1>1, WriterMoves
<1> QED BY <1>1, <1>6, <1>7, <1>8, SamePointsGrow DEF UpdateInv

LEMMA BeginCopyBackStep ==
  ASSUME UpdateInv, NEW c \in Commands, BeginCopyBack(c)
  PROVE  UpdateInv' /\ Grows
<1> DEFINE j == [step |-> "copy", point |-> op[c].point,
                 todo |-> DOMAIN points[op[c].point]]
<1>1. /\ install' = install /\ points' = points /\ clock' = clock
      /\ gambled' = gambled
      /\ op' = [op EXCEPT ![c] = j] /\ op[c].step = "remove"
      /\ TypeInv /\ PointInv /\ WholeInv
  BY DEF BeginCopyBack, UpdateInv
<1>2. op[c].point \in DOMAIN points /\ op[c] \in RemoveJob
  BY <1>1, JobIsKnown DEF TypeInv
<1>3. DOMAIN points[op[c].point] \subseteq Entries
  BY <1>1, <1>2, InDirectory DEF TypeInv
<1>4. /\ j \in Job /\ j.step = "copy" /\ j.point = op[c].point
      /\ j.todo = DOMAIN points[op[c].point]
  BY <1>2, <1>3 DEF Job, CopyJob, RemoveJob
<1> HIDE DEF j
<1>5. install' \in Directory /\ gambled' \in BOOLEAN
  BY <1>1 DEF TypeInv
<1>6. WholeInv'
  BY <1>1, WriterMoves
<1> QED BY <1>1, <1>2, <1>4, <1>5, <1>6, CommandMoves, SamePointsGrow DEF UpdateInv

LEMMA CopyBackStep ==
  ASSUME UpdateInv, NEW c \in Commands, NEW entry \in Entries, CopyBack(c, entry)
  PROVE  UpdateInv' /\ Grows
<1> DEFINE j == [op[c] EXCEPT !.todo = @ \ {entry}]
           p == op[c].point
<1>1. /\ install' = With(install, entry, points[p][entry]) /\ gambled' = gambled
      /\ points' = points /\ clock' = clock /\ op[c].step = "copy" /\ entry \in op[c].todo
      /\ TypeInv /\ PointInv /\ WholeInv
  BY DEF CopyBack, UpdateInv
<1>2. op' = [op EXCEPT ![c] = j]
  BY DEF CopyBack
<1>3. op[c] \in CopyJob /\ p \in DOMAIN points /\ op[c].todo \subseteq DOMAIN points[p]
  BY <1>1, JobIsKnown DEF TypeInv, PointInv
<1>4. j \in Job /\ j.step = "copy" /\ j.point = p /\ j.todo = op[c].todo \ {entry}
  BY <1>3 DEF Job, CopyJob
<1> HIDE DEF j, p
<1>5. install' \in Directory /\ gambled' \in BOOLEAN
  <2>1. points[p] \in Directory
    BY <1>1, <1>3 DEF TypeInv
  <2>2. points[p][entry] \in Content
    BY <1>1, <1>3, <2>1, InDirectory
  <2> QED BY <1>1, <2>2, WithIsDirectory DEF TypeInv
<1>6. WholeInv'
  BY <1>1, WriterMoves
<1>7. j.todo \subseteq DOMAIN points[j.point] /\ j.point \in DOMAIN points
  BY <1>3, <1>4
<1> QED BY <1>1, <1>2, <1>4, <1>5, <1>6, <1>7, CommandMoves, SamePointsGrow DEF UpdateInv

LEMMA RollbackReturnsStep ==
  ASSUME UpdateInv, NEW c \in Commands, RollbackReturns(c)
  PROVE  UpdateInv' /\ Grows
BY WriterEnds DEF RollbackReturns

-----------------------------------------------------------------------------
(* The theorems.                                                             *)

LEMMA UpdateInvStarts ==
  ASSUME UpdateInit
  PROVE  UpdateInv
<1>1. install \in Directory
  <2>1. install \in [Entries -> Content]
    BY UpdateAssumption DEF UpdateInit, Content, Version
  <2> QED BY <2>1, DirectoryIs
<1>2. Idle \in Job /\ \A c \in Commands : op[c].step = "idle"
  BY DEF UpdateInit, Idle, Job, IdleJob
<1>3. points = <<>> /\ DOMAIN points = {} /\ points \in [DOMAIN points -> Directory]
  BY DEF UpdateInit
<1>4. TypeInv
  <2>1. gambled \in BOOLEAN
    BY DEF UpdateInit
  <2>2. op \in [Commands -> Job] /\ clock \in 0 .. MaxStamp
    BY <1>2, UpdateAssumption DEF UpdateInit
  <2> QED BY <1>1, <1>2, <1>3, <2>1, <2>2 DEF TypeInv
<1>5. PointInv
  BY <1>2 DEF PointInv
<1>6. IsWhole(install)
  BY UpdateAssumption DEF UpdateInit, IsWhole, IsAt, Entries, Version
<1>7. Untouched
  BY <1>2, <1>6 DEF Untouched, UpdateInit
<1> QED BY <1>4, <1>5, <1>7 DEF UpdateInv, WholeInv

LEMMA UpdateInvStays ==
  ASSUME UpdateInv, [UpdateNext]_updateVars
  PROVE  UpdateInv' /\ Grows
<1>1. CASE UNCHANGED updateVars
  <2>1. install' = install /\ points' = points /\ clock' = clock /\ op' = op
        /\ gambled' = gambled
    BY <1>1 DEF updateVars
  <2> QED BY <2>1, SamePointsGrow
          DEF UpdateInv, TypeInv, PointInv, WholeInv, NoneWhole, Untouched
<1>2. CASE UpdateNext
  BY <1>2, SecondPassesStep, StopsStep, ResolveUpdateStep, SkipSnapshotStep,
     SnapshotOfNothingStep, BeginSnapshotStep, SnapshotEntryStep, SnapshotEndsStep,
     VerifyDeltaStep, WriteOpensStep, WriteFillsStep, RecordVersionStep,
     ApplyReturnsStep, BeginRollbackStep, RemoveEntryStep, BeginCopyBackStep, CopyBackStep,
     RollbackReturnsStep DEF UpdateNext
<1> QED BY <1>1, <1>2

\* The inductive invariant holds in every reachable state.
THEOREM UpdateInvariant == UpdateSpec => []UpdateInv
BY UpdateInvStarts, UpdateInvStays, PTL DEF UpdateSpec

\* Whatever commands run at once and wherever they stop, directories hold known
\* entries and every command that copies has its restore point.
THEOREM UpdateTypeCorrect == UpdateSpec => []UpdateTypeOK
<1>1. UpdateInv => UpdateTypeOK
  <2> SUFFICES ASSUME UpdateInv PROVE UpdateTypeOK
    OBVIOUS
  <2>1. TypeInv
    BY DEF UpdateInv
  <2>2. \A c \in Commands : op[c].step \in {"idle", "resolved", "snapshot", "verify",
                                            "write", "manifest", "remove", "copy"}
    BY <2>1 DEF TypeInv, Job, IdleJob, ResolvedJob, SnapshotJob, VerifyJob, WriteJob,
           RemoveJob, CopyJob
  <2> QED BY <2>1, <2>2 DEF UpdateTypeOK, TypeInv
<1> QED BY <1>1, UpdateInvariant, PTL

\* Commands interleave, fail and die anywhere, and a whole version of the package
\* is there at every moment, installed or in a restore point, as long as nobody
\* gambled: _restore_point is the fail-safe it is meant to be.
THEOREM PackageNeverStranded == UpdateSpec => []NeverStranded
<1>1. UpdateInv => NeverStranded
  BY DEF UpdateInv, WholeInv, NoneWhole, Untouched, NeverStranded
<1> QED BY <1>1, UpdateInvariant, PTL

\* Two directories with the same entries and contents are the same.
LEMMA SameDirectory ==
  ASSUME NEW d \in Directory, NEW e \in Directory, DOMAIN d = DOMAIN e,
         \A x \in DOMAIN d : e[x] = d[x]
  PROVE  e = d
<1>1. d = [x \in DOMAIN d |-> d[x]] /\ e = [x \in DOMAIN e |-> e[x]]
  BY InDirectory
<1> QED BY <1>1

\* A complete restore point is never written to again, although copytree goes on
\* after failures and the same second may stamp two of them.
THEOREM WholePointsAreKept == UpdateSpec => WholePointsStay
<1>1. ASSUME UpdateInv, UpdateInv', [UpdateNext]_updateVars,
             NEW s \in DOMAIN points, DOMAIN points[s] = Entries
      PROVE  s \in DOMAIN points' /\ points'[s] = points[s]
  <2>1. Grows
    BY <1>1, UpdateInvStays
  <2>2. /\ s \in DOMAIN points' /\ Entries \subseteq DOMAIN points'[s]
        /\ \A e \in DOMAIN points[s] : points'[s][e] = points[s][e]
    BY <1>1, <2>1 DEF Grows
  <2>3. points[s] \in Directory /\ points'[s] \in Directory
    BY <1>1, <2>2 DEF UpdateInv, TypeInv
  <2>4. DOMAIN points'[s] \subseteq Entries
    BY <2>3, InDirectory
  <2>5. DOMAIN points'[s] = DOMAIN points[s]
    BY <1>1, <2>2, <2>4
  <2> QED BY <2>2, <2>3, <2>5, SameDirectory
<1>2. UpdateInv /\ UpdateInv' /\ [UpdateNext]_updateVars
        => [\A s \in DOMAIN points :
              \/ s \in DOMAIN points' /\ points'[s] = points[s]
              \/ ~(IsWhole(points[s]) /\ DOMAIN points[s] = Entries)]_updateVars
  BY <1>1
<1> QED BY <1>2, UpdateInvariant, PTL DEF UpdateSpec, WholePointsStay

-----------------------------------------------------------------------------
(* One command at a time.                                                    *)

\* What the command at work has done so far: the files it has written are of
\* its version, or the entries it has copied back are the restore point's.
DoneSoFar(c) ==
  /\ op[c].step \in {"write", "manifest"} =>
       \A f \in Files \ op[c].todo : f \in DOMAIN install /\ install[f] = op[c].to
  /\ op[c].step = "manifest" => op[c].todo \cap Files = {}
  /\ op[c].step = "copy" =>
       /\ DOMAIN install = DOMAIN points[op[c].point] \ op[c].todo
       /\ \A e \in DOMAIN install : install[e] = points[op[c].point][e]

\* apply_update records a version, and returns, with every file of it in place;
\* rollback returns with the restore point in place, entry for entry.
Delivers(c) ==
  [][ /\ RecordVersion(c) \/ ApplyReturns(c) =>
           \A f \in Files : f \in DOMAIN install /\ install[f] = op[c].to
      /\ RollbackReturns(c) => install = points[op[c].point] ]_updateVars

LEMMA DoneSoFarStays ==
  ASSUME NEW c, Commands = {c}, UpdateInv, DoneSoFar(c), [UpdateNext]_updateVars
  PROVE  DoneSoFar(c)'
<1>0. c \in Commands /\ TypeInv /\ op \in [Commands -> Job]
  BY DEF UpdateInv, TypeInv
\* A step after which the command is at none of the steps that count.
<1>1. ASSUME op'[c].step \in {"idle", "resolved", "snapshot", "verify", "remove"}
      PROVE  DoneSoFar(c)'
  BY <1>1 DEF DoneSoFar
<1>2. CASE SecondPasses \/ UNCHANGED updateVars
  <2>1. install' = install /\ points' = points /\ op' = op
    BY <1>2 DEF SecondPasses, updateVars
  <2> QED BY <2>1 DEF DoneSoFar
<1>3. CASE Stops(c)
  <2>1. op'[c] = Idle
    BY <1>0, <1>3 DEF Stops
  <2> QED BY <1>1, <2>1 DEF Idle
<1>4. ASSUME NEW to \in Version, ResolveUpdate(c, to)
      PROVE  DoneSoFar(c)'
  <2>1. op'[c] = [step |-> "resolved", to |-> to]
    BY <1>0, <1>4 DEF ResolveUpdate
  <2> QED BY <1>1, <2>1
<1>5. CASE BeginSnapshot(c)
  <2>1. op'[c] = Snapshotting(c)
    BY <1>0, <1>5 DEF BeginSnapshot
  <2> QED BY <1>1, <2>1 DEF Snapshotting
<1>6. ASSUME NEW entry \in Entries, SnapshotEntry(c, entry)
      PROVE  DoneSoFar(c)'
  <2>1. op[c] \in SnapshotJob /\ op[c].step = "snapshot"
    BY <1>0, <1>6, JobIsKnown DEF SnapshotEntry
  <2>2. op'[c] = [op[c] EXCEPT !.todo = @ \ {entry}]
    BY <1>0, <1>6 DEF SnapshotEntry
  <2>3. op'[c].step = "snapshot"
    BY <2>1, <2>2 DEF SnapshotJob
  <2> QED BY <1>1, <2>3
<1>7. ASSUME NEW trusted \in BOOLEAN, VerifyDelta(c, trusted)
      PROVE  DoneSoFar(c)'
  <2>1. op'[c] = Writing("write", op[c].to, Files) \/ op'[c] = Idle
    BY <1>0, <1>7 DEF VerifyDelta
  <2>2. CASE op'[c] = Writing("write", op[c].to, Files)
    BY <2>2 DEF DoneSoFar, Writing
  <2>3. CASE op'[c] = Idle
    BY <1>1, <2>3 DEF Idle
  <2> QED BY <2>1, <2>2, <2>3
<1>8. ASSUME NEW entry \in Entries, WriteOpens(c, entry)
      PROVE  DoneSoFar(c)'
  <2>1. /\ op[c] \in WriteJob /\ op[c].step \in {"write", "manifest"}
        /\ entry \in op[c].todo /\ install' = With(install, entry, Torn)
    BY <1>0, <1>8, JobIsKnown DEF WriteOpens
  <2>2. op'[c] = [op[c] EXCEPT !.open = entry]
    BY <1>0, <1>8 DEF WriteOpens
  <2>3. op'[c].step = op[c].step /\ op'[c].todo = op[c].todo /\ op'[c].to = op[c].to
    BY <2>1, <2>2 DEF WriteJob
  <2>4. \A f \in Files \ op[c].todo : f \in DOMAIN install' /\ install'[f] = install[f]
    BY <2>1 DEF With, DoneSoFar
  <2> QED BY <2>1, <2>3, <2>4 DEF DoneSoFar
<1>9. CASE WriteFills(c)
  <2> DEFINE open == op[c].open
  <2>1. /\ op[c] \in WriteJob /\ op[c].step \in {"write", "manifest"}
        /\ install' = With(install, open, op[c].to)
    BY <1>0, <1>9, JobIsKnown DEF WriteFills
  <2>2. op'[c] = [op[c] EXCEPT !.todo = @ \ {op[c].open}, !.open = "none"]
    BY <1>0, <1>9 DEF WriteFills
  <2>3. /\ op'[c].step = op[c].step /\ op'[c].todo = op[c].todo \ {open}
        /\ op'[c].to = op[c].to
    BY <2>1, <2>2 DEF WriteJob
  <2>4. \A f \in Files \ op'[c].todo : f \in DOMAIN install' /\ install'[f] = op[c].to
    BY <2>1, <2>3 DEF With, DoneSoFar
  <2> QED BY <2>1, <2>3, <2>4 DEF DoneSoFar
<1>10. CASE RecordVersion(c)
  <2>1. op[c].step = "write" /\ op[c].todo = {} /\ install' = install
    BY <1>10 DEF RecordVersion
  <2>2. op'[c] = Writing("manifest", op[c].to, {"manifest"}) \/ op'[c] = Idle
    BY <1>0, <1>10 DEF RecordVersion
  <2>3. CASE op'[c] = Writing("manifest", op[c].to, {"manifest"})
    BY <2>1, <2>3, UpdateAssumption DEF DoneSoFar, Writing
  <2>4. CASE op'[c] = Idle
    BY <1>1, <2>4 DEF Idle
  <2> QED BY <2>2, <2>3, <2>4
<1>11. CASE ApplyReturns(c) \/ RollbackReturns(c)
  <2>1. op'[c] = Idle
    BY <1>0, <1>11 DEF ApplyReturns, RollbackReturns
  <2> QED BY <1>1, <2>1 DEF Idle
<1>12. CASE BeginRollback(c)
  <2>1. op'[c] = [step |-> "remove", point |-> Newest]
    BY <1>0, <1>12 DEF BeginRollback
  <2> QED BY <1>1, <2>1
<1>13. ASSUME NEW entry \in Entries, RemoveEntry(c, entry)
       PROVE  DoneSoFar(c)'
  <2>1. op[c].step = "remove" /\ op'[c] = op[c]
    BY <1>0, <1>13 DEF RemoveEntry
  <2> QED BY <1>1, <2>1
<1>14. CASE BeginCopyBack(c)
  <2>1. install = <<>> /\ install' = install /\ points' = points
    BY <1>14 DEF BeginCopyBack
  <2>2. op'[c] = [step |-> "copy", point |-> op[c].point,
                  todo |-> DOMAIN points[op[c].point]]
    BY <1>0, <1>14 DEF BeginCopyBack
  <2>3. DOMAIN install' = {}
    BY <2>1
  <2> QED BY <2>1, <2>2, <2>3 DEF DoneSoFar
<1>15. ASSUME NEW entry \in Entries, CopyBack(c, entry)
       PROVE  DoneSoFar(c)'
  <2> DEFINE dir == points[op[c].point]
  <2>1. /\ op[c] \in CopyJob /\ op[c].step = "copy" /\ entry \in op[c].todo
        /\ op[c].todo \subseteq DOMAIN dir /\ points' = points
        /\ install' = With(install, entry, dir[entry])
    BY <1>0, <1>15, JobIsKnown DEF CopyBack, UpdateInv, PointInv
  <2>2. op'[c] = [op[c] EXCEPT !.todo = @ \ {entry}]
    BY <1>0, <1>15 DEF CopyBack
  <2>3. /\ op'[c].step = "copy" /\ op'[c].point = op[c].point
        /\ op'[c].todo = op[c].todo \ {entry}
    BY <2>1, <2>2 DEF CopyJob
  <2>4. /\ DOMAIN install' = DOMAIN dir \ op'[c].todo
        /\ \A e \in DOMAIN install' : install'[e] = dir[e]
    <3>1. /\ DOMAIN install = DOMAIN dir \ op[c].todo
          /\ \A e \in DOMAIN install : install[e] = dir[e]
      BY <2>1 DEF DoneSoFar
    <3>2. /\ DOMAIN install' = DOMAIN install \cup {entry}
          /\ \A e \in DOMAIN install' : install'[e] = IF e = entry THEN dir[e] ELSE install[e]
      BY <2>1 DEF With
    <3> HIDE DEF dir
    <3> QED BY <2>1, <2>3, <3>1, <3>2
  <2> QED BY <2>1, <2>3, <2>4 DEF DoneSoFar
<1>16. CASE SkipSnapshot(c) \/ SnapshotOfNothing(c) \/ SnapshotEnds(c)
  <2>1. \E bare \in BOOLEAN : op'[c] = Verifying(c, bare)
    BY <1>0, <1>16 DEF SkipSnapshot, SnapshotOfNothing, SnapshotEnds
  <2> QED BY <1>1, <2>1 DEF Verifying
<1> QED BY <1>2, <1>3, <1>4, <1>5, <1>6, <1>7, <1>8, <1>9, <1>10, <1>11, <1>12, <1>13,
           <1>14, <1>15, <1>16 DEF UpdateNext

\* When nobody interferes, an update that is recorded is
\* complete and a rollback that returns has restored its point exactly.
THEOREM LoneCommandDelivers ==
  ASSUME NEW c, Commands = {c}
  PROVE  UpdateSpec => Delivers(c)
<1>1. UpdateInit => DoneSoFar(c)
  BY DEF UpdateInit, DoneSoFar, Idle
<1>2. UpdateInv /\ DoneSoFar(c) /\ [UpdateNext]_updateVars => DoneSoFar(c)'
  BY DoneSoFarStays
<1>3. ASSUME UpdateInv, DoneSoFar(c), RecordVersion(c) \/ ApplyReturns(c)
      PROVE  \A f \in Files : f \in DOMAIN install /\ install[f] = op[c].to
  BY <1>3 DEF RecordVersion, ApplyReturns, DoneSoFar
<1>4. ASSUME UpdateInv, DoneSoFar(c), RollbackReturns(c)
      PROVE  install = points[op[c].point]
  <2>1. op[c].step = "copy" /\ op[c].todo = {}
    BY <1>4 DEF RollbackReturns
  <2>2. install \in Directory /\ points[op[c].point] \in Directory
    BY <1>4, <2>1 DEF UpdateInv, TypeInv
  <2>3. /\ DOMAIN install = DOMAIN points[op[c].point]
        /\ \A e \in DOMAIN install : install[e] = points[op[c].point][e]
    BY <1>4, <2>1 DEF DoneSoFar
  <2> QED BY <2>2, <2>3, SameDirectory
<1>5. UpdateInv /\ DoneSoFar(c) =>
        [ /\ RecordVersion(c) \/ ApplyReturns(c) =>
               \A f \in Files : f \in DOMAIN install /\ install[f] = op[c].to
          /\ RollbackReturns(c) => install = points[op[c].point] ]_updateVars
  BY <1>3, <1>4
<1> QED BY <1>1, <1>2, <1>5, UpdateInvariant, PTL DEF UpdateSpec, Delivers
=============================================================================
