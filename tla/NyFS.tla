-------------------------------- MODULE NyFS --------------------------------
(***************************************************************************)
(* The durability protocol of NyFS, nyhal-linux-backend/fuse/nyfs.py: the  *)
(* journal-mode save with its metadata swap, journal compaction, garbage   *)
(* collection of block files, load, and what a power failure or an I/O     *)
(* error may do between any two of their steps.                            *)
(*                                                                         *)
(* Every operation holds the file system's lock from its first line to its *)
(* last, so operations do not overlap and a failure is the only thing that *)
(* can come between the steps of one: pc says where the operation under    *)
(* way stands.  A block is immutable and stands for its id; what matters   *)
(* of the tree and of a snapshot is the set of blocks they reference.      *)
(*                                                                         *)
(* The disk is what the program sees of it, journal, bins and meta,        *)
(* together with what a power failure may make of it: `journals` and       *)
(* `metas` are the contents the two files may be found with, and `loose`   *)
(* the block files whose directory entry, or its removal, is not yet       *)
(* durable.  fsync settles a file, and _fsync_dir a directory.             *)
(*                                                                         *)
(* Four sequences of legal calls defeat the protocol.  A save appends      *)
(* behind a torn record, a compaction or collection runs between a change  *)
(* and its save, and content is written whose block gc has reclaimed: each *)
(* of these gives blocks up.  A read cuts a file anew after the last save. *)
(* Two history variables record them, `doomed` and `recut`, so that the    *)
(* properties can say of every behaviour what may be lost and what is not; *)
(* no guard reads them.                                                    *)
(***************************************************************************)
CONSTANTS
  Block,      \* bound: the block ids in existence at one time
  Snapshot,   \* bound: the snapshot ids in use
  None        \* a file that does not exist, an index not yet scanned

SnapTable == UNION { [taken -> SUBSET Block] : taken \in SUBSET Snapshot }
Image     == [tree : SUBSET Block, snaps : SnapTable]
Journal   == [ids : SUBSET Block, torn : BOOLEAN]

ASSUME NyFSAssumption ==
  /\ \A scanned \in SUBSET Block : scanned # None
  /\ \A image \in Image : image # None

VARIABLES
  tree,      \* blocks of self.inodes
  snaps,     \* self.snapshots
  dirty,     \* self._dirty
  cache,     \* blocks of self._block_dedup
  ids,       \* self._journal_ids
  index,     \* the ids in self._journal_index, or None
  journal,   \* journal.bin: the ids _scan_journal finds, and is its tail torn?
  journals,  \* what a power failure may make of journal.bin
  bins,      \* the ids that have a .bin file
  loose,     \* the ids whose .bin may or may not be there after a power failure
  meta,      \* metadata.json
  metas,     \* what a power failure may make of metadata.json
  pc,        \* where the operation under way stands; "idle", or "down"
  saving,    \* is that operation a save?
  recut,     \* history: has a read cut the tree anew since it was clean?
  doomed     \* history: referenced blocks that are given up, see GiveUp

memory == <<tree, snaps, dirty, cache>>
history == <<recut, doomed>>
books  == <<ids, index>>
disk   == <<journal, journals, bins, loose, meta, metas>>
vars   == <<tree, snaps, dirty, cache, ids, index, journal, journals, bins,
            loose, meta, metas, pc, saving, recut, doomed>>

NoSnaps      == [s \in {} |-> {}]
Empty        == [tree |-> {}, snaps |-> NoSnaps]
EmptyJournal == [ids |-> {}, torn |-> FALSE]

Mem      == [tree |-> tree, snaps |-> snaps]
Refs(m)  == m.tree \cup UNION { m.snaps[s] : s \in DOMAIN m.snaps }
Live     == Refs(Mem)
MetaRefs == UNION { Refs(m) : m \in metas \ {None} }

\* `more` is given up: it counts while memory or a metadata references it.
GiveUp(more) == doomed' = (doomed \cup more) \cap (Live' \cup MetaRefs')

----------------------------------------------------------------------------
(* Changes of the tree and of the snapshot table, each under the lock.      *)

\* An id that has left memory and disk for good may stand for a new one.
Known ==
  Live \cup cache \cup ids \cup bins \cup loose \cup journal.ids
    \cup (UNION { j.ids : j \in journals })
    \cup MetaRefs

Change(newTree, newSnaps) ==
  /\ pc = "idle"
  /\ tree' = newTree
  /\ snaps' = newSnaps
  /\ dirty' = TRUE
  /\ recut' = FALSE
  /\ UNCHANGED <<books, disk, pc, saving>>

\* A block made of new content enters the dedup cache.  Those of write_block and
\* of an encrypted file system do not: they are blocks that Rewrite never picks.
Cached(b) == cache' = cache \cup {b}

\* write, truncate: new blocks replace some, or none, of the old ones.
Write ==
  \E b \in Block \ Known, replaced \in SUBSET tree :
    /\ Change((tree \ replaced) \cup {b}, snaps)
    /\ Cached(b)
    /\ GiveUp({})

\* Ids that are listed as saved, whose payload a restart may not find.
Reclaimed == { b \in ids : \E j \in journals : b \notin bins \cup j.ids }

\* read of a file whose blocks differ in length, one that truncate or
\* write_block has touched: it is cut into blocks anew, and dirty stays.
Read ==
  /\ pc = "idle"
  /\ recut' = ~ dirty
  /\ UNCHANGED <<snaps, dirty, books, disk, pc, saving>>
  /\ \E b \in cache \cup (Block \ Known), replaced \in SUBSET tree \ {{}} :
       /\ tree' = (tree \ replaced) \cup {b}
       /\ Cached(b)
       /\ GiveUp({b} \cap Reclaimed)

\* write of content that the dedup cache knows: the old id is used again.
Rewrite ==
  \E b \in cache, replaced \in SUBSET tree :
    /\ Change((tree \ replaced) \cup {b}, snaps)
    /\ GiveUp({b} \cap Reclaimed)
    /\ UNCHANGED cache

\* unlink, a truncate to nothing, or a change that touches no block.
Unlink ==
  \E gone \in SUBSET tree : Change(tree \ gone, snaps) /\ UNCHANGED cache /\ GiveUp({})

CreateSnapshot ==
  \E s \in Snapshot :
    /\ Change(tree, [t \in DOMAIN snaps \cup {s} |->
                       IF t = s THEN tree ELSE snaps[t]])
    /\ UNCHANGED cache
    /\ GiveUp({})

RestoreSnapshot ==
  \E s \in DOMAIN snaps : Change(snaps[s], snaps) /\ UNCHANGED cache /\ GiveUp({})

DeleteSnapshot ==
  \E s \in DOMAIN snaps :
    /\ Change(tree, [t \in DOMAIN snaps \ {s} |-> snaps[t]])
    /\ UNCHANGED cache
    /\ GiveUp({})

----------------------------------------------------------------------------
(* save, in its default journal mode.                                       *)

Scan == IF index = None THEN journal.ids ELSE index

\* _journal_ids as _journal_append_new finds it: seeded from a scan if empty.
Seeded == IF ids = {} THEN Scan ELSE ids

NewRecords == Live \ (Seeded \cup bins)

\* journal.bin with `records` appended, the last of them perhaps cut short;
\* no scan gets past a torn record.
Appended(records, cut) ==
  [ids  |-> IF journal.torn THEN journal.ids ELSE journal.ids \cup records,
   torn |-> journal.torn \/ cut]

\* What an append of NewRecords that stops anywhere leaves behind.
PartlyAppended ==
  { Appended(r, cut) : r \in SUBSET NewRecords \ {NewRecords}, cut \in BOOLEAN }

SaveStarts(next, written) ==
  /\ pc = "idle"
  /\ ids' = Seeded \cup (Live \cap bins)
  /\ index' = IF ids = {} THEN Scan ELSE index
  /\ journal' = written
  /\ pc' = next
  /\ saving' = (next # "idle")
  /\ UNCHANGED <<memory, bins, loose, meta, metas, recut>>

\* Records behind a torn one are never found: their blocks are given up.
SaveAppends ==
  /\ NewRecords # {}
  /\ SaveStarts("appended", Appended(NewRecords, FALSE))
  /\ doomed' = IF journal.torn THEN doomed \cup NewRecords ELSE doomed
  /\ journals' = journals \cup PartlyAppended \cup {journal'}

\* Every referenced block is saved already: no write, and no fsync.
SaveAppendsNothing ==
  NewRecords = {} /\ SaveStarts("synced", journal) /\ UNCHANGED <<journals, doomed>>

\* The write raises after a part of the records, and save with it.
SaveAppendFails ==
  /\ NewRecords # {}
  /\ \E part \in PartlyAppended : SaveStarts("idle", part)
  /\ journals' = journals \cup PartlyAppended
  /\ UNCHANGED doomed

\* Mutant of SaveSyncs: the ids are listed before the records are durable.
SaveListsFirst ==
  /\ pc = "appended"
  /\ ids' = ids \cup Live
  /\ index' = None
  /\ pc' = "synced"
  /\ UNCHANGED <<memory, disk, saving, history>>

SaveSyncs ==
  /\ pc = "appended"
  /\ journals' = {journal}
  /\ ids' = ids \cup Live
  /\ index' = None
  /\ pc' = "synced"
  /\ UNCHANGED <<memory, journal, bins, loose, meta, metas, saving, history>>

\* The block directory is synced, then the new metadata renamed into place.
SwapIn(image) ==
  /\ pc = "synced"
  /\ loose' = {}
  /\ meta' = image
  /\ metas' = metas \cup {image}
  /\ pc' = "swapped"
  /\ UNCHANGED <<memory, books, journal, journals, bins, saving, history>>

\* Mutant of SaveSwaps: the snapshot table is not serialized.
SaveSwapsTree == SwapIn([Mem EXCEPT !.snaps = NoSnaps])

SaveSwaps == SwapIn(Mem)

\* A journal over its threshold is compacted before save returns.
Returns ==
  \/ /\ pc' = "idle"
     /\ dirty' = FALSE
     /\ recut' = FALSE
     /\ saving' = FALSE
  \/ /\ Scan # {}
     /\ pc' = "compacting"
     /\ UNCHANGED <<dirty, recut, saving>>

\* Mutant of SaveCommits: the state directory is not synced.
SaveCommitsUnsynced ==
  pc = "swapped" /\ Returns /\ UNCHANGED <<tree, snaps, cache, books, disk, doomed>>

\* The state directory is synced: the commit point.
SaveCommits ==
  /\ pc = "swapped"
  /\ metas' = {meta}
  /\ Returns
  /\ UNCHANGED <<tree, snaps, cache, books, journal, journals, bins, loose, meta>>
  /\ GiveUp({})

\* fsync, or the write of the temporary metadata, raises out of save; or the
\* truncation of the journal out of its compaction.
StepFails ==
  /\ pc \in {"appended", "synced", "moved"}
  /\ pc' = "idle"
  /\ saving' = FALSE
  /\ UNCHANGED <<memory, books, disk, history>>

----------------------------------------------------------------------------
(* _materialize_journal, from save, or from the idle watcher by way of      *)
(* compact_journal and maybe_compact.                                       *)

\* What the metadata on disk references and memory has dropped: no compaction
\* or collection spares it.
Dropped == MetaRefs \ Live

\* Mutant of Moved: blocks that only a snapshot references are garbage.
MovedOfTree == (tree \cap Scan) \ bins

Moved == (Live \cap Scan) \ bins

\* The block files of `done` are written, synced and renamed into place.
Materialize(done, next) ==
  /\ pc = "compacting" \/ (pc = "idle" /\ Scan # {})
  /\ bins' = bins \cup done
  /\ loose' = loose \cup done
  /\ index' = Scan
  /\ pc' = next
  /\ saving' = (saving /\ next # "idle")
  /\ UNCHANGED <<memory, ids, journal, journals, meta, metas, history>>

MaterializeAll   == Materialize(Moved, "moved")
MaterializeFails == \E done \in SUBSET Moved : Materialize(done, "idle")

\* The block directory is synced, then the journal emptied, without a sync.
Truncated(scanned) ==
  /\ pc = "moved"
  /\ loose' = {}
  /\ journal' = EmptyJournal
  /\ journals' = journals \cup {EmptyJournal}
  /\ ids' = {}
  /\ index' = scanned
  /\ pc' = "idle"
  /\ dirty' = (dirty /\ ~ saving)
  /\ recut' = (recut /\ ~ saving)
  /\ saving' = FALSE
  /\ doomed' = (doomed \cup Dropped) \ bins
  /\ UNCHANGED <<tree, snaps, cache, bins, meta, metas>>

\* Mutant of Truncate: the scan cache outlives the journal it describes.
TruncateKeepingIndex == Truncated(index)

Truncate == Truncated(None)

\* gc_blocks: any of the unreferenced block files may be past the grace age.
GcBlocks ==
  /\ pc = "idle"
  /\ \E old \in SUBSET (bins \ Live) \ {{}} :
       /\ bins' = bins \ old
       /\ loose' = loose \cup old
       /\ doomed' = doomed \cup (old \cap Dropped)
  /\ UNCHANGED <<memory, books, journal, journals, meta, metas, pc, saving, recut>>

----------------------------------------------------------------------------
(* Power failure and restart.                                               *)

Forgotten ==
  /\ tree' = {}
  /\ snaps' = NoSnaps
  /\ cache' = {}
  /\ ids' = {}
  /\ index' = None

PowerFails ==
  /\ pc # "down"
  /\ \E j \in journals : journal' = j /\ journals' = {j}
  /\ \E m \in metas : meta' = m /\ metas' = {m}
  /\ \E found \in SUBSET loose : bins' = (bins \ loose) \cup found
  /\ loose' = {}
  /\ dirty' = FALSE
  /\ pc' = "down"
  /\ saving' = FALSE
  /\ recut' = FALSE
  /\ Forgotten
  /\ GiveUp({})

Found == Refs(meta) \subseteq bins \cup journal.ids

\* load fills the dedup cache with one block for each content of the tree.  All
\* that is referenced is there: nothing is given up any more.
Load ==
  /\ pc = "down"
  /\ meta # None
  /\ Found
  /\ tree' = meta.tree
  /\ snaps' = meta.snaps
  /\ cache' = meta.tree
  /\ ids' = journal.ids
  /\ index' = journal.ids
  /\ pc' = "idle"
  /\ doomed' = {}
  /\ UNCHANGED <<dirty, disk, saving, recut>>

\* It raises when a referenced block is in neither place.
LoadRefuses ==
  /\ pc = "down"
  /\ meta # None
  /\ ~ Found
  /\ UNCHANGED vars

\* The constructor, on a directory that was never saved to.
Format ==
  /\ pc = "down"
  /\ meta = None
  /\ pc' = "idle"
  /\ doomed' = {}
  /\ UNCHANGED <<memory, books, disk, saving, recut>>

----------------------------------------------------------------------------
Init ==
  /\ tree = {} /\ snaps = NoSnaps /\ cache = {} /\ dirty = FALSE
  /\ ids = {} /\ index = None
  /\ journal = EmptyJournal /\ journals = {EmptyJournal}
  /\ bins = {} /\ loose = {}
  /\ meta = None /\ metas = {None}
  /\ pc = "idle" /\ saving = FALSE
  /\ recut = FALSE /\ doomed = {}

Next ==
  \/ Write \/ Read \/ Rewrite \/ Unlink
  \/ CreateSnapshot \/ RestoreSnapshot \/ DeleteSnapshot
  \/ SaveAppends \/ SaveAppendsNothing \/ SaveAppendFails
  \/ SaveSyncs \/ SaveSwaps \/ SaveCommits \/ StepFails
  \/ MaterializeAll \/ MaterializeFails \/ Truncate
  \/ GcBlocks
  \/ PowerFails \/ Load \/ LoadRefuses \/ Format

Spec == Init /\ [][Next]_vars

----------------------------------------------------------------------------
(* Properties.                                                              *)

Pc == {"idle", "appended", "synced", "swapped", "compacting", "moved", "down"}

\* Types, and the books that cache the disk: the scan cache never lists a
\* record that journal.bin no longer holds (a stale offset would be read as
\* the payload of a block).
NyTypeOK ==
  /\ tree \subseteq Block /\ snaps \in SnapTable /\ cache \subseteq Block
  /\ dirty \in BOOLEAN /\ saving \in BOOLEAN /\ pc \in Pc
  /\ ids \subseteq Block
  /\ index = None \/ index \subseteq journal.ids
  /\ journal \in journals /\ journals \subseteq Journal
  /\ bins \subseteq Block /\ loose \subseteq Block
  /\ meta \in metas /\ metas \ {None} \subseteq Image
  /\ recut \in BOOLEAN /\ doomed \subseteq Block

\* The metadata that a restart finds references only payloads that it finds too.
Loadable ==
  \A m \in metas \ {None}, j \in journals :
    Refs(m) \subseteq (bins \ loose) \cup j.ids

\* Whatever the moment of a power failure, inside a save, a compaction or a
\* collection, the metadata that the restart finds references only payloads
\* that it finds too, and blocks that one of the three sequences gave up.
LossIsConfined ==
  \A m \in metas \ {None}, j \in journals :
    Refs(m) \subseteq (bins \ loose) \cup j.ids \cup doomed

\* The dirty flag, by which shutdown skips the final save: a clean file
\* system is one that a restart reads back as it is, its snapshots always and
\* its tree unless a read has cut it anew.
CleanMeansCommitted ==
  pc # "down" /\ ~ dirty =>
    \A m \in metas :
      IF m = None THEN snaps = NoSnaps /\ (recut \/ tree = {})
      ELSE m.snaps = snaps /\ (recut \/ m.tree = tree)

\* The books of the incremental save: a block that the next save will skip has
\* a block file, in the directory that save syncs, or a durable record, unless
\* it was given up.
SkippedAreDurable ==
  \A j \in journals : ids \cap Live \subseteq bins \cup j.ids \cup doomed

\* "Safe to call at any point", as the docstring of compact_journal has it: a
\* compaction makes no loadable state unloadable.
CompactionIsSafe == [][Truncate /\ Loadable => Loadable']_vars

\* A save is atomic and a restart reads back the last committed state; the
\* store counts as clean when _dirty is unset and no read has cut the tree anew.
Store ==
  INSTANCE DurableStore
    WITH live <- IF pc = "down" THEN None ELSE Mem,
         clean <- ~ dirty /\ ~ recut, stable <- metas, Lost <- None
StoreSpec == Store!Spec
=============================================================================
