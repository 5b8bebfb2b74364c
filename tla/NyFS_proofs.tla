----------------------------- MODULE NyFS_proofs -----------------------------
(***************************************************************************)
(* Proofs about NyFS, for any number of blocks and snapshots and every     *)
(* behaviour: what a power failure leaves can be loaded but for the blocks *)
(* that are accounted as given up, a clean file system is committed, what  *)
(* a save skips is durable, saved snapshots stay, and the whole implements *)
(* DurableStore.                                                           *)
(***************************************************************************)
EXTENDS NyFS, TLAPS

\* A scan that seeds the list finds durable records.
SeedIsDurable == ids = {} /\ pc # "down" => \A j \in journals : Scan \subseteq j.ids

\* What is listed or has a block file is scanned, if the journal holds it.
ListedIsScanned == (ids \cup bins) \cap journal.ids \subseteq Scan

\* A block of the metadata is where a compaction looks for it ...
CommittedIsFound == \A m \in metas \ {None} : Refs(m) \subseteq bins \cup Scan \cup doomed

\* ... and where a save looks whether to append it.
CommittedIsListed ==
  pc # "down" => \A m \in metas \ {None} : Refs(m) \subseteq ids \cup bins \cup doomed

\* What each stage of an operation has achieved.
Progress ==
  /\ pc = "appended" => Live \subseteq ids \cup journal.ids \cup doomed
  /\ pc = "synced" => Live \subseteq ids
  /\ pc = "swapped" => meta = Mem
  /\ pc # "swapped" => metas = {meta}
  /\ pc \in {"compacting", "moved"} /\ saving => meta = Mem
  /\ pc = "moved" => Live \cap Scan \subseteq bins
  /\ pc = "idle" => ~ saving
  /\ recut => ~ dirty
  /\ pc = "down" =>
       /\ Mem = Empty /\ ~ dirty /\ ids = {} /\ index = None /\ cache = {}
       /\ journals = {journal} /\ loose = {} /\ ~ saving /\ ~ recut

NyInv ==
  /\ NyTypeOK
  /\ SeedIsDurable
  /\ ListedIsScanned
  /\ CommittedIsFound
  /\ CommittedIsListed
  /\ SkippedAreDurable
  /\ LossIsConfined
  /\ CleanMeansCommitted
  /\ Progress
----------------------------------------------------------------------------
LEMMA MemoryKept ==
  ASSUME UNCHANGED <<tree, snaps>>
  PROVE  Mem' = Mem /\ Live' = Live
BY DEF Mem, Live, Refs

LEMMA SnapTypes ==
  ASSUME NEW table \in SnapTable
  PROVE  /\ DOMAIN table \subseteq Snapshot
         /\ \A s \in DOMAIN table : table[s] \subseteq Block
<1>1. PICK taken \in SUBSET Snapshot : table \in [taken -> SUBSET Block]
  BY DEF SnapTable
<1> QED BY <1>1

LEMMA RefTypes ==
  ASSUME NyTypeOK
  PROVE  /\ Live \subseteq Block
         /\ \A m \in metas \ {None} : Refs(m) \subseteq Block
<1>1. tree \subseteq Block /\ snaps \in SnapTable
  BY DEF NyTypeOK
<1>2. Live \subseteq Block
  BY <1>1, SnapTypes DEF Live, Refs, Mem
<1>3. ASSUME NEW m \in metas \ {None} PROVE Refs(m) \subseteq Block
  <2>1. m.tree \subseteq Block /\ m.snaps \in SnapTable
    BY DEF NyTypeOK, Image
  <2> QED BY <2>1, SnapTypes DEF Refs
<1> QED BY <1>2, <1>3

LEMMA MemIsImage == NyTypeOK => Mem \in Image /\ Mem # None
BY NyFSAssumption DEF NyTypeOK, Mem, Image

\* While metas stays, what is given up on account of it stays so.
LEMMA GivenUpStays ==
  ASSUME NEW more, GiveUp(more), UNCHANGED metas
  PROVE  /\ \A m \in metas \ {None} : doomed \cap Refs(m) \subseteq doomed'
         /\ doomed \cap Live' \subseteq doomed'
         /\ more \cap Live' \subseteq doomed'
         /\ doomed' \subseteq doomed \cup more
<1>1. MetaRefs' = MetaRefs
  BY DEF MetaRefs
<1>2. \A m \in metas \ {None} : Refs(m) \subseteq MetaRefs
  BY DEF MetaRefs
<1> QED BY <1>1, <1>2 DEF GiveUp

----------------------------------------------------------------------------
(* Changes of the tree and of the snapshots, and reads that re-block.       *)

\* A step that references only what was referenced before, and blocks that it
\* gives up if they were listed and may not be found.
LEMMA TreeStepKeepsInv ==
  ASSUME NyInv, pc = "idle", UNCHANGED <<books, disk, pc, saving>>,
         tree' \subseteq Block, snaps' \in SnapTable, cache' \subseteq Block,
         dirty' \in BOOLEAN, recut' \in BOOLEAN, recut' => ~ dirty',
         CleanMeansCommitted',
         NEW fresh \in SUBSET Block, Live' \subseteq Live \cup fresh,
         NEW more \in SUBSET Block, GiveUp(more), fresh \cap Reclaimed \subseteq more
  PROVE  NyInv'
<1> USE DEF books, disk
<1>1. /\ \A m \in metas \ {None} : doomed \cap Refs(m) \subseteq doomed'
      /\ doomed \cap Live' \subseteq doomed'
      /\ more \cap Live' \subseteq doomed'
      /\ doomed' \subseteq doomed \cup more
  BY GivenUpStays
<1>2. NyTypeOK'
  BY <1>1 DEF NyInv, NyTypeOK
<1>3. SeedIsDurable' /\ ListedIsScanned'
  BY DEF NyInv, SeedIsDurable, ListedIsScanned, Scan
<1>4. CommittedIsFound' /\ CommittedIsListed'
  BY <1>1 DEF NyInv, CommittedIsFound, CommittedIsListed, Scan
<1>5. SkippedAreDurable'
  <2> SUFFICES ASSUME NEW j \in journals, NEW b \in ids \cap Live'
               PROVE  b \in bins \cup j.ids \cup doomed'
    BY DEF SkippedAreDurable
  <2>1. CASE b \in Live
    BY <1>1, <2>1 DEF NyInv, SkippedAreDurable
  <2>2. CASE b \in fresh
    BY <1>1, <2>2 DEF Reclaimed
  <2> QED BY <2>1, <2>2
<1>6. LossIsConfined'
  BY <1>1 DEF NyInv, LossIsConfined
<1>7. Progress'
  BY DEF NyInv, Progress
<1> QED BY <1>2, <1>3, <1>4, <1>5, <1>6, <1>7 DEF NyInv

LEMMA ChangeKeepsInv ==
  ASSUME NyInv, NEW newTree \in SUBSET Block, NEW newSnaps \in SnapTable,
         Change(newTree, newSnaps), cache' \subseteq Block,
         NEW fresh \in SUBSET Block, Live' \subseteq Live \cup fresh,
         NEW more \in SUBSET Block, GiveUp(more), fresh \cap Reclaimed \subseteq more
  PROVE  NyInv'
<1>1. CleanMeansCommitted'
  BY DEF Change, CleanMeansCommitted
<1> QED BY <1>1, TreeStepKeepsInv DEF Change

LEMMA NothingNewKeepsInv ==
  ASSUME NyInv, NEW newTree \in SUBSET Block, NEW newSnaps \in SnapTable,
         Change(newTree, newSnaps), UNCHANGED cache, GiveUp({}), Live' \subseteq Live
  PROVE  NyInv'
<1>1. cache' \subseteq Block
  BY DEF NyInv, NyTypeOK
<1> DEFINE fresh == {}
<1>2. fresh \in SUBSET Block /\ Live' \subseteq Live \cup fresh /\ GiveUp(fresh)
  OBVIOUS
<1> HIDE DEF fresh
<1> QED BY <1>1, <1>2, ChangeKeepsInv

LEMMA WriteKeepsInv ==
  ASSUME NyInv, Write
  PROVE  NyInv'
<1>1. PICK b \in Block \ Known, replaced \in SUBSET tree :
        Change((tree \ replaced) \cup {b}, snaps) /\ Cached(b) /\ GiveUp({})
  BY DEF Write
<1>2. /\ (tree \ replaced) \cup {b} \in SUBSET Block
      /\ snaps \in SnapTable
      /\ cache' \subseteq Block
  BY <1>1 DEF NyInv, NyTypeOK, Cached
<1>3. Live' \subseteq Live \cup {b}
  BY <1>1 DEF Change, Live, Refs, Mem
<1>4. {b} \cap Reclaimed = {}
  BY <1>1 DEF Known, Reclaimed
<1> QED BY <1>1, <1>2, <1>3, <1>4, ChangeKeepsInv

LEMMA ReadKeepsInv ==
  ASSUME NyInv, Read
  PROVE  NyInv'
<1>1. PICK b \in cache \cup (Block \ Known), replaced \in SUBSET tree \ {{}} :
        /\ tree' = (tree \ replaced) \cup {b}
        /\ Cached(b)
        /\ GiveUp({b} \cap Reclaimed)
  BY DEF Read
<1>2. /\ pc = "idle" /\ UNCHANGED <<snaps, dirty, books, disk, pc, saving>>
      /\ recut' = ~ dirty
  BY DEF Read
<1>3. /\ b \in Block /\ tree' \subseteq Block /\ snaps' \in SnapTable
      /\ cache' \subseteq Block
  BY <1>1, <1>2 DEF NyInv, NyTypeOK, Cached
<1>4. Live' \subseteq Live \cup {b}
  BY <1>1, <1>2 DEF Live, Refs, Mem
<1>5. CleanMeansCommitted'
  BY <1>2 DEF NyInv, CleanMeansCommitted, disk
<1>6. dirty' \in BOOLEAN /\ recut' \in BOOLEAN /\ (recut' => ~ dirty')
  BY <1>2 DEF NyInv, NyTypeOK
<1>7. {b} \cap Reclaimed \in SUBSET Block /\ {b} \in SUBSET Block
  BY <1>3
<1> QED BY <1>1, <1>2, <1>3, <1>4, <1>5, <1>6, <1>7, TreeStepKeepsInv

LEMMA RewriteKeepsInv ==
  ASSUME NyInv, Rewrite
  PROVE  NyInv'
<1>1. PICK b \in cache, replaced \in SUBSET tree :
        /\ Change((tree \ replaced) \cup {b}, snaps)
        /\ GiveUp({b} \cap Reclaimed)
        /\ UNCHANGED cache
  BY DEF Rewrite
<1>2. /\ (tree \ replaced) \cup {b} \in SUBSET Block
      /\ snaps \in SnapTable
      /\ cache' \subseteq Block /\ b \in Block
  BY <1>1 DEF NyInv, NyTypeOK
<1>3. Live' \subseteq Live \cup {b}
  BY <1>1 DEF Change, Live, Refs, Mem
<1>4. {b} \cap Reclaimed \in SUBSET Block /\ {b} \in SUBSET Block
  BY <1>2
<1> QED BY <1>1, <1>2, <1>3, <1>4, ChangeKeepsInv

LEMMA UnlinkKeepsInv ==
  ASSUME NyInv, Unlink
  PROVE  NyInv'
<1>1. PICK gone \in SUBSET tree : Change(tree \ gone, snaps) /\ UNCHANGED cache /\ GiveUp({})
  BY DEF Unlink
<1>2. tree \ gone \in SUBSET Block /\ snaps \in SnapTable
  BY <1>1 DEF NyInv, NyTypeOK
<1>3. Live' \subseteq Live
  BY <1>1 DEF Change, Live, Refs, Mem
<1> QED BY <1>1, <1>2, <1>3, NothingNewKeepsInv

LEMMA CreateSnapshotKeepsInv ==
  ASSUME NyInv, CreateSnapshot
  PROVE  NyInv'
<1>1. PICK s \in Snapshot :
        /\ Change(tree, [t \in DOMAIN snaps \cup {s} |->
                           IF t = s THEN tree ELSE snaps[t]])
        /\ UNCHANGED cache
        /\ GiveUp({})
  BY DEF CreateSnapshot
<1> DEFINE table == [t \in DOMAIN snaps \cup {s} |-> IF t = s THEN tree ELSE snaps[t]]
<1>2. tree \in SUBSET Block /\ snaps \in SnapTable
  BY <1>1 DEF NyInv, NyTypeOK
<1>3. table \in [DOMAIN snaps \cup {s} -> SUBSET Block]
  BY <1>2, SnapTypes
<1>4. table \in SnapTable
  BY <1>2, <1>3, SnapTypes DEF SnapTable
<1>5. tree' = tree /\ snaps' = table
  BY <1>1 DEF Change
<1>6. \A t \in DOMAIN table : table[t] \subseteq Live
  BY DEF Live, Refs, Mem
<1> HIDE DEF table
<1>7. Live' \subseteq Live
  <2>1. Live' = tree \cup UNION { table[t] : t \in DOMAIN table }
    BY <1>5 DEF Live, Refs, Mem
  <2>2. tree \subseteq Live
    BY DEF Live, Refs, Mem
  <2> QED BY <2>1, <2>2, <1>6
<1> QED BY <1>1, <1>2, <1>4, <1>7, NothingNewKeepsInv DEF table

LEMMA RestoreSnapshotKeepsInv ==
  ASSUME NyInv, RestoreSnapshot
  PROVE  NyInv'
<1>1. PICK s \in DOMAIN snaps : Change(snaps[s], snaps) /\ UNCHANGED cache /\ GiveUp({})
  BY DEF RestoreSnapshot
<1>2. snaps \in SnapTable
  BY <1>1 DEF NyInv, NyTypeOK
<1>3. snaps[s] \in SUBSET Block
  BY <1>2, SnapTypes
<1>4. Live' \subseteq Live
  BY <1>1 DEF Change, Live, Refs, Mem
<1> QED BY <1>1, <1>2, <1>3, <1>4, NothingNewKeepsInv

LEMMA DeleteSnapshotKeepsInv ==
  ASSUME NyInv, DeleteSnapshot
  PROVE  NyInv'
<1>1. PICK s \in DOMAIN snaps :
        /\ Change(tree, [t \in DOMAIN snaps \ {s} |-> snaps[t]])
        /\ UNCHANGED cache
        /\ GiveUp({})
  BY DEF DeleteSnapshot
<1> DEFINE table == [t \in DOMAIN snaps \ {s} |-> snaps[t]]
<1>2. tree \in SUBSET Block /\ snaps \in SnapTable
  BY <1>1 DEF NyInv, NyTypeOK
<1>3. table \in [DOMAIN snaps \ {s} -> SUBSET Block]
  BY <1>2, SnapTypes
<1>4. table \in SnapTable
  BY <1>2, <1>3, SnapTypes DEF SnapTable
<1>5. tree' = tree /\ snaps' = table
  BY <1>1 DEF Change
<1>6. \A t \in DOMAIN table : table[t] \subseteq Live
  BY DEF Live, Refs, Mem
<1> HIDE DEF table
<1>7. Live' \subseteq Live
  <2>1. Live' = tree \cup UNION { table[t] : t \in DOMAIN table }
    BY <1>5 DEF Live, Refs, Mem
  <2>2. tree \subseteq Live
    BY DEF Live, Refs, Mem
  <2> QED BY <2>1, <2>2, <1>6
<1> QED BY <1>1, <1>2, <1>4, <1>7, NothingNewKeepsInv DEF table

----------------------------------------------------------------------------(* save.                                                                    *)

LEMMA ScanTypes ==
  ASSUME NyTypeOK
  PROVE  Scan \subseteq journal.ids /\ journal \in Journal /\ Seeded \subseteq Block
<1>1. journal \in Journal
  BY DEF NyTypeOK
<1> QED BY <1>1 DEF NyTypeOK, Journal, Scan, Seeded

LEMMA AppendedTypes ==
  ASSUME NyTypeOK, NEW records \in SUBSET NewRecords, NEW cut \in BOOLEAN
  PROVE  /\ Appended(records, cut) \in Journal
         /\ journal.ids \subseteq Appended(records, cut).ids
         /\ Appended(records, cut).ids \subseteq journal.ids \cup NewRecords
         /\ ~ journal.torn => Appended(records, cut).ids = journal.ids \cup records
<1>1. journal \in Journal
  BY DEF NyTypeOK
<1>2. records \subseteq Block
  BY RefTypes DEF NewRecords
<1>3. Appended(records, cut) =
        [ids  |-> IF journal.torn THEN journal.ids ELSE journal.ids \cup records,
         torn |-> journal.torn \/ cut]
  BY DEF Appended
<1> QED BY <1>1, <1>2, <1>3 DEF Journal

LEMMA PartlyAppendedTypes ==
  ASSUME NyTypeOK
  PROVE  \A j \in PartlyAppended :
           /\ j \in Journal /\ journal.ids \subseteq j.ids
           /\ j.ids \subseteq journal.ids \cup NewRecords
<1>1. SUFFICES ASSUME NEW j \in PartlyAppended
               PROVE  /\ j \in Journal /\ journal.ids \subseteq j.ids
                      /\ j.ids \subseteq journal.ids \cup NewRecords
  OBVIOUS
<1>2. PICK r \in SUBSET NewRecords, cut \in BOOLEAN : j = Appended(r, cut)
  BY DEF PartlyAppended
<1> QED BY <1>2, AppendedTypes

\* All but the progress of an append that stops at `written`.
LEMMA SaveStartsKeepsInv ==
  ASSUME NyInv, NEW next \in {"idle", "appended", "synced"}, NEW written \in Journal,
         SaveStarts(next, written),
         journal.ids \subseteq written.ids,
         written.ids \subseteq journal.ids \cup NewRecords,
         journals' \subseteq Journal, written \in journals',
         \A j \in journals' : j \in journals \/ journal.ids \subseteq j.ids,
         doomed \subseteq doomed', doomed' \subseteq Block,
         Progress'
  PROVE  NyInv'
<1> USE DEF SaveStarts, memory
<1>1. Mem' = Mem /\ Live' = Live
  BY MemoryKept
<1>2. Scan \subseteq journal.ids /\ journal \in Journal /\ Seeded \subseteq Block
  BY ScanTypes DEF NyInv
<1>3. Scan' = IF ids = {} THEN Scan ELSE IF index = None THEN written.ids ELSE index
  <2>1. CASE ids = {}
    <3>1. Scan # None
      BY <1>2, NyFSAssumption DEF Journal
    <3> QED BY <2>1, <3>1 DEF Scan
  <2>2. CASE ids # {}
    BY <2>2 DEF Scan
  <2> QED BY <2>1, <2>2
<1>4. Scan \subseteq Scan'
  BY <1>2, <1>3 DEF Scan
<1>5. journal \in journals
  BY DEF NyInv, NyTypeOK
<1>6. NyTypeOK'
  <2>1. ids' \subseteq Block
    BY <1>2 DEF NyInv, NyTypeOK
  <2>2. index' = None \/ index' \subseteq journal'.ids
    BY <1>2 DEF NyInv, NyTypeOK
  <2>3. saving' \in BOOLEAN /\ pc' \in Pc
    BY DEF Pc
  <2> QED BY <2>1, <2>2, <2>3 DEF NyInv, NyTypeOK
<1>7. SeedIsDurable'
  <2> SUFFICES ASSUME ids' = {} PROVE \A j \in journals' : Scan' \subseteq j.ids
    BY DEF SeedIsDurable
  <2>1. ids = {} /\ Scan = {}
    BY DEF Seeded
  <2> QED BY <2>1, <1>3
<1>13. ListedIsScanned'
  <2>1. (Seeded \cup bins) \cap journal.ids \subseteq Scan
    BY DEF NyInv, ListedIsScanned, Seeded
  <2>2. (Seeded \cup bins) \cap NewRecords = {}
    BY DEF NewRecords
  <2> QED BY <2>1, <2>2, <1>4 DEF ListedIsScanned
<1>8. CommittedIsFound'
  BY <1>4 DEF NyInv, CommittedIsFound
<1>9. CommittedIsListed'
  BY DEF NyInv, CommittedIsListed, CommittedIsFound, Seeded
<1>10. SkippedAreDurable'
  <2> SUFFICES ASSUME NEW j \in journals', NEW b \in ids' \cap Live
               PROVE  b \in bins \cup j.ids \cup doomed'
    BY <1>1 DEF SkippedAreDurable
  <2>2. PICK i \in journals : i.ids \subseteq j.ids
    BY <1>5
  <2>3. CASE b \in bins
    BY <2>3
  <2>4. CASE b \in ids
    BY <2>2, <2>4 DEF NyInv, SkippedAreDurable
  <2>5. CASE ids = {} /\ b \in Scan
    BY <2>2, <2>5 DEF NyInv, SeedIsDurable
  <2> QED BY <2>3, <2>4, <2>5 DEF Seeded
<1>11. LossIsConfined'
  BY <1>5 DEF NyInv, LossIsConfined
<1>12. CleanMeansCommitted'
  BY DEF NyInv, CleanMeansCommitted
<1> QED BY <1>6, <1>7, <1>8, <1>9, <1>10, <1>11, <1>12, <1>13 DEF NyInv

LEMMA SaveAppendsKeepsInv ==
  ASSUME NyInv, SaveAppends
  PROVE  NyInv'
<1> DEFINE written == Appended(NewRecords, FALSE)
<1>1. /\ SaveStarts("appended", written)
      /\ journals' = journals \cup PartlyAppended \cup {written}
      /\ doomed' = IF journal.torn THEN doomed \cup NewRecords ELSE doomed
  BY DEF SaveAppends, SaveStarts
<1>2. NyTypeOK /\ journals \subseteq Journal /\ doomed \subseteq Block
  BY DEF NyInv, NyTypeOK
<1>3. NewRecords \subseteq Block
  BY <1>2, RefTypes DEF NewRecords
<1>4. /\ written \in Journal
      /\ journal.ids \subseteq written.ids
      /\ written.ids \subseteq journal.ids \cup NewRecords
      /\ ~ journal.torn => NewRecords \subseteq written.ids
  BY <1>2, AppendedTypes
<1> HIDE DEF written
<1>5. \A j \in PartlyAppended : j \in Journal /\ journal.ids \subseteq j.ids
  BY <1>2, PartlyAppendedTypes
<1>6. Mem' = Mem /\ Live' = Live
  BY <1>1, MemoryKept DEF SaveStarts, memory
<1>7. Live \subseteq ids' \cup written.ids \cup doomed'
  BY <1>1, <1>4 DEF SaveStarts, NewRecords
<1>8. Progress'
  BY <1>1, <1>6, <1>7 DEF NyInv, Progress, SaveStarts, memory
<1>9. journals' \subseteq Journal /\ written \in journals'
  BY <1>1, <1>2, <1>4, <1>5
<1>10. \A j \in journals' : j \in journals \/ journal.ids \subseteq j.ids
  BY <1>1, <1>4, <1>5
<1>11. doomed \subseteq doomed' /\ doomed' \subseteq Block
  BY <1>1, <1>2, <1>3
<1> QED BY <1>1, <1>4, <1>8, <1>9, <1>10, <1>11, SaveStartsKeepsInv

LEMMA SaveAppendsNothingKeepsInv ==
  ASSUME NyInv, SaveAppendsNothing
  PROVE  NyInv'
<1>1. /\ NewRecords = {}
      /\ SaveStarts("synced", journal)
      /\ UNCHANGED <<journals, doomed>>
  BY DEF SaveAppendsNothing
<1>2. /\ journals \subseteq Journal /\ journal \in journals /\ journal \in Journal
      /\ doomed \subseteq Block
  BY DEF NyInv, NyTypeOK
<1>3. Mem' = Mem /\ Live' = Live
  BY <1>1, MemoryKept DEF SaveStarts, memory
<1>4. Live \subseteq ids'
  BY <1>1 DEF SaveStarts, NewRecords
<1>5. Progress'
  BY <1>1, <1>3, <1>4 DEF NyInv, Progress, SaveStarts, memory
<1> QED BY <1>1, <1>2, <1>5, SaveStartsKeepsInv

LEMMA SaveAppendFailsKeepsInv ==
  ASSUME NyInv, SaveAppendFails
  PROVE  NyInv'
<1>1. PICK part \in PartlyAppended : SaveStarts("idle", part)
  BY DEF SaveAppendFails
<1>2. journals' = journals \cup PartlyAppended /\ doomed' = doomed
  BY DEF SaveAppendFails
<1>3. NyTypeOK /\ journals \subseteq Journal /\ doomed \subseteq Block
  BY DEF NyInv, NyTypeOK
<1>4. \A j \in PartlyAppended :
        /\ j \in Journal /\ journal.ids \subseteq j.ids
        /\ j.ids \subseteq journal.ids \cup NewRecords
  BY <1>3, PartlyAppendedTypes
<1>5. Progress'
  BY <1>1 DEF NyInv, Progress, SaveStarts, memory
<1>6. journals' \subseteq Journal
  BY <1>2, <1>3, <1>4
<1> QED BY <1>1, <1>2, <1>3, <1>4, <1>5, <1>6, SaveStartsKeepsInv

LEMMA SaveSyncsKeepsInv ==
  ASSUME NyInv, SaveSyncs
  PROVE  NyInv'
<1> USE DEF SaveSyncs, memory, history
<1>1. Mem' = Mem /\ Live' = Live
  BY MemoryKept
<1>2. Scan' = journal.ids /\ Scan \subseteq journal.ids
  BY ScanTypes DEF Scan, NyInv
<1>3. NyTypeOK'
  BY RefTypes DEF NyInv, NyTypeOK, Pc
<1>4. journal \in journals
  BY DEF NyInv, NyTypeOK
<1>5. SeedIsDurable' /\ ListedIsScanned'
  BY <1>2 DEF SeedIsDurable, ListedIsScanned
<1>6. CommittedIsFound' /\ CommittedIsListed'
  BY <1>2 DEF NyInv, CommittedIsFound, CommittedIsListed
<1>7. SkippedAreDurable'
  BY <1>1, <1>4 DEF NyInv, SkippedAreDurable, Progress
<1>8. LossIsConfined'
  BY <1>4 DEF NyInv, LossIsConfined
<1>9. CleanMeansCommitted'
  BY <1>1 DEF NyInv, CleanMeansCommitted
<1>10. Progress'
  BY <1>1 DEF NyInv, Progress
<1> QED BY <1>3, <1>5, <1>6, <1>7, <1>8, <1>9, <1>10 DEF NyInv

LEMMA SaveSwapsKeepsInv ==
  ASSUME NyInv, SaveSwaps
  PROVE  NyInv'
<1> USE DEF SaveSwaps, SwapIn, memory, books, history
<1>1. Mem' = Mem /\ Live' = Live /\ Refs(Mem) = Live
  BY MemoryKept DEF Live
<1>2. Scan' = Scan
  BY DEF Scan
<1>3. NyTypeOK'
  <2>1. Mem \in Image
    BY DEF NyInv, NyTypeOK, Mem, Image
  <2> QED BY <2>1 DEF NyInv, NyTypeOK, Pc
<1>4. SeedIsDurable' /\ ListedIsScanned'
  BY <1>2 DEF NyInv, SeedIsDurable, ListedIsScanned
<1>5. Live \subseteq ids
  BY DEF NyInv, Progress
<1>6. CommittedIsListed'
  BY <1>1, <1>5 DEF NyInv, CommittedIsListed
<1>7. ASSUME NEW j \in journals PROVE Live \subseteq bins \cup j.ids \cup doomed
  BY <1>5 DEF NyInv, SkippedAreDurable
<1>8. LossIsConfined'
  BY <1>1, <1>7 DEF NyInv, LossIsConfined
<1>12. CommittedIsFound'
  <2>1. journal \in journals
    BY DEF NyInv, NyTypeOK
  <2>2. Live \subseteq bins \cup Scan \cup doomed
    BY <1>5, <1>7, <2>1 DEF NyInv, ListedIsScanned
  <2> QED BY <1>1, <1>2, <2>2 DEF NyInv, CommittedIsFound
<1>9. SkippedAreDurable'
  BY <1>1 DEF NyInv, SkippedAreDurable
<1>10. CleanMeansCommitted'
  BY <1>1, MemIsImage DEF NyInv, CleanMeansCommitted, Mem
<1>11. Progress'
  BY <1>1 DEF NyInv, Progress
<1> QED BY <1>3, <1>4, <1>6, <1>8, <1>9, <1>10, <1>11, <1>12 DEF NyInv

LEMMA SaveCommitsKeepsInv ==
  ASSUME NyInv, SaveCommits
  PROVE  NyInv'
<1> USE DEF SaveCommits, Returns, memory, books
<1>1. Mem' = Mem /\ Live' = Live
  BY MemoryKept
<1>2. Scan' = Scan /\ meta = Mem /\ meta \in metas
  BY DEF Scan, NyInv, Progress, NyTypeOK
<1>3. Refs(Mem) = Live /\ metas' = {Mem} /\ Mem # None
  BY <1>2, MemIsImage DEF Live, NyInv
<1>4. doomed' = doomed \cap Live
  <2>1. MetaRefs' = Live
    BY <1>3 DEF MetaRefs
  <2> QED BY <1>1, <2>1 DEF GiveUp
<1>5. NyTypeOK'
  BY <1>4 DEF NyInv, NyTypeOK, Pc
<1>6. SeedIsDurable' /\ ListedIsScanned'
  BY <1>2 DEF NyInv, SeedIsDurable, ListedIsScanned
<1>7. CommittedIsFound' /\ CommittedIsListed'
  BY <1>2, <1>3, <1>4 DEF NyInv, CommittedIsFound, CommittedIsListed
<1>8. SkippedAreDurable'
  BY <1>1, <1>4 DEF NyInv, SkippedAreDurable
<1>9. LossIsConfined'
  BY <1>2, <1>3, <1>4 DEF NyInv, LossIsConfined
<1>10. CleanMeansCommitted'
  BY <1>3 DEF CleanMeansCommitted, Mem
<1>11. Progress'
  BY <1>1, <1>2, <1>3 DEF NyInv, Progress
<1> QED BY <1>5, <1>6, <1>7, <1>8, <1>9, <1>10, <1>11 DEF NyInv

LEMMA StepFailsKeepsInv ==
  ASSUME NyInv, StepFails
  PROVE  NyInv'
<1> USE DEF StepFails, memory, books, disk, history
<1>1. Mem' = Mem /\ Live' = Live
  BY MemoryKept
<1>2. Scan' = Scan
  BY DEF Scan
<1>3. NyTypeOK'
  BY DEF NyInv, NyTypeOK, Pc
<1>4. SeedIsDurable' /\ ListedIsScanned' /\ CommittedIsFound' /\ CommittedIsListed'
  BY <1>2 DEF NyInv, SeedIsDurable, ListedIsScanned, CommittedIsFound,
     CommittedIsListed
<1>5. SkippedAreDurable' /\ LossIsConfined'
  BY <1>1 DEF NyInv, SkippedAreDurable, LossIsConfined
<1>6. CleanMeansCommitted' /\ Progress'
  BY <1>1 DEF NyInv, CleanMeansCommitted, Progress
<1> QED BY <1>3, <1>4, <1>5, <1>6 DEF NyInv

----------------------------------------------------------------------------
(* Compaction and collection.                                               *)

LEMMA MaterializeKeepsInv ==
  ASSUME NyInv, NEW done \in SUBSET Moved, NEW next \in {"moved", "idle"},
         next = "moved" => done = Moved,
         Materialize(done, next)
  PROVE  NyInv'
<1> USE DEF Materialize, memory, history
<1>1. Mem' = Mem /\ Live' = Live
  BY MemoryKept
<1>2. Scan' = Scan /\ Scan \subseteq journal.ids /\ journal \in Journal
  <2>1. Scan \subseteq journal.ids /\ journal \in Journal
    BY ScanTypes DEF NyInv
  <2>2. Scan # None
    BY <2>1, NyFSAssumption DEF Journal
  <2> QED BY <2>1, <2>2 DEF Scan
<1>3. done \cap bins = {} /\ done \subseteq Scan /\ done \subseteq Block
  BY <1>2 DEF Moved, Journal
<1>4. NyTypeOK'
  BY <1>2, <1>3 DEF NyInv, NyTypeOK, Pc
<1>5. SeedIsDurable' /\ ListedIsScanned'
  BY <1>2, <1>3 DEF NyInv, SeedIsDurable, ListedIsScanned
<1>6. CommittedIsFound' /\ CommittedIsListed'
  BY <1>2 DEF NyInv, CommittedIsFound, CommittedIsListed
<1>7. SkippedAreDurable'
  BY <1>1 DEF NyInv, SkippedAreDurable
<1>8. LossIsConfined'
  BY <1>3 DEF NyInv, LossIsConfined
<1>9. CleanMeansCommitted'
  BY DEF NyInv, CleanMeansCommitted
<1>10. next = "moved" => Live \cap Scan \subseteq bins'
  BY DEF Moved
<1>11. saving' => saving /\ (saving => meta = Mem)
  BY DEF NyInv, Progress, NyTypeOK
<1>12. Progress'
  BY <1>1, <1>2, <1>10, <1>11 DEF NyInv, Progress
<1> QED BY <1>4, <1>5, <1>6, <1>7, <1>8, <1>9, <1>12 DEF NyInv

\* Of what the metadata references, the block files hold all but what memory
\* has dropped, which Truncate gives up, and what was given up before.
LEMMA TruncateKeepsInv ==
  ASSUME NyInv, Truncate
  PROVE  NyInv'
<1> USE DEF Truncate, Truncated
<1>1. Mem' = Mem /\ Live' = Live
  BY MemoryKept
<1>2. Scan' = {}
  BY DEF Scan, EmptyJournal
<1>3. \A m \in metas \ {None} : Refs(m) \subseteq bins \cup doomed'
  <2> SUFFICES ASSUME NEW m \in metas \ {None}, NEW b \in Refs(m), b \notin bins
               PROVE  b \in doomed \cup Dropped
    OBVIOUS
  <2>1. CASE b \in Live
    <3>1. b \in bins \cup Scan \cup doomed /\ Live \cap Scan \subseteq bins
      BY DEF NyInv, CommittedIsFound, Progress
    <3> QED BY <2>1, <3>1
  <2>2. CASE b \notin Live
    BY <2>2 DEF Dropped, MetaRefs
  <2> QED BY <2>1, <2>2
<1>4. NyTypeOK'
  <2>1. EmptyJournal \in Journal
    BY DEF EmptyJournal, Journal
  <2>2. Dropped \subseteq Block
    BY RefTypes DEF NyInv, Dropped, MetaRefs
  <2> QED BY <2>1, <2>2 DEF NyInv, NyTypeOK, Pc
<1>5. SeedIsDurable' /\ ListedIsScanned'
  BY <1>2 DEF SeedIsDurable, ListedIsScanned, EmptyJournal
<1>6. CommittedIsFound' /\ CommittedIsListed' /\ LossIsConfined'
  BY <1>3 DEF CommittedIsFound, CommittedIsListed, LossIsConfined
<1>7. SkippedAreDurable'
  BY DEF SkippedAreDurable
<1>8. Progress'
  BY <1>1 DEF NyInv, Progress
<1>9. CleanMeansCommitted'
  <2>1. CASE saving
    <3>1. meta = Mem /\ metas = {meta} /\ Mem # None
      BY <2>1, MemIsImage DEF NyInv, Progress
    <3> QED BY <3>1 DEF CleanMeansCommitted, Mem
  <2>2. CASE ~ saving
    BY <2>2 DEF NyInv, CleanMeansCommitted
  <2> QED BY <2>1, <2>2
<1> QED BY <1>4, <1>5, <1>6, <1>7, <1>8, <1>9 DEF NyInv

LEMMA GcBlocksKeepsInv ==
  ASSUME NyInv, GcBlocks
  PROVE  NyInv'
<1>1. PICK old \in SUBSET (bins \ Live) \ {{}} :
        /\ bins' = bins \ old
        /\ loose' = loose \cup old
        /\ doomed' = doomed \cup (old \cap Dropped)
  BY DEF GcBlocks
<1>2. UNCHANGED <<tree, snaps, dirty, cache, ids, index, journal, journals, meta,
                  metas, pc, saving, recut>>
  BY DEF GcBlocks, memory, books
<1>3. Mem' = Mem /\ Live' = Live
  BY <1>2, MemoryKept
<1>4. Scan' = Scan
  BY <1>2 DEF Scan
<1>5. \A m \in metas \ {None} : Refs(m) \cap old \subseteq doomed'
  BY <1>1 DEF Dropped, MetaRefs
<1>6. NyTypeOK'
  BY <1>1, <1>2 DEF NyInv, NyTypeOK
<1>7. SeedIsDurable' /\ ListedIsScanned'
  BY <1>1, <1>2, <1>4 DEF NyInv, SeedIsDurable, ListedIsScanned
<1>8. CommittedIsFound' /\ CommittedIsListed'
  BY <1>1, <1>2, <1>4, <1>5 DEF NyInv, CommittedIsFound, CommittedIsListed
<1>9. SkippedAreDurable'
  BY <1>1, <1>2, <1>3 DEF NyInv, SkippedAreDurable
<1>10. LossIsConfined'
  BY <1>1, <1>2, <1>5 DEF NyInv, LossIsConfined
<1>11. CleanMeansCommitted'
  BY <1>2 DEF NyInv, CleanMeansCommitted
<1>12. Progress'
  BY <1>2, <1>3 DEF NyInv, Progress, GcBlocks
<1> QED BY <1>6, <1>7, <1>8, <1>9, <1>10, <1>11, <1>12 DEF NyInv

----------------------------------------------------------------------------
(* Power failure and restart.                                               *)

LEMMA EmptyFacts == Refs(Empty) = {} /\ NoSnaps \in SnapTable
<1>1. NoSnaps \in [{} -> SUBSET Block]
  BY DEF NoSnaps
<1> QED BY <1>1 DEF Refs, Empty, NoSnaps, SnapTable

LEMMA PowerFailsKeepsInv ==
  ASSUME NyInv, PowerFails
  PROVE  NyInv'
<1>1. PICK j \in journals : journal' = j /\ journals' = {j}
  BY DEF PowerFails
<1>2. PICK m \in metas : meta' = m /\ metas' = {m}
  BY DEF PowerFails
<1>3. PICK found \in SUBSET loose : bins' = (bins \ loose) \cup found
  BY DEF PowerFails
<1>4. /\ tree' = {} /\ snaps' = NoSnaps /\ cache' = {} /\ ids' = {}
      /\ index' = None /\ loose' = {} /\ dirty' = FALSE /\ pc' = "down"
      /\ saving' = FALSE /\ recut' = FALSE
  BY DEF PowerFails, Forgotten
<1>5. Mem' = Empty /\ Live' = {}
  <2>1. Mem' = Empty
    BY <1>4 DEF Mem, Empty
  <2> QED BY <2>1, EmptyFacts DEF Live, Refs
<1>6. Scan' = journal'.ids
  BY <1>4 DEF Scan
<1>7. m # None => doomed \cap Refs(m) \subseteq doomed'
  <2>1. m # None => Refs(m) \subseteq MetaRefs'
    BY <1>2 DEF MetaRefs
  <2> QED BY <2>1 DEF PowerFails, GiveUp
<1>8. doomed' \subseteq doomed
  BY DEF PowerFails, GiveUp
<1>9. NyTypeOK'
  BY <1>1, <1>2, <1>3, <1>4, <1>8, EmptyFacts DEF NyInv, NyTypeOK, Pc
<1>10. SeedIsDurable' /\ ListedIsScanned' /\ CommittedIsListed'
  BY <1>1, <1>4, <1>6 DEF SeedIsDurable, ListedIsScanned, CommittedIsListed
<1>11. m # None => Refs(m) \subseteq bins' \cup j.ids \cup doomed'
  BY <1>3, <1>7 DEF NyInv, LossIsConfined
<1>12. CommittedIsFound' /\ LossIsConfined'
  BY <1>1, <1>2, <1>4, <1>6, <1>11 DEF CommittedIsFound, LossIsConfined
<1>13. SkippedAreDurable' /\ CleanMeansCommitted'
  BY <1>4 DEF SkippedAreDurable, CleanMeansCommitted
<1>14. Progress'
  BY <1>1, <1>2, <1>4, <1>5 DEF Progress
<1> QED BY <1>9, <1>10, <1>12, <1>13, <1>14 DEF NyInv

LEMMA LoadKeepsInv ==
  ASSUME NyInv, Load
  PROVE  NyInv'
<1> USE DEF Load, disk
<1>1. meta \in Image
  BY DEF NyInv, NyTypeOK
<1>2. meta = [tree |-> meta.tree, snaps |-> meta.snaps]
  BY <1>1 DEF Image
<1>3. Mem' = meta /\ Live' = Refs(meta)
  <2>1. Mem' = meta
    BY <1>2 DEF Mem
  <2> QED BY <2>1 DEF Live, Refs
<1>4. Refs(meta) \subseteq bins \cup journal.ids
  BY DEF Found
<1>5. /\ journal \in Journal /\ journals = {journal} /\ metas = {meta}
      /\ loose = {} /\ ~ saving /\ ~ recut /\ ~ dirty
  BY DEF NyInv, NyTypeOK, Progress
<1>6. Scan' = journal.ids
  <2>1. journal.ids # None
    BY <1>5, NyFSAssumption DEF Journal
  <2> QED BY <2>1 DEF Scan
<1>7. NyTypeOK'
  <2>1. /\ meta.tree \subseteq Block /\ meta.snaps \in SnapTable
        /\ journal.ids \subseteq Block
    BY <1>1, <1>5 DEF Image, Journal
  <2> QED BY <2>1 DEF NyInv, NyTypeOK, Pc
<1>8. SeedIsDurable' /\ ListedIsScanned'
  BY <1>5, <1>6 DEF SeedIsDurable, ListedIsScanned
<1>9. CommittedIsFound' /\ CommittedIsListed' /\ LossIsConfined'
  BY <1>4, <1>5, <1>6 DEF CommittedIsFound, CommittedIsListed, LossIsConfined
<1>10. SkippedAreDurable' /\ CleanMeansCommitted'
  BY <1>3, <1>5 DEF SkippedAreDurable, CleanMeansCommitted
<1>11. Progress'
  BY <1>3, <1>5 DEF Progress
<1> QED BY <1>7, <1>8, <1>9, <1>10, <1>11 DEF NyInv

LEMMA FormatKeepsInv ==
  ASSUME NyInv, Format
  PROVE  NyInv'
<1> USE DEF Format, memory, books, disk
<1>1. Mem' = Mem /\ Live' = Live /\ Mem = Empty
  BY MemoryKept DEF NyInv, Progress
<1>2. Live = {} /\ Scan' = Scan
  BY <1>1, EmptyFacts DEF Live, Scan
<1>3. Scan \subseteq journal.ids
  BY ScanTypes DEF NyInv
<1>4. /\ journals = {journal} /\ metas = {None} /\ ids = {} /\ ~ dirty /\ ~ saving
      /\ ~ recut
  BY DEF NyInv, Progress
<1>5. NyTypeOK'
  BY DEF NyInv, NyTypeOK, Pc
<1>6. SeedIsDurable' /\ ListedIsScanned'
  BY <1>2, <1>3, <1>4 DEF NyInv, SeedIsDurable, ListedIsScanned
<1>7. CommittedIsFound' /\ CommittedIsListed' /\ LossIsConfined'
  BY <1>4 DEF CommittedIsFound, CommittedIsListed, LossIsConfined
<1>8. SkippedAreDurable' /\ CleanMeansCommitted'
  BY <1>1, <1>4 DEF SkippedAreDurable, CleanMeansCommitted, Mem, Empty
<1>9. Progress'
  BY <1>1, <1>2, <1>4 DEF NyInv, Progress
<1> QED BY <1>5, <1>6, <1>7, <1>8, <1>9 DEF NyInv

LEMMA StutterKeepsInv ==
  ASSUME NyInv, UNCHANGED vars
  PROVE  NyInv'
<1>1. Mem' = Mem /\ Live' = Live
  BY MemoryKept DEF vars
<1>2. Scan' = Scan
  BY DEF Scan, vars
<1>3. NyTypeOK'
  BY DEF NyInv, NyTypeOK, vars
<1>4. SeedIsDurable' /\ ListedIsScanned' /\ CommittedIsFound' /\ CommittedIsListed'
  BY <1>2 DEF NyInv, SeedIsDurable, ListedIsScanned, CommittedIsFound,
     CommittedIsListed, vars
<1>5. SkippedAreDurable' /\ LossIsConfined'
  BY <1>1 DEF NyInv, SkippedAreDurable, LossIsConfined, vars
<1>6. CleanMeansCommitted'
  BY DEF NyInv, CleanMeansCommitted, vars
<1>7. Progress'
  <2>1. UNCHANGED <<pc, ids, journal, journals, doomed, meta, metas, saving, bins,
                    recut, dirty, index, cache, loose>>
    BY DEF vars
  <2> QED BY <1>1, <1>2, <2>1 DEF NyInv, Progress
<1> QED BY <1>3, <1>4, <1>5, <1>6, <1>7 DEF NyInv

----------------------------------------------------------------------------
LEMMA NyInitInv == Init => NyInv
<1> SUFFICES ASSUME Init PROVE NyInv
  OBVIOUS
<1> USE DEF Init
<1>1. Mem = Empty /\ Live = {} /\ Scan = {}
  <2>1. Mem = Empty
    BY DEF Mem, Empty
  <2> QED BY <2>1, EmptyFacts DEF Live, Scan, EmptyJournal
<1>2. NyTypeOK
  <2>1. EmptyJournal \in Journal
    BY DEF EmptyJournal, Journal
  <2> QED BY <2>1, EmptyFacts DEF NyTypeOK, Pc
<1>3. SeedIsDurable /\ ListedIsScanned /\ CommittedIsFound /\ CommittedIsListed
  BY <1>1 DEF SeedIsDurable, ListedIsScanned, CommittedIsFound, CommittedIsListed
<1>4. SkippedAreDurable /\ LossIsConfined /\ CleanMeansCommitted /\ Progress
  BY <1>1 DEF SkippedAreDurable, LossIsConfined, CleanMeansCommitted, Progress
<1> QED BY <1>2, <1>3, <1>4 DEF NyInv

LEMMA NyStepInv ==
  ASSUME NyInv, [Next]_vars
  PROVE  NyInv'
<1>1. CASE Write \/ Read \/ Rewrite \/ Unlink
  BY <1>1, WriteKeepsInv, ReadKeepsInv, RewriteKeepsInv, UnlinkKeepsInv
<1>2. CASE CreateSnapshot \/ RestoreSnapshot \/ DeleteSnapshot
  BY <1>2, CreateSnapshotKeepsInv, RestoreSnapshotKeepsInv, DeleteSnapshotKeepsInv
<1>3. CASE SaveAppends \/ SaveAppendsNothing \/ SaveAppendFails
  BY <1>3, SaveAppendsKeepsInv, SaveAppendsNothingKeepsInv, SaveAppendFailsKeepsInv
<1>4. CASE SaveSyncs \/ SaveSwaps \/ SaveCommits \/ StepFails
  BY <1>4, SaveSyncsKeepsInv, SaveSwapsKeepsInv, SaveCommitsKeepsInv,
     StepFailsKeepsInv
<1>5. CASE Truncate \/ GcBlocks
  BY <1>5, TruncateKeepsInv, GcBlocksKeepsInv
<1>6. CASE MaterializeAll
  BY <1>6, MaterializeKeepsInv DEF MaterializeAll
<1>7. CASE MaterializeFails
  <2>1. PICK done \in SUBSET Moved : Materialize(done, "idle")
    BY <1>7 DEF MaterializeFails
  <2> QED BY <2>1, MaterializeKeepsInv
<1>8. CASE PowerFails \/ Load \/ Format
  BY <1>8, PowerFailsKeepsInv, LoadKeepsInv, FormatKeepsInv
<1>9. CASE LoadRefuses \/ UNCHANGED vars
  BY <1>9, StutterKeepsInv DEF LoadRefuses
<1> QED BY <1>1, <1>2, <1>3, <1>4, <1>5, <1>6, <1>7, <1>8, <1>9 DEF Next

\* The inductive invariant of NyFS: where a payload is that the metadata or a
\* save relies on, what was given up, and what each stage of an operation has
\* achieved.
THEOREM NyInvariant == Spec => []NyInv
<1>1. NyInv /\ [Next]_vars => NyInv'
  BY NyStepInv
<1> QED BY <1>1, NyInitInv, PTL DEF Spec

\* Every variable of nyfs.py stays in its range, and the scan cache lists only
\* records of journal.bin.
THEOREM NyTypeCorrect == Spec => []NyTypeOK
<1>1. NyInv => NyTypeOK
  BY DEF NyInv
<1> QED BY <1>1, NyInvariant, PTL

\* What a power failure leaves, at whatever step of save, compact_journal or
\* gc_blocks, lacks no referenced block but those that a save behind a torn
\* record, a compaction or collection before a save, or the reuse of a
\* reclaimed block has given up.
THEOREM LossStaysConfined == Spec => []LossIsConfined
<1>1. NyInv => LossIsConfined
  BY DEF NyInv
<1> QED BY <1>1, NyInvariant, PTL

\* Whenever _dirty is unset a restart reads back the snapshots in memory, and
\* the tree unless a read has cut it anew.
THEOREM CleanIsCommitted == Spec => []CleanMeansCommitted
<1>1. NyInv => CleanMeansCommitted
  BY DEF NyInv
<1> QED BY <1>1, NyInvariant, PTL

\* A referenced block that the next save skips survives a power failure, unless
\* it was given up.
THEOREM SkippingIsSafe == Spec => []SkippedAreDurable
<1>1. NyInv => SkippedAreDurable
  BY DEF NyInv
<1> QED BY <1>1, NyInvariant, PTL

----------------------------------------------------------------------------
(* NyFS implements DurableStore.                                            *)

LEMMA StoreInit == Init => Store!Init
<1> SUFFICES ASSUME Init PROVE Store!Init
  OBVIOUS
<1> QED BY DEF Init, Store!Init, Mem, Empty

\* Every change of the tree or the snapshots is a change of the store.
LEMMA ChangeMutates ==
  ASSUME NyInv, NyInv', NEW newTree, NEW newSnaps, Change(newTree, newSnaps)
  PROVE  Store!Mutate
<1>1. Mem \in Image /\ Mem # None /\ Mem' \in Image
  BY MemIsImage DEF NyInv, NyTypeOK, Mem, Image
<1>2. pc = "idle" /\ pc' = "idle" /\ metas' = metas /\ dirty' = TRUE
  BY DEF Change, disk
<1>3. metas = {meta}
  BY <1>2 DEF NyInv, Progress
<1> QED BY <1>1, <1>2, <1>3 DEF Store!Mutate, Store!Up

\* So is a read that cuts a file anew, although dirty stays.
LEMMA ReadMutates ==
  ASSUME NyInv, NyInv', Read
  PROVE  Store!Mutate
<1>1. Mem \in Image /\ Mem # None /\ Mem' \in Image
  BY MemIsImage DEF NyInv, NyTypeOK, Mem, Image
<1>2. /\ pc = "idle" /\ pc' = "idle" /\ metas' = metas
      /\ dirty' = dirty /\ recut' = ~ dirty
  BY DEF Read, disk
<1>3. metas = {meta} /\ dirty \in BOOLEAN
  BY <1>2 DEF NyInv, NyTypeOK, Progress
<1> QED BY <1>1, <1>2, <1>3 DEF Store!Mutate, Store!Up

\* Steps between which a restart would find the same.
LEMMA QuietStep ==
  ASSUME NyInv, pc # "down", pc' # "down",
         UNCHANGED <<tree, snaps, dirty, recut, metas>>
  PROVE  UNCHANGED Store!storeVars
BY MemoryKept DEF Store!storeVars

LEMMA SwapBeginsCommit ==
  ASSUME NyInv, SaveSwaps
  PROVE  Store!CommitBegins
<1>1. Mem' = Mem /\ Mem # None
  BY MemoryKept, MemIsImage DEF SaveSwaps, SwapIn, memory, NyInv
<1> QED BY <1>1 DEF SaveSwaps, SwapIn, memory, history, Store!CommitBegins, Store!Up

LEMMA CommitEndsCommit ==
  ASSUME NyInv, SaveCommits
  PROVE  Store!CommitEnds
<1>1. Mem' = Mem /\ Mem # None
  BY MemoryKept, MemIsImage DEF SaveCommits, NyInv
<1>2. meta = Mem /\ meta \in metas
  BY DEF SaveCommits, NyInv, Progress, NyTypeOK
<1>3. /\ pc # "down" /\ pc' # "down" /\ metas' = {meta}
      /\ UNCHANGED <<dirty, recut>> \/ (dirty' = FALSE /\ recut' = FALSE)
  BY DEF SaveCommits, Returns
<1>4. (~ dirty' /\ ~ recut') \in {(~ dirty /\ ~ recut), TRUE}
  BY <1>3
<1> QED BY <1>1, <1>2, <1>3, <1>4 DEF Store!CommitEnds, Store!Up

\* A compaction inside a save lets the save return; one outside is silent.
LEMMA TruncateEndsCommit ==
  ASSUME NyInv, Truncate
  PROVE  Store!CommitEnds \/ UNCHANGED Store!storeVars
<1>1. Mem' = Mem /\ Mem # None
  BY MemoryKept, MemIsImage DEF Truncate, Truncated, NyInv
<1>2. pc = "moved" /\ pc' = "idle" /\ metas' = metas /\ metas = {meta}
  BY DEF Truncate, Truncated, NyInv, Progress
<1>3. CASE saving
  <2>1. meta = Mem /\ dirty' = FALSE /\ recut' = FALSE
    BY <1>2, <1>3 DEF Truncate, Truncated, NyInv, Progress
  <2> QED BY <1>1, <1>2, <2>1 DEF Store!CommitEnds, Store!Up
<1>4. CASE ~ saving
  <2>1. dirty' = dirty /\ recut' = recut
    BY <1>4 DEF Truncate, Truncated, NyInv, NyTypeOK
  <2> QED BY <1>1, <1>2, <2>1 DEF Store!storeVars
<1> QED BY <1>3, <1>4

LEMMA FailureFails ==
  ASSUME NyInv, PowerFails
  PROVE  Store!PowerFails
<1>1. Mem # None
  BY MemIsImage DEF NyInv
<1> QED BY <1>1 DEF PowerFails, Store!PowerFails, Store!Up

LEMMA LoadRestarts ==
  ASSUME NyInv, Load
  PROVE  Store!Restart
<1>1. meta \in Image /\ metas = {meta} /\ metas' = metas
  BY DEF Load, disk, NyInv, NyTypeOK, Progress
<1>2. Mem' = meta
  BY <1>1 DEF Load, Mem, Image
<1> QED BY <1>1, <1>2 DEF Load, Store!Restart, Store!Up

LEMMA FormatRestarts ==
  ASSUME NyInv, Format
  PROVE  Store!Restart
<1>1. Mem' = Empty /\ metas = {None} /\ metas' = metas
  BY MemoryKept DEF Format, memory, disk, NyInv, Progress
<1> QED BY <1>1 DEF Format, memory, Store!Restart, Store!Up

LEMMA StoreStep ==
  ASSUME NyInv, NyInv', [Next]_vars
  PROVE  [Store!Next]_(Store!storeVars)
<1>1. CASE Write \/ Rewrite \/ Unlink \/ CreateSnapshot \/ RestoreSnapshot
             \/ DeleteSnapshot
  <2>1. PICK newTree, newSnaps : Change(newTree, newSnaps)
    BY <1>1 DEF Write, Rewrite, Unlink, CreateSnapshot, RestoreSnapshot,
                DeleteSnapshot
  <2> QED BY <2>1, ChangeMutates DEF Store!Next
<1>2. CASE Read
  BY <1>2, ReadMutates DEF Store!Next
<1>3. CASE SaveAppends \/ SaveAppendsNothing \/ SaveAppendFails
  <2>1. pc = "idle" /\ pc' # "down" /\ UNCHANGED <<memory, metas, recut>>
    BY <1>3 DEF SaveAppends, SaveAppendsNothing, SaveAppendFails, SaveStarts
  <2> QED BY <2>1, QuietStep DEF memory
<1>4. CASE SaveSyncs \/ StepFails \/ GcBlocks
  BY <1>4, QuietStep DEF SaveSyncs, StepFails, GcBlocks, memory, disk, history
<1>5. CASE MaterializeAll \/ MaterializeFails
  <2>1. /\ pc # "down" /\ pc' \in {"moved", "idle"}
        /\ UNCHANGED <<memory, metas, recut>>
    BY <1>5 DEF MaterializeAll, MaterializeFails, Materialize, history
  <2> QED BY <2>1, QuietStep DEF memory
<1>6. CASE SaveSwaps \/ SaveCommits \/ Truncate
  BY <1>6, SwapBeginsCommit, CommitEndsCommit, TruncateEndsCommit DEF Store!Next
<1>7. CASE PowerFails \/ Load \/ Format
  BY <1>7, FailureFails, LoadRestarts, FormatRestarts DEF Store!Next
<1>8. CASE LoadRefuses \/ UNCHANGED vars
  BY <1>8, MemoryKept DEF LoadRefuses, vars, Store!storeVars
<1> QED BY <1>1, <1>2, <1>3, <1>4, <1>5, <1>6, <1>7, <1>8 DEF Next

\* save is atomic and a restart reads back what was last committed: NyFS,
\* journal, compaction, collection and failures, implements DurableStore.
THEOREM NyFSIsDurable == Spec => StoreSpec
<1>1. NyInv /\ NyInv' /\ [Next]_vars => [Store!Next]_(Store!storeVars)
  BY StoreStep
<1> QED BY <1>1, StoreInit, NyInvariant, PTL DEF Spec, StoreSpec, Store!Spec

----------------------------------------------------------------------------
(* A snapshot that every restart would find.                                *)

Shows(table, s, blocks) == s \in DOMAIN table /\ table[s] = blocks

\* Snapshot s has these blocks in memory and in whatever a failure may leave,
\* none of them is given up and every one is durable.
Saved(s, blocks) ==
  /\ pc # "down" => Shows(snaps, s, blocks)
  /\ \A m \in metas : m # None /\ Shows(m.snaps, s, blocks)
  /\ blocks \cap doomed = {}
  /\ \A j \in journals : blocks \subseteq (bins \ loose) \cup j.ids

Retaken(s) == CreateSnapshot /\ snaps'[s] # snaps[s]
Deleted(s) == DeleteSnapshot /\ s \notin DOMAIN snaps'

\* What is up shows the snapshot still, and what comes up shows it again.
LEMMA MemoryShows ==
  ASSUME NyInv, [Next]_vars, NEW s, NEW blocks, Saved(s, blocks),
         ~ Retaken(s), ~ Deleted(s), pc' # "down"
  PROVE  Shows(snaps', s, blocks)
<1>1. CASE UNCHANGED snaps /\ pc # "down"
  BY <1>1 DEF Saved
<1>2. CASE CreateSnapshot
  BY <1>2 DEF CreateSnapshot, Change, Retaken, Saved, Shows
<1>3. CASE DeleteSnapshot
  BY <1>3 DEF DeleteSnapshot, Change, Deleted, Saved, Shows
<1>4. CASE Load
  <2>1. meta \in metas /\ snaps' = meta.snaps
    BY <1>4 DEF Load, NyInv, NyTypeOK
  <2> QED BY <2>1 DEF Saved
<1>5. ~ Format
  BY DEF Format, Saved, NyInv, NyTypeOK
<1>6. CASE LoadRefuses \/ UNCHANGED vars
  BY <1>6 DEF LoadRefuses, vars, Saved
<1>7. CASE Write \/ Read \/ Rewrite \/ Unlink \/ RestoreSnapshot
  BY <1>1, <1>7 DEF Write, Read, Rewrite, Unlink, RestoreSnapshot, Change
<1>8. CASE SaveAppends \/ SaveAppendsNothing \/ SaveAppendFails \/ SaveSyncs
             \/ SaveSwaps \/ SaveCommits \/ StepFails
  BY <1>1, <1>8 DEF SaveAppends, SaveAppendsNothing, SaveAppendFails, SaveStarts,
     SaveSyncs, SaveSwaps, SwapIn, SaveCommits, StepFails, memory
<1>9. CASE MaterializeAll \/ MaterializeFails \/ Truncate \/ GcBlocks
  BY <1>1, <1>9 DEF MaterializeAll, MaterializeFails, Materialize, Truncate,
     Truncated, GcBlocks, memory
<1>10. ~ PowerFails
  BY DEF PowerFails
<1> QED BY <1>2, <1>3, <1>4, <1>5, <1>6, <1>7, <1>8, <1>9, <1>10 DEF Next

\* What a failure may leave shows it: a new image is the one in memory.
LEMMA MetadataShow ==
  ASSUME NyInv, [Next]_vars, NEW s, NEW blocks, Saved(s, blocks)
  PROVE  \A m \in metas' : m # None /\ Shows(m.snaps, s, blocks)
<1>1. CASE SaveSwaps
  <2>1. metas' = metas \cup {Mem} /\ Shows(snaps, s, blocks)
    BY <1>1 DEF SaveSwaps, SwapIn, Saved
  <2>2. Mem.snaps = snaps /\ Mem # None
    BY MemIsImage DEF Mem, NyInv
  <2> QED BY <2>1, <2>2 DEF Saved
<1>2. CASE SaveCommits \/ PowerFails
  <2>1. metas' \subseteq metas
    BY <1>2 DEF SaveCommits, PowerFails, NyInv, NyTypeOK
  <2> QED BY <2>1 DEF Saved
<1>3. CASE UNCHANGED metas
  BY <1>3 DEF Saved
<1>4. CASE Write \/ Read \/ Rewrite \/ Unlink \/ CreateSnapshot \/ RestoreSnapshot
             \/ DeleteSnapshot
  BY <1>3, <1>4 DEF Write, Read, Rewrite, Unlink, CreateSnapshot, RestoreSnapshot,
     DeleteSnapshot, Change, disk
<1>5. CASE SaveAppends \/ SaveAppendsNothing \/ SaveAppendFails \/ SaveSyncs
             \/ StepFails
  BY <1>3, <1>5 DEF SaveAppends, SaveAppendsNothing, SaveAppendFails, SaveStarts,
     SaveSyncs, StepFails, disk
<1>6. CASE MaterializeAll \/ MaterializeFails \/ Truncate \/ GcBlocks \/ Load
             \/ LoadRefuses \/ Format \/ UNCHANGED vars
  BY <1>3, <1>6 DEF MaterializeAll, MaterializeFails, Materialize, Truncate,
     Truncated, GcBlocks, Load, LoadRefuses, Format, disk, vars
<1> QED BY <1>1, <1>2, <1>4, <1>5, <1>6 DEF Next

\* No step gives up a block of a saved snapshot: it is listed, so that no save
\* appends it; it is durable, so that it was not reclaimed; and memory
\* references it, so that no compaction or collection drops it.
LEMMA SavedIsNotGivenUp ==
  ASSUME NyInv, [Next]_vars, NEW s, NEW blocks, Saved(s, blocks)
  PROVE  blocks \cap doomed' = {}
<1>1. meta \in metas \ {None} /\ Shows(meta.snaps, s, blocks)
  BY DEF NyInv, NyTypeOK, Saved
<1>2. blocks \subseteq Refs(meta) /\ blocks \cap doomed = {}
  BY <1>1 DEF Refs, Shows, Saved
<1>3. pc # "down" => blocks \subseteq Live
  BY DEF Saved, Shows, Live, Refs, Mem
<1>4. blocks \cap Reclaimed = {}
  BY DEF Reclaimed, Saved
<1>5. CASE \E more : GiveUp(more) /\ more \subseteq Reclaimed
  BY <1>2, <1>4, <1>5 DEF GiveUp
<1>6. CASE Write \/ Read \/ Rewrite \/ Unlink \/ CreateSnapshot \/ RestoreSnapshot
             \/ DeleteSnapshot
  <2>1. CASE Read \/ Rewrite
    <3>1. PICK b : GiveUp({b} \cap Reclaimed)
      BY <2>1 DEF Read, Rewrite
    <3> QED BY <1>5, <3>1
  <2>2. CASE ~ (Read \/ Rewrite)
    <3>1. GiveUp({})
      BY <1>6, <2>2 DEF Write, Unlink, CreateSnapshot, RestoreSnapshot, DeleteSnapshot
    <3> QED BY <1>5, <3>1
  <2> QED BY <2>1, <2>2
<1>7. CASE SaveCommits \/ PowerFails
  BY <1>5, <1>7 DEF SaveCommits, PowerFails
<1>8. CASE SaveAppends
  <2>1. pc = "idle" /\ doomed' \subseteq doomed \cup NewRecords
    BY <1>8 DEF SaveAppends, SaveStarts
  <2>2. blocks \subseteq Seeded \cup bins
    BY <1>1, <1>2, <2>1 DEF NyInv, CommittedIsFound, CommittedIsListed, Seeded
  <2> QED BY <1>2, <2>1, <2>2 DEF NewRecords
<1>9. CASE Truncate \/ GcBlocks
  <2>1. pc # "down" /\ doomed' \subseteq doomed \cup Dropped
    BY <1>9 DEF Truncate, Truncated, GcBlocks
  <2> QED BY <1>2, <1>3, <2>1 DEF Dropped
<1>10. CASE Load \/ Format
  BY <1>10 DEF Load, Format
<1>11. CASE SaveAppendsNothing \/ SaveAppendFails \/ SaveSyncs \/ SaveSwaps \/ StepFails
              \/ MaterializeAll \/ MaterializeFails \/ LoadRefuses \/ UNCHANGED vars
  <2>1. UNCHANGED doomed
    BY <1>11 DEF SaveAppendsNothing, SaveAppendFails, SaveSyncs, SaveSwaps, SwapIn,
       StepFails, MaterializeAll, MaterializeFails, Materialize, LoadRefuses,
       history, vars
  <2> QED BY <1>2, <2>1
<1> QED BY <1>6, <1>7, <1>8, <1>9, <1>10, <1>11 DEF Next

\* Once save has returned, every snapshot of which no block is given up is saved
\* in this sense; so is one that load has just read (nyfs.py, save, _dirty).
CleanSavesSnapshots ==
  pc # "down" /\ ~ dirty =>
    \A s \in DOMAIN snaps : snaps[s] \cap doomed = {} => Saved(s, snaps[s])

\* Whenever _dirty is unset no failure loses a snapshot, unless a block of it
\* was given up (nyfs.py, save).
THEOREM SaveSavesSnapshots == Spec => []CleanSavesSnapshots
<1>1. NyInv => CleanSavesSnapshots
  <2> SUFFICES ASSUME NyInv, pc # "down", ~ dirty, NEW s \in DOMAIN snaps,
                      snaps[s] \cap doomed = {}
               PROVE  Saved(s, snaps[s])
    BY DEF CleanSavesSnapshots
  <2>1. snaps # NoSnaps
    BY DEF NoSnaps
  <2>2. \A m \in metas : m # None /\ m.snaps = snaps
    BY <2>1 DEF NyInv, CleanMeansCommitted
  <2>3. meta \in metas \ {None} /\ meta.snaps = snaps
    BY <2>2 DEF NyInv, NyTypeOK
  <2>4. snaps[s] \subseteq Refs(meta)
    BY <2>3 DEF Refs
  <2>5. \A j \in journals : Refs(meta) \subseteq (bins \ loose) \cup j.ids \cup doomed
    BY <2>3 DEF NyInv, LossIsConfined
  <2>6. \A j \in journals : snaps[s] \subseteq (bins \ loose) \cup j.ids
    BY <2>4, <2>5
  <2> QED BY <2>2, <2>6 DEF Saved, Shows
<1> QED BY <1>1, NyInvariant, PTL

\* A snapshot once saved stays as it was taken, its blocks durable, through
\* every change of the tree, later save, compaction, collection, failure and
\* restart, until it is itself taken anew or deleted (nyfs.py, create_snapshot
\* and delete_snapshot; gc_blocks must keep what only a snapshot references).
\* No sequence of calls gives one of its blocks up.
THEOREM SavedSnapshotsStay ==
  Spec => [][ \A s \in Snapshot, blocks \in SUBSET Block :
                Saved(s, blocks) /\ ~ Retaken(s) /\ ~ Deleted(s)
                  => Saved(s, blocks)' ]_vars
<1> DEFINE Stays == \A s \in Snapshot, blocks \in SUBSET Block :
                      Saved(s, blocks) /\ ~ Retaken(s) /\ ~ Deleted(s)
                        => Saved(s, blocks)'
<1>1. NyInv /\ NyInv' /\ [Next]_vars => [Stays]_vars
  <2> SUFFICES ASSUME NyInv, NyInv', [Next]_vars,
                      NEW s \in Snapshot, NEW blocks \in SUBSET Block,
                      Saved(s, blocks), ~ Retaken(s), ~ Deleted(s)
               PROVE  Saved(s, blocks)'
    OBVIOUS
  <2>1. \A m \in metas' : m # None /\ Shows(m.snaps, s, blocks)
    BY MetadataShow
  <2>2. blocks \cap doomed' = {}
    BY SavedIsNotGivenUp
  <2>3. ASSUME NEW j \in journals' PROVE blocks \subseteq (bins' \ loose') \cup j.ids
    <3>1. /\ meta' \in metas' \ {None} /\ Shows(meta'.snaps, s, blocks)
          /\ Refs(meta') \subseteq (bins' \ loose') \cup j.ids \cup doomed'
      BY <2>1 DEF NyInv, NyTypeOK, LossIsConfined
    <3>2. blocks \subseteq Refs(meta')
      BY <3>1 DEF Refs, Shows
    <3> QED BY <2>2, <3>1, <3>2
  <2>4. pc' # "down" => Shows(snaps', s, blocks)
    BY MemoryShows
  <2> QED BY <2>1, <2>2, <2>3, <2>4 DEF Saved, Shows
<1> HIDE DEF Stays
<1>2. Spec => [][Stays]_vars
  BY <1>1, NyInvariant, PTL DEF Spec
<1> QED BY <1>2 DEF Stays
=============================================================================
