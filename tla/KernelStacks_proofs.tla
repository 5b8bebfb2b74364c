------------------------- MODULE KernelStacks_proofs -------------------------
(***************************************************************************)
(* Proofs about KernelStacks, for every number of frames, every set of      *)
(* stack sizes and every table size: type correctness, stacks that stand    *)
(* apart behind their guard pages through reuse and absorption, released    *)
(* slots that re-map unless the machine is out of frames, and frames that   *)
(* have one use at a time and are never lost but with a dropped slot.       *)
(*                                                                         *)
(* The inductive invariant says where every slot's pages stand: mapped for  *)
(* a live slot, unmapped for a pooled one, and mapped up to the page that   *)
(* has been reached for the slot an operation works on.  A slot has one     *)
(* holder, and the page above it is no page of another.  A second one, that *)
(* rests on it, says of what kind every frame is.                           *)
(***************************************************************************)
EXTENDS KernelStacks, TLAPS, SequenceTheorems

SlotType == [at : Nat, pages : StackSizes]
OptFrame == {NoFrame} \cup 0 .. nextFrame - 1

MapJob == [op : {"task", "probe", "space"}, slot : SlotType, reused : BOOLEAN,
           pml4 : OptFrame, done : Nat, frame : OptFrame]
EndJob == [op : {"release", "free"}, slot : SlotType, private : SUBSET (0 .. nextFrame - 1),
           pml4 : OptFrame, done : Nat]

JobInv ==
  /\ job = Idle \/ job \in MapJob \/ job \in EndJob
  /\ job.op = "space" => job.pml4 # NoFrame
  /\ job.op = "free" => job.pml4 # NoFrame
  /\ job # Idle => job.done <= job.slot.pages
  /\ job \in MapJob /\ job.frame # NoFrame => job.done < job.slot.pages

FrameInv ==
  /\ nextFrame \in 0 .. NumFrames
  /\ freeList \in Seq(0 .. nextFrame - 1)
  /\ DOMAIN pageFrame \subseteq 0 .. nextOffset - 1
  /\ \A p \in DOMAIN pageFrame : pageFrame[p] \in 0 .. nextFrame - 1
  /\ DOMAIN tableFrame \subseteq {TableOf(p) : p \in 0 .. RegionPages}
  /\ \A t \in DOMAIN tableFrame : tableFrame[t] \in 0 .. nextFrame - 1
  /\ nextOffset \in 0 .. RegionPages
  /\ pool \in Seq(SlotType)
  /\ stacks \subseteq [slot : SlotType, owner : {"task", "probe"}]
  /\ spaces \subseteq [pml4 : 0 .. nextFrame - 1, slot : SlotType,
                       private : SUBSET (0 .. nextFrame - 1)]
  /\ kernel \in {"runs", "panicked"}

\* Slots lie in the region, have one holder each, and keep their distance.
Separate(s, r) ==
  /\ Extent(s) \cap Extent(r) = {}
  /\ s.at + s.pages + 1 \notin PagesOf(r)

ApartInv ==
  /\ \A s \in Slots : s.at + s.pages + 1 <= nextOffset
  /\ \A s, r \in Slots : s # r => Separate(s, r)
  /\ \A a, b \in stacks : a.slot = b.slot => a = b
  /\ \A a, b \in spaces : a.slot = b.slot => a = b
  /\ \A a \in stacks, b \in spaces : a.slot # b.slot
  /\ \A s \in JobSlots : s \notin LiveSlots /\ s \notin Range(pool)
  /\ \A i, j \in DOMAIN pool : pool[i] = pool[j] => i = j

\* Where the pages of each slot stand.
MappedInv ==
  /\ \A s \in Slots : /\ s.at \notin DOMAIN pageFrame
                      /\ s.at + s.pages + 1 \notin DOMAIN pageFrame
  /\ \A s \in LiveSlots : PagesOf(s) \subseteq DOMAIN pageFrame
  /\ \A s \in Range(pool) : PagesOf(s) \cap DOMAIN pageFrame = {}
  /\ job \in MapJob => \A p \in PagesOf(job.slot) :
        p \in DOMAIN pageFrame <=> p <= job.slot.at + job.done
  /\ job.op = "release" => \A p \in PagesOf(job.slot) :
        p \in DOMAIN pageFrame <=> p > job.slot.at + job.done

StackInv == FrameInv /\ JobInv /\ ApartInv /\ MappedInv /\ PanicsOnlyDry

-----------------------------------------------------------------------------
(* Lemmas about what the operations are built from.                          *)

LEMMA SizesPositive ==
  ASSUME NEW s \in SlotType
  PROVE  /\ s.at \in Nat /\ s.pages \in Nat \ {0}
         /\ PagesOf(s) \subseteq Extent(s) /\ s.at \in Extent(s) /\ PagesOf(s) # {}
<1>0. StackSizes \subseteq Nat \ {0}
  BY StackAssumption
<1>1. s.at \in Nat /\ s.pages \in Nat /\ s.pages > 0
  <2>1. s.at \in Nat /\ s.pages \in StackSizes
    BY DEF SlotType
  <2>2. s.pages \in Nat \ {0}
    BY <1>0, <2>1
  <2>3. s.pages \in Nat /\ s.pages # 0
    BY <2>2
  <2> HIDE DEF SlotType
  <2> QED BY <2>1, <2>3
<1>2. s.at + 1 \in PagesOf(s) /\ PagesOf(s) \subseteq Extent(s) /\ s.at \in Extent(s)
  BY <1>1 DEF PagesOf, Extent
<1> QED BY <1>1, <1>2

\* Slots are of the slot type, whoever holds them.
LEMMA SlotsAreTyped ==
  ASSUME FrameInv, JobInv, NEW s \in Slots
  PROVE  s \in SlotType
<1>1. CASE s \in LiveSlots
  BY <1>1 DEF LiveSlots, FrameInv
<1>2. CASE s \in Range(pool)
  <2>1. PICK i \in DOMAIN pool : s = pool[i]
    BY <1>2 DEF Range
  <2>2. pool \in Seq(SlotType) /\ i \in 1 .. Len(pool)
    BY <2>1 DEF FrameInv
  <2> QED BY <2>1, <2>2
<1>3. CASE s \in JobSlots
  BY <1>3 DEF JobSlots, JobInv, MapJob, EndJob, Idle
<1> QED BY <1>1, <1>2, <1>3 DEF Slots

LEMMA FramesGrow ==
  \A a, b \in Nat : a <= b => 0 .. a - 1 \subseteq 0 .. b - 1
OBVIOUS

\* What is handed out is a frame of the machine.
LEMMA FrameIsTaken ==
  ASSUME FrameInv, AllocateFrame
  PROVE  /\ nextFrame' \in 0 .. NumFrames /\ nextFrame <= nextFrame'
         /\ freeList' \in Seq(0 .. nextFrame' - 1)
         /\ NextFree \in 0 .. nextFrame' - 1
<1>1. nextFrame \in Nat /\ NumFrames \in Nat /\ freeList \in Seq(0 .. nextFrame - 1)
  BY StackAssumption DEF FrameInv
<1>2. CASE freeList # <<>>
  <2>1. Len(freeList) \in Nat /\ Len(freeList) > 0
    BY <1>1, <1>2, EmptySeq
  <2>2. freeList[Len(freeList)] \in 0 .. nextFrame - 1
    BY <1>1, <2>1
  <2>3. SubSeq(freeList, 1, Len(freeList) - 1) \in Seq(0 .. nextFrame - 1)
    BY <1>1, <2>1, SubSeqProperties
  <2>4. freeList' = SubSeq(freeList, 1, Len(freeList) - 1) /\ nextFrame' = nextFrame
    BY <1>2 DEF AllocateFrame, Front
  <2>5. NextFree = freeList[Len(freeList)]
    BY <1>2 DEF NextFree, Last
  <2>6. nextFrame \in 0 .. NumFrames
    BY DEF FrameInv
  <2> QED BY <1>1, <2>2, <2>3, <2>4, <2>5, <2>6
<1>3. CASE freeList = <<>>
  <2>1. nextFrame < NumFrames /\ nextFrame' = nextFrame + 1 /\ freeList' = <<>>
    BY <1>3 DEF AllocateFrame, HasFrame
  <2> QED BY <1>1, <1>3, <2>1 DEF NextFree
<1> QED BY <1>2, <1>3

\* Taking a slot out of the pool leaves the others.
LEMMA RemovedFromPool ==
  ASSUME NEW S, NEW q \in Seq(S), NEW i \in DOMAIN q,
         \A j, k \in DOMAIN q : q[j] = q[k] => j = k
  PROVE  LET r == RemoveAt(q, i)
         IN /\ r \in Seq(S)
            /\ Range(r) = Range(q) \ {q[i]}
            /\ \A j, k \in DOMAIN r : r[j] = r[k] => j = k
<1> DEFINE r == RemoveAt(q, i)
<1>1. i \in 1 .. Len(q) /\ Len(q) \in Nat /\ DOMAIN q = 1 .. Len(q)
  OBVIOUS
<1>2. /\ SubSeq(q, 1, i - 1) \in Seq(S) /\ SubSeq(q, i + 1, Len(q)) \in Seq(S)
      /\ Len(SubSeq(q, 1, i - 1)) = i - 1
      /\ Len(SubSeq(q, i + 1, Len(q))) = Len(q) - i
      /\ \A k \in 1 .. i - 1 : SubSeq(q, 1, i - 1)[k] = q[k]
      /\ \A k \in 1 .. Len(q) - i : SubSeq(q, i + 1, Len(q))[k] = q[i + k]
  BY <1>1
<1>3. /\ r \in Seq(S) /\ Len(r) = Len(q) - 1
      /\ \A k \in 1 .. Len(q) - 1 : r[k] = IF k < i THEN q[k] ELSE q[k + 1]
  <2> DEFINE a == SubSeq(q, 1, i - 1)
             b == SubSeq(q, i + 1, Len(q))
  <2>1. r = a \o b
    BY DEF RemoveAt
  <2>2. a \in Seq(S) /\ b \in Seq(S) /\ Len(a) = i - 1 /\ Len(b) = Len(q) - i
    BY <1>2
  <2>3. /\ r \in Seq(S) /\ Len(r) = Len(q) - 1
        /\ \A k \in 1 .. Len(a) + Len(b) : r[k] = IF k <= Len(a) THEN a[k] ELSE b[k - Len(a)]
    <3>1. \A x, y \in Seq(S) : /\ x \o y \in Seq(S) /\ Len(x \o y) = Len(x) + Len(y)
             /\ \A k \in 1 .. Len(x) + Len(y) :
                   (x \o y)[k] = IF k <= Len(x) THEN x[k] ELSE y[k - Len(x)]
      BY ConcatProperties
    <3> HIDE DEF a, b, r
    <3>2. Len(a) + Len(b) = Len(q) - 1
      BY <1>1, <2>2
    <3> QED BY <2>1, <2>2, <3>1, <3>2
  <2>4. ASSUME NEW k \in 1 .. Len(q) - 1
        PROVE  r[k] = IF k < i THEN q[k] ELSE q[k + 1]
    <3> HIDE DEF a, b, r
    <3>1. \A l \in 1 .. i - 1 : a[l] = q[l]
      BY <1>2 DEF a
    <3>2. \A l \in 1 .. Len(q) - i : b[l] = q[i + l]
      BY <1>2 DEF b
    <3>0. Len(a) + Len(b) = Len(q) - 1 /\ Len(a) = i - 1 /\ i \in Nat /\ k \in Nat
      BY <1>1, <2>2
    <3>3. CASE k < i
      <4>1. k <= Len(a) /\ k \in 1 .. i - 1 /\ k \in 1 .. Len(a) + Len(b)
        BY <3>0, <3>3
      <4> QED BY <2>3, <3>1, <3>3, <4>1
    <3>4. CASE ~ (k < i)
      <4>1. k - (i - 1) \in 1 .. Len(q) - i /\ i + (k - (i - 1)) = k + 1 /\ ~ (k <= i - 1)
        BY <1>1, <3>4
      <4>2. r[k] = b[k - (i - 1)]
        BY <2>3, <3>0, <4>1
      <4> QED BY <3>2, <3>4, <4>1, <4>2
    <3> QED BY <3>3, <3>4
  <2> QED BY <2>3, <2>4
<1>4. DOMAIN r = 1 .. Len(q) - 1
  BY <1>1, <1>3
<1>5. Range(r) \subseteq Range(q) \ {q[i]}
  <2> SUFFICES ASSUME NEW k \in 1 .. Len(q) - 1 PROVE r[k] \in Range(q) \ {q[i]}
    BY <1>4 DEF Range
  <2>1. CASE k < i
    BY <1>1, <1>3, <2>1 DEF Range
  <2>2. CASE ~ (k < i)
    BY <1>1, <1>3, <2>2 DEF Range
  <2> QED BY <2>1, <2>2
<1>6. Range(q) \ {q[i]} \subseteq Range(r)
  <2> SUFFICES ASSUME NEW k \in 1 .. Len(q), q[k] # q[i] PROVE q[k] \in Range(r)
    BY <1>1 DEF Range
  <2>1. CASE k < i
    BY <1>1, <1>3, <1>4, <2>1 DEF Range
  <2>2. CASE ~ (k < i)
    <3>1. k - 1 \in 1 .. Len(q) - 1 /\ ~ (k - 1 < i) /\ (k - 1) + 1 = k
      BY <1>1, <2>2
    <3>2. r[k - 1] = q[k]
      BY <1>3, <3>1
    <3> QED BY <1>4, <3>1, <3>2 DEF Range
  <2> QED BY <2>1, <2>2
<1>7. ASSUME NEW j \in DOMAIN r, NEW k \in DOMAIN r, r[j] = r[k]
      PROVE  j = k
  <2> DEFINE at(x) == IF x < i THEN x ELSE x + 1
  <2>1. j \in 1 .. Len(q) - 1 /\ k \in 1 .. Len(q) - 1
    BY <1>4
  <2>2. at(j) \in DOMAIN q /\ at(k) \in DOMAIN q
    BY <1>1, <2>1
  <2>3. r[j] = q[at(j)] /\ r[k] = q[at(k)]
    BY <1>3, <2>1
  <2>4. at(j) = at(k)
    BY <1>7, <2>2, <2>3
  <2> QED BY <1>1, <2>1, <2>4
<1> QED BY <1>3, <1>5, <1>6, <1>7

\* What the operation under way is, told by its name.
LEMMA JobIsKnown ==
  ASSUME JobInv
  PROVE  /\ job = Idle <=> job.op = "idle"
         /\ job \in MapJob <=> IsMapping
         /\ job \in EndJob <=> job.op \in {"release", "free"}
         /\ JobSlots = IF job \in MapJob \/ job.op = "release" THEN {job.slot} ELSE {}
BY DEF JobInv, MapJob, EndJob, Idle, IsMapping, JobSlots

-----------------------------------------------------------------------------
(* The parts of the invariant that most steps leave alone.                   *)

\* Frames taken or given back, and nothing else.
LEMMA FramesMove ==
  ASSUME FrameInv, pageFrame' = pageFrame, tableFrame' = tableFrame,
         nextOffset' = nextOffset, pool' = pool, stacks' = stacks, spaces' = spaces,
         kernel' = kernel,
         nextFrame' \in 0 .. NumFrames, nextFrame <= nextFrame',
         freeList' \in Seq(0 .. nextFrame' - 1)
  PROVE  FrameInv'
<1>1. nextFrame \in Nat /\ nextFrame' \in Nat /\ NumFrames \in Nat
  BY StackAssumption DEF FrameInv
<1>3. 0 .. nextFrame - 1 \subseteq 0 .. nextFrame' - 1
  BY <1>1, FramesGrow
<1>5. spaces \subseteq [pml4 : 0 .. nextFrame' - 1, slot : SlotType,
                        private : SUBSET (0 .. nextFrame' - 1)]
  <2>1. spaces \subseteq [pml4 : 0 .. nextFrame - 1, slot : SlotType,
                          private : SUBSET (0 .. nextFrame - 1)]
    BY DEF FrameInv
  <2> HIDE DEF FrameInv
  <2> QED BY <1>3, <2>1
<1>6. \A p \in DOMAIN pageFrame : pageFrame[p] \in 0 .. nextFrame' - 1
  BY <1>3 DEF FrameInv
<1>7. \A t \in DOMAIN tableFrame : tableFrame[t] \in 0 .. nextFrame' - 1
  BY <1>3 DEF FrameInv
<1> QED BY <1>5, <1>6, <1>7 DEF FrameInv

\* The slots and their pages do not change, except that an operation may drop
\* its slot.
LEMMA SlotsStay ==
  ASSUME FrameInv, JobInv, ApartInv, MappedInv, UNCHANGED <<pageFrame, nextOffset, pool, stacks, spaces>>,
         JobSlots' \subseteq JobSlots,
         \/ job' \in MapJob' /\ job \in MapJob /\ job'.slot = job.slot /\ job'.done = job.done
         \/ ~ (job' \in MapJob') /\ job'.op # "release"
  PROVE  ApartInv' /\ MappedInv'
<1>1. LiveSlots' = LiveSlots /\ Slots' \subseteq Slots
  BY DEF LiveSlots, Slots
<1>2. ApartInv'
  BY <1>1 DEF ApartInv
<1>3. MappedInv'
  <2>1. \A s \in Slots' : /\ s.at \notin DOMAIN pageFrame'
                          /\ s.at + s.pages + 1 \notin DOMAIN pageFrame'
    BY <1>1 DEF MappedInv
  <2>2. /\ \A s \in LiveSlots' : PagesOf(s) \subseteq DOMAIN pageFrame'
        /\ \A s \in Range(pool') : PagesOf(s) \cap DOMAIN pageFrame' = {}
    BY <1>1 DEF MappedInv
  <2>3. job' \in MapJob' => \A p \in PagesOf(job'.slot) :
           p \in DOMAIN pageFrame' <=> p <= job'.slot.at + job'.done
    BY DEF MappedInv
  <2>4. job'.op # "release"
    BY DEF MapJob
  <2> QED BY <2>1, <2>2, <2>3, <2>4 DEF MappedInv
<1> QED BY <1>2, <1>3

-----------------------------------------------------------------------------
(* One lemma per step.                                                       *)


\* The kernel stops only when no frame is left.
LEMMA PanicStep ==
  ASSUME StackInv, RunsDry
  PROVE  StackInv'
<1>1. /\ nextFrame' = nextFrame /\ freeList' = freeList /\ pageFrame' = pageFrame
      /\ tableFrame' = tableFrame /\ nextOffset' = nextOffset /\ pool' = pool
      /\ stacks' = stacks /\ spaces' = spaces /\ kernel' = "panicked" /\ job' = Idle
      /\ ~HasFrame
  BY DEF RunsDry, Panic, frameVars, regionVars
<1>2. FrameInv'
  BY <1>1 DEF StackInv, FrameInv
<1>3. JobInv'
  BY <1>1 DEF JobInv, Idle, MapJob
<1>4. ~ (job' \in MapJob') /\ job'.op # "release" /\ JobSlots' = {}
  BY <1>1 DEF MapJob, Idle, JobSlots
<1>5. ApartInv' /\ MappedInv'
  BY <1>1, <1>4, SlotsStay DEF StackInv
<1>6. PanicsOnlyDry'
  BY <1>1 DEF PanicsOnlyDry, HasFrame
<1> QED BY <1>2, <1>3, <1>5, <1>6 DEF StackInv

LEMMA MapTakesFrameStep ==
  ASSUME StackInv, kernel = "runs", MapTakesFrame
  PROVE  StackInv'
<1>1. /\ pageFrame' = pageFrame /\ tableFrame' = tableFrame /\ nextOffset' = nextOffset
      /\ pool' = pool /\ stacks' = stacks /\ spaces' = spaces /\ kernel' = kernel
      /\ job' = [job EXCEPT !.frame = NextFree]
      /\ AllocateFrame /\ FrameInv /\ JobInv /\ ApartInv /\ MappedInv
  BY DEF MapTakesFrame, regionVars, StackInv
<1>2. /\ nextFrame' \in 0 .. NumFrames /\ nextFrame <= nextFrame'
      /\ freeList' \in Seq(0 .. nextFrame' - 1) /\ NextFree \in 0 .. nextFrame' - 1
  BY <1>1, FrameIsTaken
<1>3. FrameInv'
  BY <1>1, <1>2, FramesMove
<1>4. job \in MapJob /\ job.done # job.slot.pages
  BY <1>1, JobIsKnown DEF MapTakesFrame, NeedsFrame, IsWhole
<1>5. OptFrame \subseteq OptFrame'
  <2>1. nextFrame \in Nat /\ nextFrame' \in Nat
    BY <1>2, StackAssumption DEF FrameInv, StackInv
  <2> QED BY <1>2, <2>1, FramesGrow DEF OptFrame
<1>6. /\ job' \in MapJob' /\ job'.slot = job.slot /\ job'.done = job.done
      /\ job'.op = job.op /\ job'.pml4 = job.pml4
  BY <1>1, <1>2, <1>4, <1>5 DEF MapJob, OptFrame
<1>7. job.done <= job.slot.pages /\ job.done \in Nat /\ job.slot.pages \in Nat
  <2>1. job.slot \in SlotType /\ job.done \in Nat
    BY <1>4 DEF MapJob
  <2>2. job.slot.pages \in Nat
    BY <2>1, SizesPositive
  <2> QED BY <1>1, <1>4, <2>1, <2>2 DEF JobInv, MapJob, Idle
<1>8. job.done < job.slot.pages
  BY <1>4, <1>7
<1>9. JobInv'
  <2>1. job'.op \in {"task", "probe", "space"}
    BY <1>6 DEF MapJob
  <2>2. job.op = "space" => job.pml4 # NoFrame
    BY <1>1 DEF JobInv
  <2> QED BY <1>6, <1>7, <1>8, <2>1, <2>2 DEF JobInv
<1>10. JobSlots' = JobSlots
  BY <1>4, <1>6 DEF MapJob, JobSlots
<1>11. ApartInv' /\ MappedInv'
  BY <1>1, <1>4, <1>6, <1>10, SlotsStay
<1>12. PanicsOnlyDry'
  BY <1>1 DEF PanicsOnlyDry
<1> QED BY <1>3, <1>9, <1>11, <1>12 DEF StackInv

LEMMA MapMakesTableStep ==
  ASSUME StackInv, kernel = "runs", MapMakesTable
  PROVE  StackInv'
<1>1. /\ pageFrame' = pageFrame /\ nextOffset' = nextOffset
      /\ pool' = pool /\ stacks' = stacks /\ spaces' = spaces /\ kernel' = kernel
      /\ job' = job /\ tableFrame' = Put(tableFrame, TableOf(PageToMap), NextFree)
      /\ AllocateFrame /\ FrameInv /\ JobInv /\ ApartInv /\ MappedInv
  BY DEF MapMakesTable, StackInv
<1>2. /\ nextFrame' \in 0 .. NumFrames /\ nextFrame <= nextFrame'
      /\ freeList' \in Seq(0 .. nextFrame' - 1) /\ NextFree \in 0 .. nextFrame' - 1
  BY <1>1, FrameIsTaken
<1>3. nextFrame \in Nat /\ nextFrame' \in Nat
  BY <1>2, StackAssumption DEF FrameInv, StackInv
<1>4. 0 .. nextFrame - 1 \subseteq 0 .. nextFrame' - 1 /\ OptFrame \subseteq OptFrame'
  BY <1>2, <1>3, FramesGrow DEF OptFrame
<1>5. job \in MapJob /\ job.frame # NoFrame
  BY <1>1, JobIsKnown DEF MapMakesTable, NeedsTable
<1>6. job' \in MapJob'
  BY <1>1, <1>4, <1>5 DEF MapJob
<1>7. TableOf(PageToMap) \in {TableOf(p) : p \in 0 .. RegionPages}
  <2>1. job.slot \in JobSlots /\ job.slot \in Slots /\ job.slot \in SlotType
    BY <1>5 DEF MapJob, JobSlots, Slots
  <2>2. job.slot.at + job.slot.pages + 1 <= nextOffset
    BY <1>1, <2>1 DEF ApartInv
  <2>3. /\ job.slot.at \in Nat /\ job.slot.pages \in Nat /\ job.done \in Nat
        /\ nextOffset \in Nat /\ RegionPages \in Nat /\ nextOffset <= RegionPages
    BY <1>1, <1>5, <2>1, SizesPositive, StackAssumption DEF MapJob, FrameInv
  <2>4. job.done < job.slot.pages
    BY <1>1, <1>5 DEF JobInv
  <2>5. PageToMap \in 0 .. RegionPages
    BY <2>2, <2>3, <2>4 DEF PageToMap
  <2> QED BY <2>5
<1>8. FrameInv'
  <2>1. DOMAIN tableFrame' \subseteq {TableOf(p) : p \in 0 .. RegionPages}
    BY <1>1, <1>7 DEF Put, FrameInv
  <2>2. \A t \in DOMAIN tableFrame' : tableFrame'[t] \in 0 .. nextFrame' - 1
    BY <1>1, <1>2, <1>4 DEF Put, FrameInv
  <2>3. \A p \in DOMAIN pageFrame' : pageFrame'[p] \in 0 .. nextFrame' - 1
    BY <1>1, <1>4 DEF FrameInv
  <2>4. spaces \subseteq [pml4 : 0 .. nextFrame' - 1, slot : SlotType,
                          private : SUBSET (0 .. nextFrame' - 1)]
    <3>1. spaces \subseteq [pml4 : 0 .. nextFrame - 1, slot : SlotType,
                            private : SUBSET (0 .. nextFrame - 1)]
      BY <1>1 DEF FrameInv
    <3> QED BY <1>4, <3>1
  <2> QED BY <1>1, <1>2, <2>1, <2>2, <2>3, <2>4 DEF FrameInv
<1>9. JobInv'
  BY <1>1, <1>5, <1>6 DEF JobInv, MapJob, Idle
<1>10. ApartInv' /\ MappedInv'
  <2>1. JobSlots' = JobSlots
    BY <1>1 DEF JobSlots
  <2> QED BY <1>1, <1>5, <1>6, <2>1, SlotsStay
<1>11. PanicsOnlyDry'
  BY <1>1 DEF PanicsOnlyDry
<1> QED BY <1>8, <1>9, <1>10, <1>11 DEF StackInv

\* The next page of the slot, and its entry.
LEMMA MapSetsEntryStep ==
  ASSUME StackInv, kernel = "runs", MapSetsEntry
  PROVE  StackInv'
<1> DEFINE slot == job.slot
           page == PageToMap
<1>1. /\ pageFrame' = Put(pageFrame, PageToMap, job.frame)
      /\ job' = [job EXCEPT !.done = @ + 1, !.frame = NoFrame]
      /\ nextFrame' = nextFrame /\ freeList' = freeList /\ tableFrame' = tableFrame
      /\ nextOffset' = nextOffset /\ pool' = pool /\ stacks' = stacks /\ spaces' = spaces
      /\ kernel' = kernel /\ FrameInv /\ JobInv /\ ApartInv /\ MappedInv
  BY DEF MapSetsEntry, StackInv, frameVars
<1>2. job \in MapJob /\ job.frame # NoFrame
  BY <1>1, JobIsKnown DEF MapSetsEntry
<1>3. job.slot \in JobSlots /\ job.slot \in Slots /\ job.slot \in SlotType
  BY <1>2 DEF MapJob, JobSlots, Slots
<1>4. /\ slot.at \in Nat /\ slot.pages \in Nat /\ job.done \in Nat /\ nextOffset \in Nat
      /\ job.done < slot.pages /\ slot.at + slot.pages + 1 <= nextOffset
  <2>1. job.done < job.slot.pages
    BY <1>1, <1>2 DEF JobInv
  <2>2. nextOffset \in Nat
    BY <1>1, StackAssumption DEF FrameInv
  <2>3. job.slot.at + job.slot.pages + 1 <= nextOffset
    BY <1>1, <1>3 DEF ApartInv
  <2> QED BY <1>2, <1>3, <2>1, <2>2, <2>3, SizesPositive DEF MapJob
<1>5. /\ page = slot.at + 1 + job.done /\ page \in PagesOf(slot) /\ page \in 0 .. nextOffset - 1
      /\ page # slot.at /\ page # slot.at + slot.pages + 1
  BY <1>4 DEF PageToMap, PagesOf
<1>6. DOMAIN pageFrame' = DOMAIN pageFrame \cup {page}
  BY <1>1 DEF Put
<1>7. FrameInv'
  <2>1. DOMAIN pageFrame' \subseteq 0 .. nextOffset' - 1
    BY <1>1, <1>5, <1>6 DEF FrameInv
  <2>2. job.frame \in 0 .. nextFrame - 1
    BY <1>2 DEF MapJob, OptFrame
  <2>3. \A p \in DOMAIN pageFrame' : pageFrame'[p] \in 0 .. nextFrame' - 1
    BY <1>1, <2>2 DEF FrameInv, Put
  <2> QED BY <1>1, <2>1, <2>3 DEF FrameInv
<1>8. /\ job' \in MapJob' /\ job'.slot = slot /\ job'.done = job.done + 1
      /\ job'.frame = NoFrame /\ job'.op = job.op /\ job'.pml4 = job.pml4
  <2>1. OptFrame' = OptFrame /\ NoFrame \in OptFrame /\ job.done + 1 \in Nat
    BY <1>1, <1>4 DEF OptFrame
  <2> QED BY <1>1, <1>2, <2>1 DEF MapJob
<1>9. JobInv'
  <2>1. job'.done <= job'.slot.pages
    BY <1>4, <1>8
  <2>2. job.op \in {"task", "probe", "space"}
    BY <1>2 DEF MapJob
  <2>3. job.op = "space" => job.pml4 # NoFrame
    BY <1>1 DEF JobInv
  <2> QED BY <1>8, <2>1, <2>2, <2>3 DEF JobInv
<1>10. LiveSlots' = LiveSlots /\ JobSlots' = {slot} /\ JobSlots = {slot} /\ Slots' = Slots
  BY <1>1, <1>2, <1>8 DEF LiveSlots, JobSlots, Slots, MapJob
<1>11. ApartInv'
  BY <1>1, <1>10 DEF ApartInv
<1>12. MappedInv'
  <2>1. ASSUME NEW s \in Slots
        PROVE  s.at # page /\ s.at + s.pages + 1 # page
    <3>1. CASE s = slot
      BY <1>5, <3>1
    <3>2. CASE s # slot
      <4>1. Separate(s, slot)
        BY <1>1, <1>3, <3>2 DEF ApartInv
      <4>2. s \in SlotType
        BY <1>1, SlotsAreTyped
      <4>3. s.at \in Extent(s) /\ page \in Extent(slot)
        BY <1>3, <1>5, <4>2, SizesPositive
      <4> QED BY <1>5, <4>1, <4>3 DEF Separate
    <3> QED BY <3>1, <3>2
  <2>2. \A s \in Slots' : /\ s.at \notin DOMAIN pageFrame'
                          /\ s.at + s.pages + 1 \notin DOMAIN pageFrame'
    BY <1>1, <1>6, <1>10, <2>1 DEF MappedInv
  <2>3. \A s \in LiveSlots' : PagesOf(s) \subseteq DOMAIN pageFrame'
    BY <1>1, <1>6, <1>10 DEF MappedInv
  <2>4. ASSUME NEW s \in Range(pool)
        PROVE  PagesOf(s) \cap DOMAIN pageFrame' = {}
    <3>1. s # slot /\ s \in Slots
      BY <1>1, <1>3 DEF ApartInv, Slots
    <3>2. Separate(s, slot) /\ s \in SlotType
      BY <1>1, <1>3, <3>1, SlotsAreTyped DEF ApartInv
    <3>3. PagesOf(s) \subseteq Extent(s) /\ page \in Extent(slot)
      BY <1>3, <1>5, <3>2, SizesPositive
    <3>4. page \notin PagesOf(s)
      BY <3>2, <3>3 DEF Separate
    <3>5. PagesOf(s) \cap DOMAIN pageFrame = {}
      BY <1>1 DEF MappedInv
    <3> QED BY <1>6, <3>4, <3>5
  <2>5. ASSUME NEW p \in PagesOf(slot)
        PROVE  p \in DOMAIN pageFrame' <=> p <= slot.at + (job.done + 1)
    <3>1. p \in DOMAIN pageFrame <=> p <= slot.at + job.done
      BY <1>1, <1>2 DEF MappedInv
    <3>2. p \in Int
      BY <1>4 DEF PagesOf
    <3> QED BY <1>4, <1>5, <1>6, <3>1, <3>2
  <2>6. job'.op # "release"
    BY <1>8 DEF MapJob
  <2> QED BY <1>1, <1>8, <2>2, <2>3, <2>4, <2>5, <2>6 DEF MappedInv
<1>13. PanicsOnlyDry'
  BY <1>1 DEF PanicsOnlyDry
<1> QED BY <1>7, <1>9, <1>11, <1>12, <1>13 DEF StackInv

\* Only a lack of frames stops map_range: the page it has reached is not mapped.
LEMMA MapFailsStep ==
  ASSUME StackInv, kernel = "runs", MapFails
  PROVE  StackInv'
<1>1. /\ pageFrame' = pageFrame /\ tableFrame' = tableFrame /\ nextOffset' = nextOffset
      /\ pool' = pool /\ stacks' = stacks /\ spaces' = spaces /\ job' = Idle
      /\ nextFrame' = nextFrame /\ freeList' = freeList
      /\ kernel' \in {"runs", "panicked"}
      /\ FrameInv /\ JobInv /\ ApartInv /\ MappedInv
  BY DEF MapFails, frameVars, regionVars, StackInv
<1>2. ~IsAlreadyMapped
  <2> SUFFICES ASSUME IsAlreadyMapped PROVE FALSE
    OBVIOUS
  <2>1. job \in MapJob /\ job.frame # NoFrame /\ PageToMap \in DOMAIN pageFrame
    BY <1>1, JobIsKnown DEF IsAlreadyMapped
  <2>2. job.slot \in SlotType /\ job.done \in Nat /\ job.done < job.slot.pages
    BY <1>1, <2>1 DEF MapJob, JobInv
  <2>3. job.slot.at \in Nat /\ job.slot.pages \in Nat
    BY <2>2, SizesPositive
  <2>4. PageToMap \in PagesOf(job.slot) /\ ~ (PageToMap <= job.slot.at + job.done)
    BY <2>2, <2>3 DEF PageToMap, PagesOf
  <2> QED BY <1>1, <2>1, <2>4 DEF MappedInv
<1>3. ~HasFrame
  BY <1>2 DEF MapFails
<1>4. FrameInv'
  BY <1>1 DEF FrameInv
<1>5. JobInv'
  BY <1>1 DEF JobInv, Idle, MapJob
<1>6. ~ (job' \in MapJob') /\ job'.op # "release" /\ JobSlots' = {}
  BY <1>1 DEF MapJob, Idle, JobSlots
<1>7. ApartInv' /\ MappedInv'
  BY <1>1, <1>6, SlotsStay
<1>8. PanicsOnlyDry'
  BY <1>1, <1>3 DEF PanicsOnlyDry, HasFrame
<1> QED BY <1>4, <1>5, <1>7, <1>8 DEF StackInv

\* The finished slot passes from the operation to its owner.
LEMMA StackIsBuiltStep ==
  ASSUME StackInv, kernel = "runs", StackIsBuilt
  PROVE  StackInv'
<1> DEFINE slot == job.slot
<1>1. /\ pageFrame' = pageFrame /\ tableFrame' = tableFrame /\ nextOffset' = nextOffset
      /\ pool' = pool /\ kernel' = kernel /\ job' = Idle
      /\ nextFrame' = nextFrame /\ freeList' = freeList
      /\ FrameInv /\ JobInv /\ ApartInv /\ MappedInv
  BY DEF StackIsBuilt, frameVars, regionVars, StackInv
<1>2. job \in MapJob /\ job.done = slot.pages
  BY <1>1, JobIsKnown DEF StackIsBuilt, IsWhole
<1>3. slot \in JobSlots /\ slot \in Slots /\ slot \in SlotType
      /\ slot \notin LiveSlots /\ slot \notin Range(pool) /\ JobSlots = {slot}
  BY <1>1, <1>2 DEF MapJob, JobSlots, Slots, ApartInv
<1>4. PagesOf(slot) \subseteq DOMAIN pageFrame
  <2>1. slot.at \in Nat /\ slot.pages \in Nat
    BY <1>3, SizesPositive
  <2>2. \A p \in PagesOf(slot) : p <= slot.at + job.done
    BY <1>2, <2>1 DEF PagesOf
  <2> QED BY <1>1, <1>2, <2>2 DEF MappedInv
<1> DEFINE space == [pml4 |-> job.pml4, slot |-> slot, private |-> {}]
           stack == [slot |-> slot, owner |-> job.op]
<1>5. \/ /\ job.op = "space" /\ spaces' = spaces \cup {space} /\ stacks' = stacks
      \/ /\ job.op \in {"task", "probe"} /\ stacks' = stacks \cup {stack} /\ spaces' = spaces
  BY <1>2 DEF StackIsBuilt, MapJob
<1>6. FrameInv'
  <2>1. CASE job.op = "space" /\ spaces' = spaces \cup {space} /\ stacks' = stacks
    <3>1. job.pml4 \in 0 .. nextFrame - 1
      BY <1>1, <1>2, <2>1 DEF JobInv, MapJob, OptFrame
    <3>2. space \in [pml4 : 0 .. nextFrame - 1, slot : SlotType,
                     private : SUBSET (0 .. nextFrame - 1)]
      BY <1>3, <3>1
    <3> HIDE DEF space
    <3> QED BY <1>1, <2>1, <3>2 DEF FrameInv
  <2>2. CASE /\ job.op \in {"task", "probe"} /\ stacks' = stacks \cup {stack}
             /\ spaces' = spaces
    <3>1. stack \in [slot : SlotType, owner : {"task", "probe"}]
      BY <1>3, <2>2
    <3> HIDE DEF stack
    <3> QED BY <1>1, <2>2, <3>1 DEF FrameInv
  <2> QED BY <1>5, <2>1, <2>2
<1>7. JobInv'
  BY <1>1 DEF JobInv, Idle, MapJob
<1>8. LiveSlots' = LiveSlots \cup {slot} /\ JobSlots' = {} /\ Slots' = Slots
  <2>1. JobSlots' = {}
    BY <1>1 DEF JobSlots, Idle
  <2>2. LiveSlots' = LiveSlots \cup {slot}
    <3>1. space.slot = slot /\ stack.slot = slot
      OBVIOUS
    <3> HIDE DEF space, stack, slot
    <3>2. CASE spaces' = spaces \cup {space} /\ stacks' = stacks
      BY <3>1, <3>2 DEF LiveSlots
    <3>3. CASE stacks' = stacks \cup {stack} /\ spaces' = spaces
      BY <3>1, <3>3 DEF LiveSlots
    <3> QED BY <1>5, <3>2, <3>3
  <2> QED BY <1>1, <1>3, <2>1, <2>2 DEF Slots
<1>9. ApartInv'
  <2>1. (\A a \in stacks : a.slot # slot) /\ (\A b \in spaces : b.slot # slot)
    BY <1>3 DEF LiveSlots
  <2>2. /\ \A a, b \in stacks' : a.slot = b.slot => a = b
        /\ \A a, b \in spaces' : a.slot = b.slot => a = b
        /\ \A a \in stacks', b \in spaces' : a.slot # b.slot
    <3>0. space.slot = slot /\ stack.slot = slot
      OBVIOUS
    <3> HIDE DEF space, stack, slot
    <3> QED BY <1>1, <1>5, <2>1, <3>0 DEF ApartInv
  <2> QED BY <1>1, <1>8, <2>2 DEF ApartInv
<1>10. MappedInv'
  <2>1. ~ (job' \in MapJob') /\ job'.op # "release"
    BY <1>1 DEF MapJob, Idle
  <2> QED BY <1>1, <1>4, <1>8, <2>1 DEF MappedInv
<1>11. PanicsOnlyDry'
  BY <1>1 DEF PanicsOnlyDry, StackInv
<1> QED BY <1>6, <1>7, <1>9, <1>10, <1>11 DEF StackInv

LEMMA MapPrivateStep ==
  ASSUME StackInv, kernel = "runs", job = Idle, NEW space \in spaces, MapPrivate(space)
  PROVE  StackInv'
<1> DEFINE grown == [space EXCEPT !.private = @ \cup {NextFree}]
<1>1. /\ pageFrame' = pageFrame /\ tableFrame' = tableFrame /\ nextOffset' = nextOffset
      /\ pool' = pool /\ stacks' = stacks /\ kernel' = kernel /\ job' = job
      /\ spaces' = (spaces \ {space}) \cup {grown}
      /\ AllocateFrame /\ FrameInv /\ JobInv /\ ApartInv /\ MappedInv
  BY DEF MapPrivate, regionVars, StackInv
<1>2. /\ nextFrame' \in 0 .. NumFrames /\ nextFrame <= nextFrame'
      /\ freeList' \in Seq(0 .. nextFrame' - 1) /\ NextFree \in 0 .. nextFrame' - 1
  BY <1>1, FrameIsTaken
<1>3. 0 .. nextFrame - 1 \subseteq 0 .. nextFrame' - 1
  <2>1. nextFrame \in Nat /\ nextFrame' \in Nat
    BY <1>1, <1>2, StackAssumption DEF FrameInv
  <2> QED BY <1>2, <2>1, FramesGrow
<1>4. /\ space \in [pml4 : 0 .. nextFrame - 1, slot : SlotType,
                    private : SUBSET (0 .. nextFrame - 1)]
      /\ spaces \subseteq [pml4 : 0 .. nextFrame' - 1, slot : SlotType,
                           private : SUBSET (0 .. nextFrame' - 1)]
  <2>1. spaces \subseteq [pml4 : 0 .. nextFrame - 1, slot : SlotType,
                          private : SUBSET (0 .. nextFrame - 1)]
    BY <1>1 DEF FrameInv
  <2> QED BY <1>3, <2>1
<1>5. grown.slot = space.slot /\ grown \in [pml4 : 0 .. nextFrame' - 1, slot : SlotType,
                                            private : SUBSET (0 .. nextFrame' - 1)]
  BY <1>2, <1>3, <1>4
<1> HIDE DEF grown
<1>6. FrameInv'
  <2>1. \A p \in DOMAIN pageFrame' : pageFrame'[p] \in 0 .. nextFrame' - 1
    BY <1>1, <1>3 DEF FrameInv
  <2>2. \A t \in DOMAIN tableFrame' : tableFrame'[t] \in 0 .. nextFrame' - 1
    BY <1>1, <1>3 DEF FrameInv
  <2> QED BY <1>1, <1>2, <1>4, <1>5, <2>1, <2>2 DEF FrameInv
<1>7. JobInv'
  BY <1>1 DEF JobInv, Idle, MapJob
<1>8. LiveSlots' = LiveSlots /\ JobSlots' = {} /\ JobSlots = {} /\ Slots' = Slots
  <2>1. JobSlots' = {} /\ JobSlots = {}
    BY <1>1 DEF JobSlots, Idle
  <2>2. LiveSlots' = LiveSlots
    BY <1>1, <1>5 DEF LiveSlots
  <2> QED BY <1>1, <2>1, <2>2 DEF Slots
<1>9. ApartInv'
  <2>1. /\ \A a, b \in spaces' : a.slot = b.slot => a = b
        /\ \A a \in stacks', b \in spaces' : a.slot # b.slot
    BY <1>1, <1>5 DEF ApartInv
  <2> QED BY <1>1, <1>8, <2>1 DEF ApartInv
<1>10. MappedInv'
  <2>1. ~ (job' \in MapJob') /\ job'.op # "release"
    BY <1>1 DEF MapJob, Idle
  <2> QED BY <1>1, <1>8, <2>1 DEF MappedInv
<1>11. PanicsOnlyDry'
  BY <1>1 DEF PanicsOnlyDry
<1> QED BY <1>6, <1>7, <1>9, <1>10, <1>11 DEF StackInv

\* What is torn down keeps its slot until release is through with it.
LEMMA TeardownBegins ==
  ASSUME StackInv, kernel = "runs", job = Idle, NEW slot \in LiveSlots,
         NEW private \in SUBSET (0 .. nextFrame - 1), NEW pml4 \in OptFrame,
         UNCHANGED <<frameVars, regionVars, kernel>>, job' = Teardown(slot, private, pml4),
         stacks' \subseteq stacks, spaces' \subseteq spaces, LiveSlots' = LiveSlots \ {slot}
  PROVE  StackInv'
<1>1. /\ pageFrame' = pageFrame /\ tableFrame' = tableFrame /\ nextOffset' = nextOffset
      /\ pool' = pool /\ kernel' = kernel
      /\ nextFrame' = nextFrame /\ freeList' = freeList
      /\ FrameInv /\ JobInv /\ ApartInv /\ MappedInv
  BY DEF frameVars, regionVars, StackInv
<1>2. slot \in Slots /\ slot \in SlotType /\ PagesOf(slot) \subseteq DOMAIN pageFrame
  BY <1>1, SlotsAreTyped DEF Slots, MappedInv
<1>3. FrameInv'
  BY <1>1 DEF FrameInv
<1>4. /\ job' \in EndJob' /\ job'.op = "release" /\ job'.slot = slot /\ job'.done = 0
      /\ JobSlots' = {slot}
  BY <1>1, <1>2 DEF Teardown, EndJob, OptFrame, JobSlots
<1>5. JobInv'
  <2>1. 0 <= slot.pages
    BY <1>2, SizesPositive
  <2>2. ~ (job' \in MapJob')
    BY <1>4 DEF MapJob
  <2> QED BY <1>4, <2>1, <2>2 DEF JobInv
<1>6. Slots' = Slots
  BY <1>1, <1>4, JobIsKnown DEF Slots, JobSlots, Idle
<1>7. ApartInv'
  <2>1. slot \notin LiveSlots' /\ slot \notin Range(pool')
    <3>1. slot \notin Range(pool)
      <4>1. PagesOf(slot) # {}
        BY <1>2, SizesPositive
      <4> QED BY <1>1, <1>2, <4>1 DEF MappedInv
    <3> QED BY <1>1, <3>1
  <2>2. \A s \in JobSlots' : s \notin LiveSlots' /\ s \notin Range(pool')
    BY <1>4, <2>1
  <2> QED BY <1>1, <1>6, <2>2 DEF ApartInv
<1>8. MappedInv'
  <2>1. ASSUME NEW p \in PagesOf(slot)
        PROVE  p \in DOMAIN pageFrame' <=> p > slot.at + 0
    <3>1. slot.at \in Nat /\ slot.pages \in Nat
      BY <1>2, SizesPositive
    <3>2. p > slot.at + 0
      BY <3>1 DEF PagesOf
    <3> QED BY <1>1, <1>2, <3>2
  <2>2. ~ (job' \in MapJob')
    BY <1>4 DEF MapJob
  <2>3. \A s \in LiveSlots' : PagesOf(s) \subseteq DOMAIN pageFrame'
    BY <1>1 DEF MappedInv
  <2> QED BY <1>1, <1>4, <1>6, <2>1, <2>2, <2>3 DEF MappedInv
<1>9. PanicsOnlyDry'
  BY <1>1 DEF PanicsOnlyDry, StackInv
<1> QED BY <1>3, <1>5, <1>7, <1>8, <1>9 DEF StackInv

LEMMA DestroyStep ==
  ASSUME StackInv, kernel = "runs", job = Idle, NEW space \in spaces, Destroy(space)
  PROVE  StackInv'
<1>1. /\ UNCHANGED <<frameVars, regionVars, kernel>> /\ stacks' = stacks
      /\ spaces' = spaces \ {space}
      /\ job' = Teardown(space.slot, space.private, space.pml4)
      /\ FrameInv /\ ApartInv
  BY DEF Destroy, FreedByWalk, StackInv
<1>2. /\ space.private \in SUBSET (0 .. nextFrame - 1) /\ space.pml4 \in OptFrame
      /\ space.slot \in LiveSlots
  BY <1>1 DEF FrameInv, OptFrame, LiveSlots
<1>3. LiveSlots' = LiveSlots \ {space.slot}
  BY <1>1 DEF LiveSlots, ApartInv
<1>4. stacks' \subseteq stacks /\ spaces' \subseteq spaces
  BY <1>1
<1> QED BY <1>1, <1>2, <1>3, <1>4, TeardownBegins

LEMMA ReleaseProbeStep ==
  ASSUME StackInv, kernel = "runs", job = Idle, NEW stack \in stacks, ReleaseProbe(stack)
  PROVE  StackInv'
<1>1. /\ UNCHANGED <<frameVars, regionVars, kernel>> /\ spaces' = spaces
      /\ stacks' = stacks \ {stack}
      /\ job' = Teardown(stack.slot, {}, NoFrame)
      /\ FrameInv /\ ApartInv
  BY DEF ReleaseProbe, NoPml4, StackInv
<1>2. {} \in SUBSET (0 .. nextFrame - 1) /\ NoFrame \in OptFrame /\ stack.slot \in LiveSlots
  BY DEF OptFrame, LiveSlots
<1>3. LiveSlots' = LiveSlots \ {stack.slot}
  BY <1>1 DEF LiveSlots, ApartInv
<1>4. stacks' \subseteq stacks /\ spaces' \subseteq spaces
  BY <1>1
<1> QED BY <1>1, <1>2, <1>3, <1>4, TeardownBegins

\* release works its way up the slot.
LEMMA ReleaseUnmapsStep ==
  ASSUME StackInv, kernel = "runs", ReleaseUnmaps
  PROVE  StackInv'
<1> DEFINE slot == job.slot
           page == PageToMap
<1>1. /\ job.op = "release" /\ job.done < job.slot.pages
      /\ job' = [job EXCEPT !.done = @ + 1]
      /\ freeList' = freeList \o (IF page \in DOMAIN pageFrame
                                 THEN <<pageFrame[page]>> ELSE <<>>)
      /\ pageFrame' = [p \in DOMAIN pageFrame \ {page} |-> pageFrame[p]]
      /\ nextFrame' = nextFrame /\ tableFrame' = tableFrame
      /\ nextOffset' = nextOffset /\ pool' = pool /\ stacks' = stacks /\ spaces' = spaces
      /\ kernel' = kernel /\ FrameInv /\ JobInv /\ ApartInv /\ MappedInv
  BY DEF ReleaseUnmaps, StackInv, PagesToUnmap
<1>2. job \in EndJob /\ job # Idle
  BY <1>1, JobIsKnown DEF Idle
<1>3. slot \in JobSlots /\ slot \in Slots /\ slot \in SlotType /\ JobSlots = {slot}
  BY <1>1, <1>2 DEF EndJob, JobSlots, Slots
<1>4. /\ slot.at \in Nat /\ slot.pages \in Nat /\ job.done \in Nat
      /\ job.done < slot.pages
  BY <1>1, <1>2, <1>3, SizesPositive DEF EndJob
<1>5. page = slot.at + 1 + job.done /\ page \in PagesOf(slot)
  BY <1>4 DEF PageToMap, PagesOf
<1>6. DOMAIN pageFrame' = DOMAIN pageFrame \ {page}
  BY <1>1
<1>7. FrameInv'
  <2>1. freeList' \in Seq(0 .. nextFrame' - 1)
    <3> DEFINE freed == IF page \in DOMAIN pageFrame THEN <<pageFrame[page]>> ELSE <<>>
    <3>0. /\ freeList \in Seq(0 .. nextFrame - 1)
          /\ page \in DOMAIN pageFrame => pageFrame[page] \in 0 .. nextFrame - 1
      BY <1>1 DEF FrameInv
    <3>1. freed \in Seq(0 .. nextFrame - 1)
      <4> HIDE DEF page
      <4>1. CASE page \in DOMAIN pageFrame
        BY <3>0, <4>1
      <4>2. CASE page \notin DOMAIN pageFrame
        BY <4>2
      <4> QED BY <4>1, <4>2
    <3> HIDE DEF freed
    <3>2. freeList \o freed \in Seq(0 .. nextFrame - 1)
      BY <3>0, <3>1, ConcatProperties
    <3> QED BY <1>1, <3>2 DEF freed
  <2>2. DOMAIN pageFrame' \subseteq 0 .. nextOffset' - 1
    BY <1>1, <1>6 DEF FrameInv
  <2>3. \A p \in DOMAIN pageFrame' : pageFrame'[p] \in 0 .. nextFrame' - 1
    BY <1>1, <1>6 DEF FrameInv
  <2> QED BY <1>1, <2>1, <2>2, <2>3 DEF FrameInv
<1>8. /\ job' \in EndJob' /\ job'.slot = slot /\ job'.done = job.done + 1
      /\ job'.op = "release" /\ JobSlots' = {slot}
  <2>1. OptFrame' = OptFrame /\ job.done + 1 \in Nat
    BY <1>1, <1>4 DEF OptFrame
  <2>2. job' \in EndJob' /\ job'.slot = slot /\ job'.done = job.done + 1 /\ job'.op = "release"
    BY <1>1, <1>2, <2>1 DEF EndJob
  <2> QED BY <2>2 DEF JobSlots
<1>9. ~ (job' \in MapJob')
  BY <1>8 DEF MapJob
<1>10. JobInv'
  <2>1. job'.done <= job'.slot.pages
    BY <1>4, <1>8
  <2> QED BY <1>8, <1>9, <2>1 DEF JobInv
<1>11. LiveSlots' = LiveSlots /\ Slots' = Slots
  BY <1>1, <1>3, <1>8 DEF LiveSlots, Slots
<1>12. ApartInv'
  BY <1>1, <1>3, <1>8, <1>11 DEF ApartInv
<1>13. MappedInv'
  <2>1. ASSUME NEW s \in LiveSlots
        PROVE  PagesOf(s) \subseteq DOMAIN pageFrame'
    <3>1. s # slot /\ s \in Slots
      BY <1>1, <1>3 DEF ApartInv, Slots
    <3>2. Separate(s, slot) /\ s \in SlotType
      BY <1>1, <1>3, <3>1, SlotsAreTyped DEF ApartInv
    <3>3. PagesOf(s) \subseteq Extent(s) /\ page \in Extent(slot)
      BY <1>3, <1>5, <3>2, SizesPositive
    <3>4. page \notin PagesOf(s)
      BY <3>2, <3>3 DEF Separate
    <3>5. PagesOf(s) \subseteq DOMAIN pageFrame
      BY <1>1 DEF MappedInv
    <3> QED BY <1>6, <3>4, <3>5
  <2>2. ASSUME NEW p \in PagesOf(slot)
        PROVE  p \in DOMAIN pageFrame' <=> p > slot.at + (job.done + 1)
    <3>1. p \in DOMAIN pageFrame <=> p > slot.at + job.done
      BY <1>1 DEF MappedInv
    <3>2. p \in Int
      BY <1>4 DEF PagesOf
    <3> QED BY <1>4, <1>5, <1>6, <3>1, <3>2
  <2>3. \A s \in Slots' : /\ s.at \notin DOMAIN pageFrame'
                          /\ s.at + s.pages + 1 \notin DOMAIN pageFrame'
    BY <1>1, <1>6, <1>11 DEF MappedInv
  <2>4. \A s \in Range(pool') : PagesOf(s) \cap DOMAIN pageFrame' = {}
    BY <1>1, <1>6 DEF MappedInv
  <2> QED BY <1>8, <1>9, <1>11, <2>1, <2>2, <2>3, <2>4 DEF MappedInv
<1>14. PanicsOnlyDry'
  BY <1>1 DEF PanicsOnlyDry
<1> QED BY <1>7, <1>10, <1>12, <1>13, <1>14 DEF StackInv

\* The slot goes to the pool when its last page is unmapped.
LEMMA ReleasePoolsStep ==
  ASSUME StackInv, kernel = "runs", ReleasePools
  PROVE  StackInv'
<1> DEFINE slot == job.slot
<1>1. /\ job.op = "release" /\ job.done = job.slot.pages
      /\ job' = IF job.pml4 = NoFrame THEN Idle ELSE [job EXCEPT !.op = "free"]
      /\ pool' = Append(pool, slot)
      /\ nextFrame' = nextFrame /\ freeList' = freeList /\ tableFrame' = tableFrame
      /\ pageFrame' = pageFrame
      /\ nextOffset' = nextOffset /\ stacks' = stacks /\ spaces' = spaces
      /\ kernel' = kernel /\ FrameInv /\ JobInv /\ ApartInv /\ MappedInv
  BY DEF ReleasePools, StackInv, PagesToUnmap, NoPml4, frameVars
<1>2. job \in EndJob /\ job # Idle
  BY <1>1, JobIsKnown DEF Idle
<1>3. /\ slot \in JobSlots /\ slot \in Slots /\ slot \in SlotType /\ JobSlots = {slot}
      /\ slot \notin LiveSlots /\ slot \notin Range(pool)
  BY <1>1, <1>2 DEF EndJob, JobSlots, Slots, ApartInv
<1>4. PagesOf(slot) \cap DOMAIN pageFrame = {}
  <2>1. slot.at \in Nat /\ slot.pages \in Nat
    BY <1>3, SizesPositive
  <2>2. \A p \in PagesOf(slot) : ~ (p > slot.at + job.done)
    BY <1>1, <2>1 DEF PagesOf
  <2> QED BY <1>1, <2>2 DEF MappedInv
<1>5. pool \in Seq(SlotType) /\ pool' \in Seq(SlotType)
  BY <1>1, <1>3 DEF FrameInv
<1>6. /\ DOMAIN pool' = DOMAIN pool \cup {Len(pool) + 1} /\ pool'[Len(pool) + 1] = slot
      /\ \A i \in DOMAIN pool : pool'[i] = pool[i] /\ i # Len(pool) + 1
  <2> HIDE DEF slot
  <2> QED BY <1>1, <1>5
<1>7. Range(pool') = Range(pool) \cup {slot}
  <2> HIDE DEF slot
  <2> QED BY <1>6 DEF Range
<1>8. FrameInv'
  BY <1>1, <1>5 DEF FrameInv
<1>9. job' = Idle \/ (job' \in EndJob' /\ job'.op = "free" /\ job'.slot = slot
                      /\ job'.done = job.done /\ job'.pml4 # NoFrame)
  <2>1. OptFrame' = OptFrame
    BY <1>1 DEF OptFrame
  <2> QED BY <1>1, <1>2, <2>1 DEF EndJob
<1>10. ~ (job' \in MapJob') /\ job'.op # "release" /\ job'.op # "space" /\ JobSlots' = {}
  BY <1>9 DEF MapJob, Idle, JobSlots
<1>11. JobInv'
  <2>1. job' # Idle => job'.done <= job'.slot.pages
    BY <1>1, <1>2, <1>9 DEF JobInv
  <2>2. job'.op = "free" => job'.pml4 # NoFrame
    BY <1>9 DEF Idle
  <2> QED BY <1>9, <1>10, <2>1, <2>2 DEF JobInv
<1>12. LiveSlots' = LiveSlots /\ Slots' = Slots
  BY <1>1, <1>3, <1>7, <1>10 DEF LiveSlots, Slots
<1>13. ApartInv'
  <2>1. \A i \in DOMAIN pool : pool[i] # slot
    BY <1>3 DEF Range
  <2>2. \A i, j \in DOMAIN pool' : pool'[i] = pool'[j] => i = j
    BY <1>1, <1>6, <2>1 DEF ApartInv
  <2> QED BY <1>1, <1>10, <1>12, <2>2 DEF ApartInv
<1>14. MappedInv'
  BY <1>1, <1>4, <1>7, <1>10, <1>12 DEF MappedInv
<1>15. PanicsOnlyDry'
  BY <1>1 DEF PanicsOnlyDry
<1> QED BY <1>8, <1>11, <1>13, <1>14, <1>15 DEF StackInv

LEMMA FreesPrivateStep ==
  ASSUME StackInv, kernel = "runs", FreesPrivate
  PROVE  StackInv'
<1>1. PICK frame \in job.private : /\ DeallocateFrame(frame)
                                   /\ job' = [job EXCEPT !.private = @ \ {frame}]
  BY DEF FreesPrivate
<1>2. /\ job.op = "free" /\ nextFrame' = nextFrame /\ freeList' = Append(freeList, frame)
      /\ pageFrame' = pageFrame /\ tableFrame' = tableFrame /\ nextOffset' = nextOffset
      /\ pool' = pool /\ stacks' = stacks /\ spaces' = spaces /\ kernel' = kernel
      /\ FrameInv /\ JobInv /\ ApartInv /\ MappedInv
  BY <1>1 DEF FreesPrivate, DeallocateFrame, regionVars, StackInv
<1>3. job \in EndJob /\ job # Idle
  BY <1>2, JobIsKnown DEF Idle
<1>4. FrameInv'
  <2>1. frame \in 0 .. nextFrame - 1
    BY <1>3 DEF EndJob
  <2>2. freeList' \in Seq(0 .. nextFrame - 1)
    BY <1>2, <2>1 DEF FrameInv
  <2> QED BY <1>2, <2>2 DEF FrameInv
<1>5. /\ job' \in EndJob' /\ job'.op = "free" /\ job'.slot = job.slot
      /\ job'.done = job.done /\ job'.pml4 = job.pml4
  <2>1. OptFrame' = OptFrame
    BY <1>2 DEF OptFrame
  <2> QED BY <1>1, <1>2, <1>3, <2>1 DEF EndJob
<1>6. ~ (job' \in MapJob') /\ job'.op # "release" /\ JobSlots' = {}
  BY <1>5 DEF MapJob, JobSlots
<1>7. JobInv'
  BY <1>2, <1>3, <1>5, <1>6 DEF JobInv
<1>8. ApartInv' /\ MappedInv'
  BY <1>2, <1>6, SlotsStay
<1>9. PanicsOnlyDry'
  BY <1>2 DEF PanicsOnlyDry
<1> QED BY <1>4, <1>7, <1>8, <1>9 DEF StackInv

LEMMA FreesPml4Step ==
  ASSUME StackInv, kernel = "runs", FreesPml4
  PROVE  StackInv'
<1>1. /\ job.op = "free" /\ nextFrame' = nextFrame /\ freeList' = Append(freeList, job.pml4)
      /\ pageFrame' = pageFrame /\ tableFrame' = tableFrame /\ nextOffset' = nextOffset
      /\ pool' = pool /\ stacks' = stacks /\ spaces' = spaces /\ kernel' = kernel
      /\ job' = Idle /\ FrameInv /\ JobInv /\ ApartInv /\ MappedInv
  BY DEF FreesPml4, DeallocateFrame, regionVars, StackInv
<1>2. job.pml4 \in 0 .. nextFrame - 1
  BY <1>1, JobIsKnown DEF JobInv, EndJob, OptFrame
<1>3. FrameInv'
  <2>1. freeList' \in Seq(0 .. nextFrame - 1)
    BY <1>1, <1>2 DEF FrameInv
  <2> QED BY <1>1, <2>1 DEF FrameInv
<1>4. JobInv'
  BY <1>1 DEF JobInv, Idle, MapJob
<1>5. ~ (job' \in MapJob') /\ job'.op # "release" /\ JobSlots' = {}
  BY <1>1 DEF MapJob, Idle, JobSlots
<1>6. ApartInv' /\ MappedInv'
  BY <1>1, <1>5, SlotsStay
<1>7. PanicsOnlyDry'
  BY <1>1 DEF PanicsOnlyDry
<1> QED BY <1>3, <1>4, <1>6, <1>7 DEF StackInv

\* What is common to a slot taken from the pool and a slot carved anew: it is
\* nobody's, none of its pages is mapped, and it keeps its distance.
LEMMA MappingBegins ==
  ASSUME StackInv, kernel = "runs", job = Idle, NEW slot \in SlotType,
         NEW op \in {"task", "probe", "space"}, NEW reused \in BOOLEAN, NEW pml4 \in OptFrame',
         op = "space" => pml4 # NoFrame, job' = Mapping(op, slot, reused, pml4),
         pageFrame' = pageFrame, tableFrame' = tableFrame, stacks' = stacks,
         spaces' = spaces, kernel' = kernel,
         nextFrame' \in 0 .. NumFrames, nextFrame <= nextFrame',
         freeList' \in Seq(0 .. nextFrame' - 1),
         pool' \in Seq(SlotType), Range(pool') \subseteq Range(pool),
         \A i, j \in DOMAIN pool' : pool'[i] = pool'[j] => i = j,
         nextOffset' \in 0 .. RegionPages,
         DOMAIN pageFrame \subseteq 0 .. nextOffset' - 1,
         \A s \in Slots : s.at + s.pages + 1 <= nextOffset',
         slot.at + slot.pages + 1 <= nextOffset',
         slot \notin LiveSlots, slot \notin Range(pool'),
         \A s \in Slots : s # slot => Separate(s, slot) /\ Separate(slot, s),
         slot.at \notin DOMAIN pageFrame, slot.at + slot.pages + 1 \notin DOMAIN pageFrame,
         PagesOf(slot) \cap DOMAIN pageFrame = {}
  PROVE  StackInv'
<1>1. FrameInv /\ JobInv /\ ApartInv /\ MappedInv /\ JobSlots = {}
  BY JobIsKnown DEF StackInv, JobSlots, Idle
<1>2. 0 .. nextFrame - 1 \subseteq 0 .. nextFrame' - 1
  <2>1. nextFrame \in Nat /\ nextFrame' \in Nat
    BY <1>1, StackAssumption DEF FrameInv
  <2> QED BY <2>1, FramesGrow
<1>3. FrameInv'
  <2>1. \A p \in DOMAIN pageFrame' : pageFrame'[p] \in 0 .. nextFrame' - 1
    BY <1>1, <1>2 DEF FrameInv
  <2>2. \A t \in DOMAIN tableFrame' : tableFrame'[t] \in 0 .. nextFrame' - 1
    BY <1>1, <1>2 DEF FrameInv
  <2>3. spaces' \subseteq [pml4 : 0 .. nextFrame' - 1, slot : SlotType,
                           private : SUBSET (0 .. nextFrame' - 1)]
    <3>1. spaces \subseteq [pml4 : 0 .. nextFrame - 1, slot : SlotType,
                            private : SUBSET (0 .. nextFrame - 1)]
      BY <1>1 DEF FrameInv
    <3> QED BY <1>2, <3>1
  <2>4. /\ DOMAIN tableFrame \subseteq {TableOf(p) : p \in 0 .. RegionPages}
        /\ stacks \subseteq [slot : SlotType, owner : {"task", "probe"}]
        /\ kernel \in {"runs", "panicked"}
    BY <1>1 DEF FrameInv
  <2> QED BY <2>1, <2>2, <2>3, <2>4 DEF FrameInv
<1>4. /\ job' \in MapJob' /\ job'.slot = slot /\ job'.done = 0 /\ job'.op = op
      /\ job'.frame = NoFrame /\ job'.pml4 = pml4
  <2>1. NoFrame \in OptFrame'
    BY DEF OptFrame
  <2> QED BY <2>1 DEF Mapping, MapJob
<1>5. JobInv'
  <2>1. 0 <= slot.pages
    BY SizesPositive
  <2> QED BY <1>4, <2>1 DEF JobInv
<1>6. LiveSlots' = LiveSlots /\ JobSlots' = {slot} /\ Slots' \subseteq Slots \cup {slot}
      /\ slot \in Slots'
  <2>1. JobSlots' = {slot}
    BY <1>4 DEF JobSlots
  <2> QED BY <1>1, <2>1 DEF LiveSlots, Slots
<1>7. ApartInv'
  <2>1. \A s \in Slots' : s.at + s.pages + 1 <= nextOffset'
    BY <1>6
  <2>2. \A s, r \in Slots' : s # r => Separate(s, r)
    BY <1>1, <1>6 DEF ApartInv
  <2>3. /\ \A a, b \in stacks' : a.slot = b.slot => a = b
        /\ \A a, b \in spaces' : a.slot = b.slot => a = b
        /\ \A a \in stacks', b \in spaces' : a.slot # b.slot
    BY <1>1 DEF ApartInv
  <2>4. \A s \in JobSlots' : s \notin LiveSlots' /\ s \notin Range(pool')
    BY <1>6
  <2> QED BY <2>1, <2>2, <2>3, <2>4 DEF ApartInv
<1>8. MappedInv'
  <2>1. \A s \in Slots' : /\ s.at \notin DOMAIN pageFrame'
                          /\ s.at + s.pages + 1 \notin DOMAIN pageFrame'
    BY <1>1, <1>6 DEF MappedInv
  <2>2. ASSUME NEW p \in PagesOf(slot)
        PROVE  p \in DOMAIN pageFrame' <=> p <= slot.at + 0
    <3>1. slot.at \in Nat /\ slot.pages \in Nat
      BY SizesPositive
    <3>2. ~ (p <= slot.at + 0)
      BY <3>1 DEF PagesOf
    <3> QED BY <3>2
  <2>3. job'.op # "release"
    BY <1>4
  <2> QED BY <1>1, <1>4, <1>6, <2>1, <2>2, <2>3 DEF MappedInv
<1>9. PanicsOnlyDry'
  BY DEF PanicsOnlyDry
<1> QED BY <1>3, <1>5, <1>7, <1>8, <1>9 DEF StackInv

LEMMA ChooseSlotStep ==
  ASSUME StackInv, kernel = "runs", job = Idle, NEW n \in StackSizes,
         NEW op \in {"task", "probe", "space"}, NEW pml4 \in OptFrame',
         op = "space" => pml4 # NoFrame, ChooseSlot(n, op, pml4),
         nextFrame' \in 0 .. NumFrames, nextFrame <= nextFrame',
         freeList' \in Seq(0 .. nextFrame' - 1)
  PROVE  StackInv'
<1>1. /\ pageFrame' = pageFrame /\ tableFrame' = tableFrame /\ stacks' = stacks
      /\ spaces' = spaces /\ kernel' = kernel
      /\ FrameInv /\ JobInv /\ ApartInv /\ MappedInv
  BY DEF ChooseSlot, StackInv
<1>2. /\ nextOffset \in Nat /\ RegionPages \in Nat /\ nextOffset \in 0 .. RegionPages
      /\ pool \in Seq(SlotType) /\ DOMAIN pageFrame \subseteq 0 .. nextOffset - 1
      /\ \A i, j \in DOMAIN pool : pool[i] = pool[j] => i = j
      /\ \A s \in Slots : s.at + s.pages + 1 <= nextOffset
  BY <1>1, StackAssumption DEF FrameInv, ApartInv
<1>3. CASE ReuseSlot(n, op, pml4)
  <2>1. PICK i \in DOMAIN pool : /\ pool' = RemoveAt(pool, i) /\ nextOffset' = nextOffset
                                 /\ job' = Mapping(op, pool[i], TRUE, pml4)
    BY <1>3 DEF ReuseSlot, BestFit
  <2> DEFINE slot == pool[i]
  <2>2. slot \in Range(pool) /\ slot \in Slots /\ slot \in SlotType
    BY <1>2 DEF Range, Slots
  <2>3. /\ pool' \in Seq(SlotType) /\ Range(pool') = Range(pool) \ {slot}
        /\ \A j, k \in DOMAIN pool' : pool'[j] = pool'[k] => j = k
    <3>1. LET r == RemoveAt(pool, i)
          IN /\ r \in Seq(SlotType)
             /\ Range(r) = Range(pool) \ {pool[i]}
             /\ \A j, k \in DOMAIN r : r[j] = r[k] => j = k
      BY <1>2, RemovedFromPool
    <3> QED BY <2>1, <3>1
  <2>4. slot \notin LiveSlots
    <3>1. PagesOf(slot) # {}
      BY <2>2, SizesPositive
    <3> QED BY <1>1, <2>2, <3>1 DEF MappedInv
  <2>5. \A s \in Slots : s # slot => Separate(s, slot) /\ Separate(slot, s)
    BY <1>1, <2>2 DEF ApartInv
  <2>6. /\ slot.at \notin DOMAIN pageFrame /\ slot.at + slot.pages + 1 \notin DOMAIN pageFrame
        /\ PagesOf(slot) \cap DOMAIN pageFrame = {}
        /\ slot.at + slot.pages + 1 <= nextOffset
    BY <1>1, <2>2 DEF MappedInv, ApartInv
  <2> HIDE DEF slot
  <2>7. job' = Mapping(op, slot, TRUE, pml4)
    BY <2>1 DEF slot
  <2>8. /\ Range(pool') \subseteq Range(pool) /\ slot \notin Range(pool')
        /\ nextOffset' \in 0 .. RegionPages /\ DOMAIN pageFrame \subseteq 0 .. nextOffset' - 1
        /\ (\A s \in Slots : s.at + s.pages + 1 <= nextOffset')
        /\ slot.at + slot.pages + 1 <= nextOffset'
    BY <1>2, <2>1, <2>3, <2>6
  <2> QED BY <1>1, <2>2, <2>3, <2>4, <2>5, <2>6, <2>7, <2>8, MappingBegins
<1>4. CASE BumpSlot(n, op, pml4)
  <2> DEFINE slot == [at |-> nextOffset, pages |-> n]
  <2>1. /\ nextOffset' = nextOffset + n + 1 /\ nextOffset + n + 1 <= RegionPages
        /\ pool' = pool /\ job' = Mapping(op, slot, FALSE, pml4)
    BY <1>4 DEF BumpSlot
  <2>2. slot \in SlotType /\ n \in Nat /\ n > 0
    <3>1. slot \in SlotType
      BY <1>2 DEF SlotType
    <3>2. n \in Nat \ {0}
      BY StackAssumption
    <3> QED BY <3>1, <3>2
  <2>3. slot.at = nextOffset /\ slot.pages = n
    OBVIOUS
  <2> HIDE DEF slot
  <2>4. ASSUME NEW s \in Slots
        PROVE  /\ s # slot /\ Separate(s, slot) /\ Separate(slot, s)
               /\ s.at + s.pages + 1 <= nextOffset + n + 1
    <3>0. s \in SlotType
      BY <1>1, SlotsAreTyped
    <3>1. s \in SlotType /\ s.at + s.pages + 1 <= nextOffset
      BY <1>2, <3>0
    <3>2. s.at \in Nat /\ s.pages \in Nat
      BY <3>1, SizesPositive
    <3>3. s.at # slot.at
      BY <1>2, <2>3, <3>1, <3>2
    <3>4. \A e \in Extent(s) : e < nextOffset
      BY <1>2, <3>1, <3>2 DEF Extent
    <3>5. \A e \in Extent(slot) : e >= nextOffset
      BY <1>2, <2>2, <2>3 DEF Extent
    <3>6. Extent(s) \cap Extent(slot) = {}
      <4> SUFFICES ASSUME NEW e \in Extent(s), e \in Extent(slot) PROVE FALSE
        OBVIOUS
      <4>1. e \in Int /\ e < nextOffset /\ e >= nextOffset
        BY <3>2, <3>4, <3>5 DEF Extent
      <4> QED BY <1>2, <4>1
    <3>7. s.at + s.pages + 1 \notin PagesOf(slot)
      BY <1>2, <2>2, <2>3, <3>1, <3>2 DEF PagesOf
    <3>8. slot.at + slot.pages + 1 \notin PagesOf(s)
      BY <1>2, <2>2, <2>3, <3>1, <3>2 DEF PagesOf
    <3>9. s.at + s.pages + 1 <= nextOffset + n + 1
      BY <1>2, <2>2, <3>1, <3>2
    <3> QED BY <3>3, <3>6, <3>7, <3>8, <3>9 DEF Separate
  <2>5. slot \notin LiveSlots /\ slot \notin Range(pool')
    BY <2>1, <2>4 DEF Slots
  <2>6. \A p \in DOMAIN pageFrame : p \in Int /\ p < nextOffset
    BY <1>2
  <2>7. /\ slot.at \notin DOMAIN pageFrame /\ slot.at + slot.pages + 1 \notin DOMAIN pageFrame
        /\ PagesOf(slot) \cap DOMAIN pageFrame = {}
    <3>1. \A p \in PagesOf(slot) : p >= nextOffset
      BY <1>2, <2>2, <2>3 DEF PagesOf
    <3>2. /\ ~ (slot.at < nextOffset) /\ ~ (slot.at + slot.pages + 1 < nextOffset)
          /\ \A p \in PagesOf(slot) : ~ (p < nextOffset)
      BY <1>2, <2>2, <2>3, <3>1 DEF PagesOf
    <3> QED BY <2>6, <3>2
  <2>8. /\ nextOffset' \in 0 .. RegionPages /\ slot.at + slot.pages + 1 <= nextOffset'
        /\ \A p \in DOMAIN pageFrame : p \in 0 .. nextOffset' - 1
    <3> DEFINE top == nextOffset + n + 1
    <3>1. top \in 0 .. RegionPages /\ slot.at + slot.pages + 1 <= top
      BY <1>2, <2>1, <2>2, <2>3
    <3>2. \A p \in DOMAIN pageFrame : p \in 0 .. top - 1
      BY <1>2, <2>2
    <3> QED BY <2>1, <3>1, <3>2
  <2>9. /\ DOMAIN pageFrame \subseteq 0 .. nextOffset' - 1
        /\ \A s \in Slots : s.at + s.pages + 1 <= nextOffset'
        /\ \A s \in Slots : s # slot => Separate(s, slot) /\ Separate(slot, s)
        /\ pool' \in Seq(SlotType) /\ Range(pool') \subseteq Range(pool)
        /\ \A i, j \in DOMAIN pool' : pool'[i] = pool'[j] => i = j
    BY <1>2, <2>1, <2>4, <2>8
  <2> QED BY <1>1, <2>1, <2>2, <2>5, <2>7, <2>8, <2>9, MappingBegins
<1> QED BY <1>3, <1>4 DEF ChooseSlot

LEMMA AllocateStackStep ==
  ASSUME StackInv, kernel = "runs", job = Idle, NEW n \in StackSizes, NEW op,
         AllocateStack(n, op)
  PROVE  StackInv'
<1>1. /\ op \in {"task", "probe"} /\ ChooseSlot(n, op, NoFrame)
      /\ nextFrame' = nextFrame /\ freeList' = freeList
  BY DEF AllocateStack, NoPml4, frameVars
<1>2. op \in {"task", "probe", "space"} /\ (op = "space" => NoFrame # NoFrame)
  BY <1>1
<1>3. /\ nextFrame' \in 0 .. NumFrames /\ freeList' \in Seq(0 .. nextFrame' - 1)
      /\ nextFrame <= nextFrame'
  <2>1. nextFrame \in Nat /\ nextFrame <= nextFrame
    BY StackAssumption DEF StackInv, FrameInv
  <2> QED BY <1>1, <2>1 DEF StackInv, FrameInv
<1>4. NoFrame \in OptFrame'
  BY DEF OptFrame
<1> QED BY <1>1, <1>2, <1>3, <1>4, ChooseSlotStep

LEMMA NewSpaceStep ==
  ASSUME StackInv, kernel = "runs", job = Idle, NEW n \in StackSizes, NewSpace(n)
  PROVE  StackInv'
<1>1. ChooseSlot(n, "space", NextFree) /\ AllocateFrame /\ FrameInv
  BY DEF NewSpace, StackInv
<1>2. /\ nextFrame' \in 0 .. NumFrames /\ nextFrame <= nextFrame'
      /\ freeList' \in Seq(0 .. nextFrame' - 1) /\ NextFree \in 0 .. nextFrame' - 1
  BY <1>1, FrameIsTaken
<1>3. NextFree \in OptFrame' /\ NextFree # NoFrame
  <2>1. \A a, b \in Int : a \in 0 .. b - 1 => a # NoFrame
    BY DEF NoFrame
  <2>2. NextFree \in Int /\ nextFrame' \in Int
    BY <1>1, <1>2, StackAssumption DEF FrameInv
  <2> QED BY <1>2, <2>1, <2>2 DEF OptFrame
<1> QED BY <1>1, <1>2, <1>3, ChooseSlotStep

-----------------------------------------------------------------------------
LEMMA StackInvStarts ==
  ASSUME StackInit
  PROVE  StackInv
<1>1. FrameInv
  BY StackAssumption DEF StackInit, FrameInv
<1>2. JobInv /\ job = Idle
  BY DEF StackInit, JobInv, Idle, MapJob
<1>3. LiveSlots = {} /\ Range(pool) = {} /\ JobSlots = {} /\ Slots = {}
  BY <1>2 DEF StackInit, LiveSlots, JobSlots, Slots, Idle, Range
<1>4. ApartInv
  BY <1>3 DEF ApartInv, StackInit
<1>5. MappedInv
  BY <1>2, <1>3 DEF MappedInv, MapJob, Idle
<1> QED BY <1>1, <1>2, <1>4, <1>5 DEF StackInv, PanicsOnlyDry, StackInit

LEMMA StackInvStays ==
  ASSUME StackInv, [StackNext]_stackVars
  PROVE  StackInv'
<1>1. CASE UNCHANGED stackVars
  <2>1. /\ nextFrame' = nextFrame /\ freeList' = freeList /\ pageFrame' = pageFrame
        /\ tableFrame' = tableFrame /\ nextOffset' = nextOffset /\ pool' = pool
        /\ stacks' = stacks /\ spaces' = spaces /\ job' = job /\ kernel' = kernel
    BY <1>1 DEF stackVars
  <2>2. FrameInv' /\ JobInv'
    BY <2>1 DEF StackInv, FrameInv, JobInv, MapJob, EndJob, OptFrame
  <2>3. /\ LiveSlots' = LiveSlots /\ JobSlots' = JobSlots /\ Slots' = Slots
        /\ MapJob' = MapJob
    BY <2>1 DEF LiveSlots, JobSlots, Slots, MapJob, OptFrame
  <2>4. ApartInv' /\ MappedInv' /\ PanicsOnlyDry'
    BY <2>1, <2>3 DEF StackInv, ApartInv, MappedInv, PanicsOnlyDry, HasFrame
  <2> QED BY <2>2, <2>4 DEF StackInv
<1>2. ASSUME kernel = "runs", job = Idle, BeginsOperation
      PROVE  StackInv'
  BY <1>2, AllocateStackStep, NewSpaceStep, MapPrivateStep, DestroyStep, ReleaseProbeStep,
     PanicStep DEF BeginsOperation
<1>3. ASSUME kernel = "runs", ContinuesOperation
      PROVE  StackInv'
  BY <1>3, MapTakesFrameStep, MapMakesTableStep, MapSetsEntryStep, MapFailsStep,
     StackIsBuiltStep, ReleaseUnmapsStep, ReleasePoolsStep, FreesPrivateStep, FreesPml4Step
     DEF ContinuesOperation
<1> QED BY <1>1, <1>2, <1>3 DEF StackNext

\* The inductive invariant holds in every reachable state.
THEOREM StackInvariant == StackSpec => []StackInv
BY StackInvStarts, StackInvStays, PTL DEF StackSpec

\* Every frame in use or free was handed out by the bump, and every mapped page
\* lies below NEXT_OFFSET.
THEOREM StackTypes == StackSpec => []StackTypeOK
<1>1. StackInv => StackTypeOK
  <2> SUFFICES ASSUME StackInv PROVE StackTypeOK
    OBVIOUS
  <2>1. FrameInv /\ JobInv /\ ApartInv
    BY DEF StackInv
  <2>2. ASSUME NEW s \in Slots
        PROVE  s \in Slot
    <3>1. s \in SlotType /\ s.at + s.pages + 1 <= nextOffset
      BY <2>1, SlotsAreTyped DEF ApartInv
    <3>2. s.at \in Nat /\ s.pages \in Nat /\ nextOffset \in 0 .. RegionPages
      BY <2>1, <3>1, SizesPositive DEF FrameInv
    <3>3. s.at \in 0 .. RegionPages
      BY <3>1, <3>2, StackAssumption
    <3> QED BY <3>1, <3>3 DEF Slot, SlotType
  <2>3. pool \in Seq(Slot)
    <3>1. pool \in Seq(SlotType) /\ \A i \in DOMAIN pool : pool[i] \in Slots
      BY <2>1 DEF FrameInv, Slots, Range
    <3>2. \A i \in 1 .. Len(pool) : pool[i] \in Slot
      BY <2>2, <3>1
    <3> QED BY <3>1, <3>2
  <2>4. stacks \subseteq [slot : Slot, owner : {"task", "probe"}]
    <3>1. \A a \in stacks : a.slot \in Slot
      BY <2>2 DEF Slots, LiveSlots
    <3> QED BY <2>1, <3>1 DEF FrameInv
  <2>5. spaces \subseteq Space
    <3>1. \A a \in spaces : a.slot \in Slot
      BY <2>2 DEF Slots, LiveSlots
    <3>2. 0 .. nextFrame - 1 \subseteq Frame
      <4>1. nextFrame \in Nat /\ NumFrames \in Nat /\ nextFrame <= NumFrames
        BY <2>1, StackAssumption DEF FrameInv
      <4> QED BY <4>1 DEF Frame
    <3>3. spaces \subseteq [pml4 : 0 .. nextFrame - 1, slot : SlotType,
                            private : SUBSET (0 .. nextFrame - 1)]
      BY <2>1 DEF FrameInv
    <3> QED BY <3>1, <3>2, <3>3 DEF Space
  <2>6. Range(pageFrame) \subseteq 0 .. nextFrame - 1
        /\ Range(tableFrame) \subseteq 0 .. nextFrame - 1
    BY <2>1 DEF FrameInv, Range
  <2> QED BY <2>1, <2>3, <2>4, <2>5, <2>6 DEF StackTypeOK, FrameInv
<1> QED BY <1>1, StackInvariant, PTL

\* Guarded stacks stay apart through any sequence of allocations, failures,
\* releases, reuse and absorption: the guard pages of memory/kernel_stack.rs.
THEOREM StacksStayApart == StackSpec => []StacksStandApart
<1>1. StackInv => StacksStandApart
  BY DEF StackInv, ApartInv, MappedInv, StacksStandApart, Separate
<1> QED BY <1>1, StackInvariant, PTL

\* A released slot re-maps unless the machine is out of frames: the kernel
\* stops for no other reason.
THEOREM PanicsOnlyWhenDry == StackSpec => []PanicsOnlyDry
<1>1. StackInv => PanicsOnlyDry
  BY DEF StackInv
<1> QED BY <1>1, StackInvariant, PTL

\* Both together, as the run checks them.
THEOREM StackDisciplineHolds == StackSpec => []StackDiscipline
BY StacksStayApart, PanicsOnlyWhenDry, PTL DEF StackDiscipline

-----------------------------------------------------------------------------
(***************************************************************************)
(* Frames.  A frame that has been handed out is of one kind, and within the *)
(* kind it is one thing's.  A root table stays of its kind while its space  *)
(* is built, lives and is torn down, and so do the private frames, so that  *)
(* every step moves one frame at most.                                      *)
(***************************************************************************)

Kinds == {"free", "page", "table", "pml4", "private", "taken"}
JobPml4 == IF job.op # "idle" /\ job.pml4 # NoPml4 THEN {job.pml4} ELSE {}
JobPrivate == IF job.op \in {"release", "free"} THEN job.private ELSE {}
JobFrame == IF IsMapping /\ job.frame # NoFrame THEN {job.frame} ELSE {}

PrivateOf(set) == UNION {s.private : s \in set}

Held(k) ==
  CASE k = "free" -> Range(freeList)
    [] k = "page" -> Range(pageFrame)
    [] k = "table" -> Range(tableFrame)
    [] k = "pml4" -> {s.pml4 : s \in spaces} \cup JobPml4
    [] k = "private" -> PrivateOf(spaces) \cup JobPrivate
    [] k = "taken" -> JobFrame

KindsApart == \A k, l \in Kinds : k # l => Held(k) \cap Held(l) = {}

OnceEach ==
  /\ \A i, j \in DOMAIN freeList : freeList[i] = freeList[j] => i = j
  /\ \A p, q \in DOMAIN pageFrame : pageFrame[p] = pageFrame[q] => p = q
  /\ \A t, u \in DOMAIN tableFrame : tableFrame[t] = tableFrame[u] => t = u
  /\ \A a, b \in spaces : a.pml4 = b.pml4 => a = b
  /\ \A a, b \in spaces : a # b => a.private \cap b.private = {}
  /\ \A a \in spaces : a.pml4 \notin JobPml4
  /\ \A a \in spaces : a.private \cap JobPrivate = {}
  /\ job.op = "release" /\ job.pml4 = NoPml4 => job.private = {}
  /\ job.op \in {"task", "probe"} => job.pml4 = NoPml4

\* No slot has been dropped, and so no frame either.
Covered == 0 .. nextOffset - 1 = UNION {Extent(s) : s \in Slots}
NoneLost ==
  kernel = "runs" /\ Covered
    => \A f \in 0 .. nextFrame - 1 : \E k \in Kinds : f \in Held(k)

UsesInv == KindsApart /\ OnceEach /\ NoneLost

LEMMA HeldIs ==
  /\ Held("free") = Range(freeList) /\ Held("free")' = Range(freeList')
  /\ Held("page") = Range(pageFrame) /\ Held("page")' = Range(pageFrame')
  /\ Held("table") = Range(tableFrame) /\ Held("table")' = Range(tableFrame')
  /\ Held("pml4") = {s.pml4 : s \in spaces} \cup JobPml4
  /\ Held("pml4")' = {s.pml4 : s \in spaces'} \cup JobPml4'
  /\ Held("private") = PrivateOf(spaces) \cup JobPrivate
  /\ Held("private")' = PrivateOf(spaces') \cup JobPrivate'
  /\ Held("taken") = JobFrame /\ Held("taken")' = JobFrame'
BY DEF Held

LEMMA EntriesAreIn ==
  ASSUME NEW S, NEW q \in Seq(S)
  PROVE  \A i \in DOMAIN q : q[i] \in S
OBVIOUS

LEMMA InPrivateOf ==
  ASSUME NEW S, NEW f
  PROVE  f \in PrivateOf(S) <=> \E s \in S : f \in s.private
BY Zenon DEF PrivateOf

LEMMA HeldIsBelow ==
  ASSUME FrameInv, JobInv, NEW k \in Kinds
  PROVE  Held(k) \subseteq 0 .. nextFrame - 1
<1>1. CASE k = "free"
  <2>1. freeList \in Seq(0 .. nextFrame - 1)
    BY DEF FrameInv
  <2>2. \A i \in DOMAIN freeList : freeList[i] \in 0 .. nextFrame - 1
    BY <2>1, EntriesAreIn
  <2> QED BY <1>1, <2>2, HeldIs DEF Range
<1>2. CASE k = "page" \/ k = "table"
  BY <1>2, HeldIs DEF Range, FrameInv
<1>3. CASE k = "pml4"
  <2>1. JobPml4 \subseteq 0 .. nextFrame - 1
    BY DEF JobPml4, JobInv, MapJob, EndJob, OptFrame, NoPml4, Idle
  <2>2. \A s \in spaces : s.pml4 \in 0 .. nextFrame - 1
    BY DEF FrameInv
  <2> QED BY <1>3, <2>1, <2>2, HeldIs
<1>4. CASE k = "private"
  <2>1. JobPrivate \subseteq 0 .. nextFrame - 1
    BY DEF JobPrivate, JobInv, MapJob, EndJob, Idle
  <2>2. \A s \in spaces : s.private \subseteq 0 .. nextFrame - 1
    BY DEF FrameInv
  <2>3. ASSUME NEW f \in Held("private")
        PROVE  f \in 0 .. nextFrame - 1
    <3>0. Held("private") = PrivateOf(spaces) \cup JobPrivate
      BY HeldIs
    <3>1. f \in JobPrivate \/ \E s \in spaces : f \in s.private
      BY <3>0, InPrivateOf
    <3> QED BY <2>1, <2>2, <3>1
  <2> QED BY <1>4, <2>3
<1>5. CASE k = "taken"
  <2>1. JobFrame \subseteq 0 .. nextFrame - 1
    BY DEF JobFrame, IsMapping, JobInv, MapJob, EndJob, OptFrame, Idle
  <2> QED BY <1>5, <2>1, HeldIs
<1> QED BY <1>1, <1>2, <1>3, <1>4, <1>5 DEF Kinds

\* A list without repetitions loses its last entry.
LEMMA ListLosesLast ==
  ASSUME NEW S, NEW q \in Seq(S), q # <<>>,
         \A i, j \in DOMAIN q : q[i] = q[j] => i = j
  PROVE  /\ Range(Front(q)) = Range(q) \ {Last(q)} /\ Last(q) \in Range(q)
         /\ \A i, j \in DOMAIN Front(q) : Front(q)[i] = Front(q)[j] => i = j
<1> DEFINE r == SubSeq(q, 1, Len(q) - 1)
<1>1. PICK n \in Nat : n = Len(q)
  OBVIOUS
<1>2. n > 0 /\ DOMAIN q = 1 .. n
  BY <1>1, EmptySeq
<1>3. r \in Seq(S) /\ Len(r) = n - 1 /\ \A i \in 1 .. n - 1 : r[i] = q[i]
  BY <1>1, <1>2, SubSeqProperties
<1>4. Front(q) = r /\ Last(q) = q[n]
  BY <1>1 DEF Front, Last
<1>5. DOMAIN r = 1 .. n - 1
  BY <1>2, <1>3
<1> HIDE DEF r
<1>6. /\ n \in 1 .. n /\ 1 .. n - 1 \subseteq 1 .. n
      /\ \A i \in 1 .. n : i \in 1 .. n - 1 <=> i # n
  BY <1>2
<1>7. Range(r) = Range(q) \ {q[n]}
  BY <1>2, <1>3, <1>5, <1>6 DEF Range
<1>8. \A i, j \in DOMAIN r : r[i] = r[j] => i = j
  BY <1>2, <1>3, <1>5, <1>6
<1>9. q[n] \in Range(q)
  BY <1>2, <1>6 DEF Range
<1> QED BY <1>4, <1>7, <1>8, <1>9

\* And gains one that was not on it.
LEMMA ListGains ==
  ASSUME NEW S, NEW q \in Seq(S), NEW x \in S, x \notin Range(q),
         \A i, j \in DOMAIN q : q[i] = q[j] => i = j
  PROVE  /\ Range(Append(q, x)) = Range(q) \cup {x}
         /\ \A i, j \in DOMAIN Append(q, x) : Append(q, x)[i] = Append(q, x)[j] => i = j
<1> DEFINE r == Append(q, x)
<1>1. /\ Len(q) \in Nat /\ DOMAIN q = 1 .. Len(q) /\ DOMAIN r = 1 .. Len(q) + 1
      /\ \A i \in 1 .. Len(q) : r[i] = q[i]
      /\ r[Len(q) + 1] = x
  OBVIOUS
<1> HIDE DEF r
<1>2. \A i \in 1 .. Len(q) + 1 : i \in 1 .. Len(q) \/ i = Len(q) + 1
  BY <1>1
<1>3. 1 .. Len(q) \subseteq 1 .. Len(q) + 1 /\ Len(q) + 1 \in 1 .. Len(q) + 1
  BY <1>1
<1>4. Range(r) = Range(q) \cup {x}
  BY <1>1, <1>2, <1>3 DEF Range
<1>5. ASSUME NEW i \in 1 .. Len(q) + 1, NEW j \in 1 .. Len(q) + 1, r[i] = r[j]
      PROVE  i = j
  <2>1. \A k \in 1 .. Len(q) : q[k] # x
    BY <1>1 DEF Range
  <2> QED BY <1>1, <1>2, <1>5, <2>1
<1> QED BY <1>1, <1>4, <1>5 DEF r

\* A frame that is handed out leaves the free list, or was never in use.
LEMMA TakenFrame ==
  ASSUME FrameInv, JobInv, KindsApart, OnceEach, AllocateFrame
  PROVE  /\ Range(freeList') = Range(freeList) \ {NextFree}
         /\ \A i, j \in DOMAIN freeList' : freeList'[i] = freeList'[j] => i = j
         /\ \A k \in Kinds \ {"free"} : NextFree \notin Held(k)
         /\ \A f \in 0 .. nextFrame' - 1 : f \in 0 .. nextFrame - 1 \/ f = NextFree
<1>1. nextFrame \in Nat /\ freeList \in Seq(0 .. nextFrame - 1)
  BY StackAssumption DEF FrameInv
<1>2. CASE freeList # <<>>
  <2>1. freeList' = Front(freeList) /\ nextFrame' = nextFrame /\ NextFree = Last(freeList)
    BY <1>2 DEF AllocateFrame, NextFree
  <2>2. /\ Range(Front(freeList)) = Range(freeList) \ {Last(freeList)}
        /\ Last(freeList) \in Range(freeList)
        /\ \A i, j \in DOMAIN Front(freeList) :
              Front(freeList)[i] = Front(freeList)[j] => i = j
    BY <1>1, <1>2, ListLosesLast DEF OnceEach
  <2>3. \A k \in Kinds \ {"free"} : NextFree \notin Held(k)
    BY <2>1, <2>2, HeldIs DEF KindsApart, Kinds
  <2> QED BY <2>1, <2>2, <2>3
<1>3. CASE freeList = <<>>
  <2>1. freeList' = freeList /\ nextFrame' = nextFrame + 1 /\ NextFree = nextFrame
    BY <1>3 DEF AllocateFrame, NextFree
  <2>2. nextFrame \notin 0 .. nextFrame - 1
    BY <1>1
  <2>3. \A k \in Kinds : NextFree \notin Held(k)
    BY <2>1, <2>2, HeldIsBelow
  <2>4. "free" \in Kinds
    BY DEF Kinds
  <2>5. Range(freeList') = Range(freeList) \ {NextFree}
    BY <2>1, <2>3, <2>4, HeldIs
  <2>6. \A f \in 0 .. nextFrame' - 1 : f \in 0 .. nextFrame - 1 \/ f = NextFree
    BY <1>1, <2>1
  <2> QED BY <2>1, <2>3, <2>5, <2>6 DEF OnceEach
<1> QED BY <1>2, <1>3

\* Steps that hand nothing over keep the kinds apart.
LEMMA KindsStay ==
  ASSUME KindsApart, \A k \in Kinds : Held(k)' \subseteq Held(k)
  PROVE  KindsApart'
BY DEF KindsApart, Kinds

\* A frame that leaves one kind for another.
LEMMA KindChanges ==
  ASSUME KindsApart, NEW k \in Kinds, NEW l \in Kinds, k # l, NEW f,
         f \notin Held(k)', Held(k)' \subseteq Held(k),
         Held(l)' \subseteq Held(l) \cup {f},
         \A m \in Kinds \ {k, l} : Held(m)' \subseteq Held(m) /\ f \notin Held(m)
  PROVE  KindsApart'
<1> SUFFICES ASSUME NEW m \in Kinds, NEW n \in Kinds, m # n
             PROVE  Held(m)' \cap Held(n)' = {}
  BY DEF KindsApart
<1>1. Held(m) \cap Held(n) = {}
  BY DEF KindsApart
<1>2. CASE m = l
  <2>1. f \notin Held(n)' /\ Held(n)' \subseteq Held(n)
    BY <1>2
  <2> QED BY <1>1, <1>2, <2>1
<1>3. CASE n = l
  <2>1. f \notin Held(m)' /\ Held(m)' \subseteq Held(m)
    BY <1>3
  <2> QED BY <1>1, <1>3, <2>1
<1>4. CASE m # l /\ n # l
  <2>1. Held(m)' \subseteq Held(m) /\ Held(n)' \subseteq Held(n)
    BY <1>4
  <2> QED BY <1>1, <2>1
<1> QED BY <1>2, <1>3, <1>4

\* A frame is handed out for a purpose.
LEMMA TakeKeeps ==
  ASSUME FrameInv, JobInv, UsesInv, AllocateFrame, NEW l \in Kinds \ {"free"},
         Held(l)' = Held(l) \cup {NextFree},
         \A m \in Kinds \ {"free", l} : Held(m)' = Held(m),
         kernel' = "runs" /\ Covered' => kernel = "runs" /\ Covered
  PROVE  KindsApart' /\ NoneLost'
<1>1. /\ Range(freeList') = Range(freeList) \ {NextFree}
      /\ \A k \in Kinds \ {"free"} : NextFree \notin Held(k)
      /\ \A f \in 0 .. nextFrame' - 1 : f \in 0 .. nextFrame - 1 \/ f = NextFree
  BY TakenFrame DEF UsesInv
<1>2. Held("free")' = Held("free") \ {NextFree}
  BY <1>1, HeldIs
<1>3. KindsApart'
  <2>1. "free" \in Kinds /\ l # "free" /\ l \in Kinds
    BY DEF Kinds
  <2> QED BY <1>1, <1>2, <2>1, KindChanges DEF UsesInv
<1>4. NoneLost'
  <2> SUFFICES ASSUME kernel' = "runs", Covered', NEW f \in 0 .. nextFrame' - 1
               PROVE  \E k \in Kinds : f \in Held(k)'
    BY DEF NoneLost
  <2>1. CASE f = NextFree
    BY <2>1
  <2>2. CASE f # NextFree
    <3>1. PICK k \in Kinds : f \in Held(k)
      BY <1>1, <2>2 DEF UsesInv, NoneLost
    <3>2. f \in Held(k)'
      BY <1>2, <2>2, <3>1
    <3> QED BY <3>2
  <2> QED BY <2>1, <2>2
<1> QED BY <1>3, <1>4

\* A frame of one kind is put to another use, or given back.
LEMMA HandOverKeeps ==
  ASSUME UsesInv, NEW k \in Kinds, NEW l \in Kinds, k # l, NEW f \in Held(k),
         nextFrame' = nextFrame,
         Held(k)' = Held(k) \ {f}, Held(l)' = Held(l) \cup {f},
         \A m \in Kinds \ {k, l} : Held(m)' = Held(m),
         kernel' = "runs" /\ Covered' => kernel = "runs" /\ Covered
  PROVE  KindsApart' /\ NoneLost'
<1>1. \A m \in Kinds \ {k} : f \notin Held(m)
  BY DEF UsesInv, KindsApart
<1>2. KindsApart'
  <2>1. f \notin Held(k)' /\ Held(k)' \subseteq Held(k) /\ Held(l)' \subseteq Held(l) \cup {f}
    OBVIOUS
  <2>2. \A m \in Kinds \ {k, l} : Held(m)' \subseteq Held(m) /\ f \notin Held(m)
    BY <1>1
  <2> QED BY <2>1, <2>2, KindChanges DEF UsesInv
<1>3. NoneLost'
  <2> SUFFICES ASSUME kernel' = "runs", Covered', NEW g \in 0 .. nextFrame - 1
               PROVE  \E m \in Kinds : g \in Held(m)'
    BY DEF NoneLost
  <2>1. CASE g = f
    BY <2>1
  <2>2. CASE g # f
    <3>1. PICK m \in Kinds : g \in Held(m)
      BY DEF UsesInv, NoneLost
    <3>2. g \in Held(m)'
      BY <2>2, <3>1
    <3> QED BY <3>2
  <2> QED BY <2>1, <2>2
<1> QED BY <1>2, <1>3

\* Every frame stays what it is.
LEMMA NoneMoves ==
  ASSUME UsesInv, nextFrame' = nextFrame, \A k \in Kinds : Held(k)' = Held(k),
         kernel' = "runs" /\ Covered' => kernel = "runs" /\ Covered
  PROVE  KindsApart' /\ NoneLost'
<1>1. KindsApart'
  BY KindsStay DEF UsesInv
<1>2. NoneLost'
  <2> SUFFICES ASSUME kernel' = "runs", Covered', NEW g \in 0 .. nextFrame - 1
               PROVE  \E m \in Kinds : g \in Held(m)'
    BY DEF NoneLost
  <2>1. PICK m \in Kinds : g \in Held(m)
    BY DEF UsesInv, NoneLost
  <2> QED BY <2>1
<1> QED BY <1>1, <1>2

\* Coverage depends on the slots alone.
LEMMA CoverageStays ==
  ASSUME Slots' = Slots, nextOffset' = nextOffset
  PROVE  Covered' <=> Covered
BY DEF Covered

\* What a step does not touch keeps its frames.
LEMMA OthersStay ==
  /\ freeList' = freeList => Held("free")' = Held("free")
  /\ pageFrame' = pageFrame => Held("page")' = Held("page")
  /\ tableFrame' = tableFrame => Held("table")' = Held("table")
  /\ spaces' = spaces /\ JobPml4' = JobPml4 => Held("pml4")' = Held("pml4")
  /\ spaces' = spaces /\ JobPrivate' = JobPrivate => Held("private")' = Held("private")
  /\ JobFrame' = JobFrame => Held("taken")' = Held("taken")
BY HeldIs

LEMMA SlotsSame ==
  ASSUME pool' = pool, stacks' = stacks, spaces' = spaces, JobSlots' = JobSlots
  PROVE  Slots' = Slots
BY DEF Slots, LiveSlots

\* A page-table entry that was not set, with a frame of no other entry.
LEMMA PutGains ==
  ASSUME NEW e, NEW i, i \notin DOMAIN e, NEW x, x \notin Range(e),
         \A p, q \in DOMAIN e : e[p] = e[q] => p = q
  PROVE  /\ Range(Put(e, i, x)) = Range(e) \cup {x}
         /\ \A p, q \in DOMAIN Put(e, i, x) : Put(e, i, x)[p] = Put(e, i, x)[q] => p = q
<1> DEFINE r == Put(e, i, x)
<1>1. /\ DOMAIN r = DOMAIN e \cup {i} /\ r[i] = x
      /\ \A p \in DOMAIN e : r[p] = e[p]
  BY DEF Put
<1> HIDE DEF r
<1>2. Range(r) = Range(e) \cup {x}
  BY <1>1 DEF Range
<1>3. \A p \in DOMAIN e : e[p] # x
  BY DEF Range
<1>4. \A p, q \in DOMAIN r : r[p] = r[q] => p = q
  BY <1>1, <1>3
<1> QED BY <1>2, <1>4 DEF r

-----------------------------------------------------------------------------
(* The frames, step by step.                                                 *)

LEMMA PanicUses ==
  ASSUME StackInv, UsesInv, job = Idle, RunsDry
  PROVE  UsesInv'
<1>1. /\ nextFrame' = nextFrame /\ freeList' = freeList /\ pageFrame' = pageFrame
      /\ tableFrame' = tableFrame /\ spaces' = spaces /\ kernel' = "panicked"
      /\ job' = job
  BY DEF RunsDry, Panic, frameVars, regionVars
<1>2. JobPml4' = JobPml4 /\ JobPrivate' = JobPrivate /\ JobFrame' = JobFrame
  BY <1>1 DEF JobPml4, JobPrivate, JobFrame, IsMapping
<1>3. \A k \in Kinds : Held(k)' = Held(k)
  BY <1>1, <1>2, OthersStay DEF Kinds
<1>4. KindsApart' /\ NoneLost'
  BY <1>1, <1>3, NoneMoves
<1>5. OnceEach'
  BY <1>1, <1>2 DEF UsesInv, OnceEach
<1> QED BY <1>4, <1>5 DEF UsesInv

LEMMA MapTakesFrameUses ==
  ASSUME StackInv, UsesInv, MapTakesFrame
  PROVE  UsesInv'
<1>1. /\ pageFrame' = pageFrame /\ tableFrame' = tableFrame /\ nextOffset' = nextOffset
      /\ pool' = pool /\ stacks' = stacks /\ spaces' = spaces /\ kernel' = kernel
      /\ job' = [job EXCEPT !.frame = NextFree]
      /\ AllocateFrame /\ FrameInv /\ JobInv
  BY DEF MapTakesFrame, regionVars, StackInv
<1>2. job \in MapJob /\ job.frame = NoFrame
  BY <1>1, JobIsKnown DEF MapTakesFrame, NeedsFrame
<1>3. NextFree # NoFrame
  <2>1. NextFree \in 0 .. nextFrame' - 1 /\ nextFrame' \in Nat
    BY <1>1, FrameIsTaken, StackAssumption
  <2>2. NextFree \in Nat
    BY <2>1
  <2> QED BY <2>2 DEF NoFrame
<1>4. /\ job'.op = job.op /\ job'.pml4 = job.pml4 /\ job'.frame = NextFree
      /\ job'.slot = job.slot /\ job.op \in {"task", "probe", "space"}
  BY <1>1, <1>2 DEF MapJob
<1>5. /\ JobPml4' = JobPml4 /\ JobPrivate' = JobPrivate /\ JobFrame = {}
      /\ JobFrame' = {NextFree} /\ JobSlots' = JobSlots
  BY <1>2, <1>3, <1>4 DEF JobPml4, JobPrivate, JobFrame, IsMapping, JobSlots
<1>6. \A m \in Kinds \ {"free", "taken"} : Held(m)' = Held(m)
  BY <1>1, <1>5, OthersStay DEF Kinds
<1>7. Held("taken")' = Held("taken") \cup {NextFree} /\ "taken" \in Kinds \ {"free"}
  BY <1>5, HeldIs DEF Kinds
<1>8. Covered' <=> Covered
  BY <1>1, <1>5, SlotsSame, CoverageStays
<1>9. KindsApart' /\ NoneLost'
  BY <1>1, <1>6, <1>7, <1>8, TakeKeeps
<1>10. OnceEach'
  <2>1. \A i, j \in DOMAIN freeList' : freeList'[i] = freeList'[j] => i = j
    BY <1>1, TakenFrame DEF UsesInv
  <2> QED BY <1>1, <1>4, <1>5, <2>1 DEF UsesInv, OnceEach
<1> QED BY <1>9, <1>10 DEF UsesInv

LEMMA MapMakesTableUses ==
  ASSUME StackInv, UsesInv, MapMakesTable
  PROVE  UsesInv'
<1> DEFINE table == TableOf(PageToMap)
<1>1. /\ pageFrame' = pageFrame /\ nextOffset' = nextOffset
      /\ pool' = pool /\ stacks' = stacks /\ spaces' = spaces /\ kernel' = kernel
      /\ job' = job /\ tableFrame' = Put(tableFrame, table, NextFree)
      /\ table \notin DOMAIN tableFrame
      /\ AllocateFrame /\ FrameInv /\ JobInv
  BY DEF MapMakesTable, NeedsTable, StackInv
<1> HIDE DEF table
<1>2. JobPml4' = JobPml4 /\ JobPrivate' = JobPrivate /\ JobFrame' = JobFrame
      /\ JobSlots' = JobSlots
  BY <1>1 DEF JobPml4, JobPrivate, JobFrame, IsMapping, JobSlots
<1>3. /\ \A i, j \in DOMAIN freeList' : freeList'[i] = freeList'[j] => i = j
      /\ NextFree \notin Range(tableFrame)
  <2>1. "table" \in Kinds \ {"free"}
    BY DEF Kinds
  <2> QED BY <1>1, <2>1, TakenFrame, HeldIs DEF UsesInv
<1>4. /\ Range(tableFrame') = Range(tableFrame) \cup {NextFree}
      /\ \A t, u \in DOMAIN tableFrame' : tableFrame'[t] = tableFrame'[u] => t = u
  BY <1>1, <1>3, PutGains DEF UsesInv, OnceEach
<1>5. \A m \in Kinds \ {"free", "table"} : Held(m)' = Held(m)
  BY <1>1, <1>2, OthersStay DEF Kinds
<1>6. Held("table")' = Held("table") \cup {NextFree} /\ "table" \in Kinds \ {"free"}
  BY <1>4, HeldIs DEF Kinds
<1>7. Covered' <=> Covered
  BY <1>1, <1>2, SlotsSame, CoverageStays
<1>8. KindsApart' /\ NoneLost'
  BY <1>1, <1>5, <1>6, <1>7, TakeKeeps
<1>9. OnceEach'
  BY <1>1, <1>2, <1>3, <1>4 DEF UsesInv, OnceEach
<1> QED BY <1>8, <1>9 DEF UsesInv

\* The frame that was taken backs the page.
LEMMA MapSetsEntryUses ==
  ASSUME StackInv, UsesInv, MapSetsEntry
  PROVE  UsesInv'
<1>1. /\ pageFrame' = Put(pageFrame, PageToMap, job.frame)
      /\ job' = [job EXCEPT !.done = @ + 1, !.frame = NoFrame]
      /\ nextFrame' = nextFrame /\ freeList' = freeList /\ tableFrame' = tableFrame
      /\ nextOffset' = nextOffset /\ pool' = pool /\ stacks' = stacks /\ spaces' = spaces
      /\ kernel' = kernel /\ JobInv /\ job.frame # NoFrame
      /\ PageToMap \notin DOMAIN pageFrame
  BY DEF MapSetsEntry, StackInv, frameVars, IsAlreadyMapped
<1>2. job \in MapJob
  BY <1>1, JobIsKnown DEF MapSetsEntry
<1>3. /\ job'.op = job.op /\ job'.pml4 = job.pml4 /\ job'.frame = NoFrame
      /\ job'.slot = job.slot /\ job.op \in {"task", "probe", "space"}
  BY <1>1, <1>2 DEF MapJob
<1>4. /\ JobPml4' = JobPml4 /\ JobPrivate' = JobPrivate /\ JobFrame = {job.frame}
      /\ JobFrame' = {} /\ JobSlots' = JobSlots
  BY <1>1, <1>3 DEF JobPml4, JobPrivate, JobFrame, IsMapping, JobSlots
<1>5. /\ "taken" \in Kinds /\ "page" \in Kinds /\ "taken" # "page"
      /\ job.frame \in Held("taken")
  BY <1>4, HeldIs DEF Kinds
<1>6. job.frame \notin Range(pageFrame)
  BY <1>5, HeldIs DEF UsesInv, KindsApart
<1>7. /\ Range(pageFrame') = Range(pageFrame) \cup {job.frame}
      /\ \A p, q \in DOMAIN pageFrame' : pageFrame'[p] = pageFrame'[q] => p = q
  BY <1>1, <1>6, PutGains DEF UsesInv, OnceEach
<1>8. /\ Held("taken")' = Held("taken") \ {job.frame}
      /\ Held("page")' = Held("page") \cup {job.frame}
  BY <1>4, <1>7, HeldIs
<1>9. \A m \in Kinds \ {"taken", "page"} : Held(m)' = Held(m)
  BY <1>1, <1>4, OthersStay DEF Kinds
<1>10. Covered' <=> Covered
  BY <1>1, <1>4, SlotsSame, CoverageStays
<1>11. KindsApart' /\ NoneLost'
  BY <1>1, <1>5, <1>8, <1>9, <1>10, HandOverKeeps
<1>12. OnceEach'
  BY <1>1, <1>3, <1>4, <1>7 DEF UsesInv, OnceEach
<1> QED BY <1>11, <1>12 DEF UsesInv

\* A build that fails drops its slot, and the frames with it: the slot's guard
\* page belongs to nobody from then on.
LEMMA MapFailsUses ==
  ASSUME StackInv, UsesInv, MapFails
  PROVE  UsesInv'
<1>1. /\ pageFrame' = pageFrame /\ tableFrame' = tableFrame /\ nextOffset' = nextOffset
      /\ pool' = pool /\ stacks' = stacks /\ spaces' = spaces /\ job' = Idle
      /\ nextFrame' = nextFrame /\ freeList' = freeList
      /\ FrameInv /\ JobInv /\ ApartInv
  BY DEF MapFails, frameVars, regionVars, StackInv
<1>2. job \in MapJob
  BY <1>1, JobIsKnown DEF MapFails
<1>3. JobPml4' = {} /\ JobPrivate' = {} /\ JobFrame' = {} /\ JobSlots' = {}
  BY <1>1 DEF JobPml4, JobPrivate, JobFrame, IsMapping, JobSlots, Idle
<1>4. KindsApart'
  <2>1. Held("free")' = Held("free") /\ Held("page")' = Held("page")
        /\ Held("table")' = Held("table")
    BY <1>1, OthersStay
  <2>2. /\ Held("pml4")' \subseteq Held("pml4") /\ Held("private")' \subseteq Held("private")
        /\ Held("taken")' \subseteq Held("taken")
    BY <1>1, <1>3, HeldIs
  <2>3. \A k \in Kinds : Held(k)' \subseteq Held(k)
    BY <2>1, <2>2 DEF Kinds
  <2> QED BY <2>3, KindsStay DEF UsesInv
<1>5. ~Covered'
  <2> SUFFICES ASSUME Covered' PROVE FALSE
    OBVIOUS
  <2>1. job.slot \in JobSlots /\ job.slot \in Slots /\ job.slot \in SlotType
    BY <1>2 DEF MapJob, JobSlots, Slots
  <2>2. job.slot \notin LiveSlots /\ job.slot \notin Range(pool)
        /\ job.slot.at + job.slot.pages + 1 <= nextOffset
    BY <1>1, <2>1 DEF ApartInv
  <2>3. job.slot.at \in Extent(job.slot) /\ job.slot.at \in 0 .. nextOffset - 1
    <3>1. job.slot.at \in Nat /\ job.slot.pages \in Nat /\ job.slot.at \in Extent(job.slot)
      BY <2>1, SizesPositive
    <3>2. nextOffset \in Nat
      BY <1>1, StackAssumption DEF FrameInv
    <3> QED BY <2>2, <3>1, <3>2
  <2>4. Slots' = LiveSlots \cup Range(pool)
    BY <1>1, <1>3 DEF Slots, LiveSlots
  <2>5. PICK s \in Slots' : job.slot.at \in Extent(s)
    BY <1>1, <2>3 DEF Covered
  <2>6. s \in Slots /\ s # job.slot
    BY <2>2, <2>4 DEF Slots
  <2>7. Separate(s, job.slot)
    BY <1>1, <2>1, <2>6 DEF ApartInv
  <2> QED BY <2>3, <2>5, <2>7 DEF Separate
<1>6. NoneLost'
  BY <1>5 DEF NoneLost
<1>7. OnceEach'
  BY <1>1, <1>3 DEF UsesInv, OnceEach, Idle
<1> QED BY <1>4, <1>6, <1>7 DEF UsesInv

\* A finished stack or space holds what its operation held.
LEMMA StackIsBuiltUses ==
  ASSUME StackInv, UsesInv, StackIsBuilt
  PROVE  UsesInv'
<1> DEFINE space == [pml4 |-> job.pml4, slot |-> job.slot, private |-> {}]
           stack == [slot |-> job.slot, owner |-> job.op]
<1>1. /\ pageFrame' = pageFrame /\ tableFrame' = tableFrame /\ nextOffset' = nextOffset
      /\ pool' = pool /\ kernel' = kernel /\ job' = Idle
      /\ nextFrame' = nextFrame /\ freeList' = freeList
      /\ FrameInv /\ JobInv
  BY DEF StackIsBuilt, frameVars, regionVars, StackInv
<1>2. job \in MapJob /\ job.done = job.slot.pages
  BY <1>1, JobIsKnown DEF StackIsBuilt, IsWhole
<1>3. \/ /\ job.op = "space" /\ spaces' = spaces \cup {space} /\ stacks' = stacks
      \/ /\ job.op \in {"task", "probe"} /\ stacks' = stacks \cup {stack} /\ spaces' = spaces
  BY <1>2 DEF StackIsBuilt, MapJob
<1>4. space.pml4 = job.pml4 /\ space.private = {} /\ space.slot = job.slot
      /\ stack.slot = job.slot
  OBVIOUS
<1> HIDE DEF space, stack
<1>5. job.frame = NoFrame
  BY <1>1, <1>2, SizesPositive DEF JobInv, MapJob
<1>6. /\ JobPml4' = {} /\ JobPrivate' = {} /\ JobFrame' = {} /\ JobSlots' = {}
      /\ JobPrivate = {} /\ JobFrame = {} /\ JobSlots = {job.slot}
      /\ JobPml4 = IF job.op = "space" THEN {job.pml4} ELSE {}
  <2>1. job.op \in {"task", "probe", "space"}
    BY <1>2 DEF MapJob
  <2>2. job.op = "space" => job.pml4 # NoFrame
    BY <1>1 DEF JobInv
  <2>3. job.op \in {"task", "probe"} => job.pml4 = NoPml4
    BY DEF UsesInv, OnceEach
  <2> QED BY <1>1, <1>5, <2>1, <2>2, <2>3
          DEF JobPml4, JobPrivate, JobFrame, IsMapping, JobSlots, Idle, NoPml4
<1>7. {s.pml4 : s \in spaces'} = {s.pml4 : s \in spaces} \cup JobPml4
  <2>1. CASE job.op = "space" /\ spaces' = spaces \cup {space}
    BY <1>4, <1>6, <2>1
  <2>2. CASE job.op # "space" /\ spaces' = spaces
    BY <1>6, <2>2
  <2> QED BY <1>3, <2>1, <2>2
<1>8. PrivateOf(spaces') = PrivateOf(spaces)
  <2>1. CASE spaces' = spaces \cup {space}
    <3>1. \A f : f \in PrivateOf(spaces') <=> f \in PrivateOf(spaces)
      BY <1>4, <2>1, InPrivateOf
    <3> QED BY <3>1 DEF PrivateOf
  <2> QED BY <1>3, <2>1
<1>9. \A k \in Kinds : Held(k)' = Held(k)
  <2>1. Held("pml4")' = Held("pml4") /\ Held("private")' = Held("private")
    BY <1>6, <1>7, <1>8, HeldIs
  <2> QED BY <1>1, <1>6, <2>1, OthersStay DEF Kinds
<1>10. Slots' = Slots
  <2>1. LiveSlots' = LiveSlots \cup {job.slot}
    BY <1>3, <1>4 DEF LiveSlots
  <2> QED BY <1>1, <1>6, <2>1 DEF Slots
<1>11. KindsApart' /\ NoneLost'
  BY <1>1, <1>9, <1>10, CoverageStays, NoneMoves
<1>12. OnceEach'
  <2>1. CASE job.op = "space" /\ spaces' = spaces \cup {space}
    <3>1. \A a \in spaces : a.pml4 # space.pml4
      BY <1>4, <1>6, <2>1 DEF UsesInv, OnceEach
    <3>2. /\ \A a, b \in spaces' : a.pml4 = b.pml4 => a = b
          /\ \A a, b \in spaces' : a # b => a.private \cap b.private = {}
      BY <1>4, <2>1, <3>1 DEF UsesInv, OnceEach
    <3> QED BY <1>1, <1>6, <3>2 DEF UsesInv, OnceEach, Idle
  <2>2. CASE spaces' = spaces
    BY <1>1, <1>6, <2>2 DEF UsesInv, OnceEach, Idle
  <2> QED BY <1>3, <2>1, <2>2
<1> QED BY <1>11, <1>12 DEF UsesInv

LEMMA MapPrivateUses ==
  ASSUME StackInv, UsesInv, job = Idle, NEW space \in spaces, MapPrivate(space)
  PROVE  UsesInv'
<1> DEFINE grown == [space EXCEPT !.private = @ \cup {NextFree}]
<1>1. /\ pageFrame' = pageFrame /\ tableFrame' = tableFrame /\ nextOffset' = nextOffset
      /\ pool' = pool /\ stacks' = stacks /\ kernel' = kernel /\ job' = job
      /\ spaces' = (spaces \ {space}) \cup {grown}
      /\ AllocateFrame /\ FrameInv /\ JobInv
  BY DEF MapPrivate, regionVars, StackInv
<1>2. /\ grown.slot = space.slot /\ grown.pml4 = space.pml4
      /\ grown.private = space.private \cup {NextFree}
  <2>1. space \in [pml4 : 0 .. nextFrame - 1, slot : SlotType,
                   private : SUBSET (0 .. nextFrame - 1)]
    BY <1>1 DEF FrameInv
  <2> QED BY <2>1
<1> HIDE DEF grown
<1>3. /\ JobPml4 = {} /\ JobPrivate = {} /\ JobFrame = {} /\ JobSlots = {}
      /\ JobPml4' = {} /\ JobPrivate' = {} /\ JobFrame' = {} /\ JobSlots' = {}
  BY <1>1 DEF JobPml4, JobPrivate, JobFrame, IsMapping, JobSlots, Idle
<1>4. {s.pml4 : s \in spaces'} = {s.pml4 : s \in spaces}
  BY <1>1, <1>2
<1>5. PrivateOf(spaces') = PrivateOf(spaces) \cup {NextFree}
  <2>1. ASSUME NEW f
        PROVE  f \in PrivateOf(spaces') <=> f \in PrivateOf(spaces) \cup {NextFree}
    <3>1. f \in PrivateOf(spaces') <=> \E s \in spaces' : f \in s.private
      BY InPrivateOf
    <3>2. f \in PrivateOf(spaces) <=> \E s \in spaces : f \in s.private
      BY InPrivateOf
    <3> QED BY <1>1, <1>2, <3>1, <3>2
  <2> QED BY <2>1
<1>6. Held("private")' = Held("private") \cup {NextFree} /\ "private" \in Kinds \ {"free"}
  BY <1>3, <1>5, HeldIs DEF Kinds
<1>7. \A m \in Kinds \ {"free", "private"} : Held(m)' = Held(m)
  <2>1. Held("pml4")' = Held("pml4")
    BY <1>3, <1>4, HeldIs
  <2> QED BY <1>1, <1>3, <2>1, OthersStay DEF Kinds
<1>8. Slots' = Slots
  <2>1. LiveSlots' = LiveSlots
    BY <1>1, <1>2 DEF LiveSlots
  <2> QED BY <1>1, <1>3, <2>1 DEF Slots
<1>9. KindsApart' /\ NoneLost'
  BY <1>1, <1>6, <1>7, <1>8, CoverageStays, TakeKeeps
<1>10. OnceEach'
  <2>1. /\ \A i, j \in DOMAIN freeList' : freeList'[i] = freeList'[j] => i = j
        /\ NextFree \notin Held("private")
    BY <1>1, <1>6, TakenFrame DEF UsesInv
  <2>2. \A a \in spaces : NextFree \notin a.private
    BY <2>1, HeldIs, InPrivateOf
  <2>3. \A a, b \in spaces' : a.pml4 = b.pml4 => a = b
    BY <1>1, <1>2 DEF UsesInv, OnceEach
  <2>4. \A a, b \in spaces' : a # b => a.private \cap b.private = {}
    <3>1. \A a, b \in spaces : a # b => a.private \cap b.private = {}
      BY DEF UsesInv, OnceEach
    <3>2. \A a \in spaces \ {space} : a.private \cap grown.private = {}
      BY <1>2, <2>2, <3>1
    <3> QED BY <1>1, <3>1, <3>2
  <2> QED BY <1>1, <1>3, <2>1, <2>3, <2>4 DEF UsesInv, OnceEach
<1> QED BY <1>9, <1>10 DEF UsesInv

\* A space that is torn down hands all it owns to the teardown.
LEMMA DestroyUses ==
  ASSUME StackInv, UsesInv, job = Idle, NEW space \in spaces, Destroy(space)
  PROVE  UsesInv'
<1>1. /\ pageFrame' = pageFrame /\ tableFrame' = tableFrame /\ nextOffset' = nextOffset
      /\ pool' = pool /\ stacks' = stacks /\ kernel' = kernel
      /\ nextFrame' = nextFrame /\ freeList' = freeList
      /\ spaces' = spaces \ {space}
      /\ job' = Teardown(space.slot, space.private, space.pml4)
      /\ FrameInv /\ JobInv
  BY DEF Destroy, FreedByWalk, frameVars, regionVars, StackInv
<1>2. /\ job'.op = "release" /\ job'.slot = space.slot /\ job'.pml4 = space.pml4
      /\ job'.private = space.private
  BY <1>1 DEF Teardown
<1>3. space.pml4 # NoPml4
  <2>1. space.pml4 \in 0 .. nextFrame - 1
    BY <1>1 DEF FrameInv
  <2>2. space.pml4 \in Int /\ space.pml4 >= 0
    BY <2>1
  <2> QED BY <2>2 DEF NoPml4, NoFrame
<1>4. /\ JobPml4 = {} /\ JobPrivate = {} /\ JobFrame = {} /\ JobSlots = {}
      /\ JobPml4' = {space.pml4} /\ JobPrivate' = space.private /\ JobFrame' = {}
      /\ JobSlots' = {space.slot}
  BY <1>2, <1>3 DEF JobPml4, JobPrivate, JobFrame, IsMapping, JobSlots, Idle
<1>5. {s.pml4 : s \in spaces'} \cup {space.pml4} = {s.pml4 : s \in spaces}
  BY <1>1
<1>6. PrivateOf(spaces') \cup space.private = PrivateOf(spaces)
  <2>1. ASSUME NEW f
        PROVE  f \in PrivateOf(spaces') \cup space.private <=> f \in PrivateOf(spaces)
    <3>1. f \in PrivateOf(spaces') <=> \E s \in spaces' : f \in s.private
      BY InPrivateOf
    <3>2. f \in PrivateOf(spaces) <=> \E s \in spaces : f \in s.private
      BY InPrivateOf
    <3> QED BY <1>1, <3>1, <3>2
  <2> QED BY <2>1
<1>7. \A k \in Kinds : Held(k)' = Held(k)
  <2>1. Held("pml4")' = Held("pml4") /\ Held("private")' = Held("private")
    BY <1>4, <1>5, <1>6, HeldIs
  <2> QED BY <1>1, <1>4, <2>1, OthersStay DEF Kinds
<1>8. Slots' = Slots
  <2>1. LiveSlots' \cup {space.slot} = LiveSlots
    BY <1>1 DEF LiveSlots
  <2> QED BY <1>1, <1>4, <2>1 DEF Slots
<1>9. KindsApart' /\ NoneLost'
  BY <1>1, <1>7, <1>8, CoverageStays, NoneMoves
<1>10. OnceEach'
  <2>1. /\ \A a \in spaces' : a.pml4 # space.pml4
        /\ \A a \in spaces' : a.private \cap space.private = {}
    BY <1>1 DEF UsesInv, OnceEach
  <2> QED BY <1>1, <1>2, <1>3, <1>4, <2>1 DEF UsesInv, OnceEach
<1> QED BY <1>9, <1>10 DEF UsesInv

LEMMA ReleaseProbeUses ==
  ASSUME StackInv, UsesInv, job = Idle, NEW stack \in stacks, ReleaseProbe(stack)
  PROVE  UsesInv'
<1>1. /\ pageFrame' = pageFrame /\ tableFrame' = tableFrame /\ nextOffset' = nextOffset
      /\ pool' = pool /\ spaces' = spaces /\ kernel' = kernel
      /\ nextFrame' = nextFrame /\ freeList' = freeList
      /\ stacks' = stacks \ {stack} /\ job' = Teardown(stack.slot, {}, NoPml4)
  BY DEF ReleaseProbe, frameVars, regionVars
<1>2. /\ job'.op = "release" /\ job'.slot = stack.slot /\ job'.pml4 = NoPml4
      /\ job'.private = {}
  BY <1>1 DEF Teardown
<1>3. /\ JobPml4 = {} /\ JobPrivate = {} /\ JobFrame = {} /\ JobSlots = {}
      /\ JobPml4' = {} /\ JobPrivate' = {} /\ JobFrame' = {}
      /\ JobSlots' = {stack.slot}
  BY <1>2 DEF JobPml4, JobPrivate, JobFrame, IsMapping, JobSlots, Idle
<1>4. \A k \in Kinds : Held(k)' = Held(k)
  BY <1>1, <1>3, OthersStay DEF Kinds
<1>5. Slots' = Slots
  <2>1. LiveSlots' \cup {stack.slot} = LiveSlots
    BY <1>1 DEF LiveSlots
  <2> QED BY <1>1, <1>3, <2>1 DEF Slots
<1>6. KindsApart' /\ NoneLost'
  BY <1>1, <1>4, <1>5, CoverageStays, NoneMoves
<1>7. OnceEach'
  BY <1>1, <1>2, <1>3 DEF UsesInv, OnceEach
<1> QED BY <1>6, <1>7 DEF UsesInv

\* A list that ends in nothing new is the list.
LEMMA NothingAppended ==
  ASSUME NEW S, NEW q \in Seq(S)
  PROVE  q \o <<>> = q
OBVIOUS

LEMMA OneAppended ==
  ASSUME NEW S, NEW q \in Seq(S), NEW x \in S
  PROVE  q \o <<x>> = Append(q, x)
OBVIOUS

LEMMA ReleaseUnmapsUses ==
  ASSUME StackInv, UsesInv, ReleaseUnmaps
  PROVE  UsesInv'
<1> DEFINE page == PageToMap
           frame == pageFrame[PageToMap]
<1>1. /\ job' = [job EXCEPT !.done = @ + 1]
      /\ freeList' = freeList \o (IF page \in DOMAIN pageFrame THEN <<frame>> ELSE <<>>)
      /\ pageFrame' = [p \in DOMAIN pageFrame \ {page} |-> pageFrame[p]]
      /\ nextFrame' = nextFrame /\ tableFrame' = tableFrame /\ nextOffset' = nextOffset
      /\ pool' = pool /\ stacks' = stacks /\ spaces' = spaces /\ kernel' = kernel
      /\ job.op = "release" /\ FrameInv /\ JobInv
  BY DEF ReleaseUnmaps, StackInv
<1>2. job \in EndJob
  BY <1>1, JobIsKnown
<1>3. /\ job'.op = job.op /\ job'.pml4 = job.pml4 /\ job'.private = job.private
      /\ job'.slot = job.slot
  BY <1>1, <1>2 DEF EndJob
<1>4. /\ JobPml4' = JobPml4 /\ JobPrivate' = JobPrivate /\ JobFrame' = JobFrame
      /\ JobSlots' = JobSlots
  BY <1>1, <1>3 DEF JobPml4, JobPrivate, JobFrame, IsMapping, JobSlots
<1>5. freeList \in Seq(0 .. nextFrame - 1)
  BY <1>1 DEF FrameInv
<1>6. Covered' <=> Covered
  BY <1>1, <1>4, SlotsSame, CoverageStays
<1>7. page \in DOMAIN pageFrame => frame \in 0 .. nextFrame - 1
  BY <1>1 DEF FrameInv
<1> HIDE DEF page, frame
<1>8. /\ DOMAIN pageFrame' = DOMAIN pageFrame \ {page}
      /\ \A p \in DOMAIN pageFrame' : pageFrame'[p] = pageFrame[p]
  BY <1>1
<1>9. \A p, q \in DOMAIN pageFrame' : pageFrame'[p] = pageFrame'[q] => p = q
  BY <1>8 DEF UsesInv, OnceEach
<1>10. CASE page \notin DOMAIN pageFrame
  <2>1. freeList' = freeList
    BY <1>1, <1>5, <1>10, NothingAppended
  <2>2. Range(pageFrame') = Range(pageFrame)
    BY <1>8, <1>10 DEF Range
  <2>3. \A k \in Kinds : Held(k)' = Held(k)
    <3>1. Held("page")' = Held("page")
      BY <2>2, HeldIs
    <3> QED BY <1>1, <1>4, <2>1, <3>1, OthersStay DEF Kinds
  <2>4. KindsApart' /\ NoneLost'
    BY <1>1, <1>6, <2>3, NoneMoves
  <2>5. OnceEach'
    BY <1>1, <1>3, <1>4, <1>9, <2>1 DEF UsesInv, OnceEach
  <2> QED BY <2>4, <2>5 DEF UsesInv
<1>11. CASE page \in DOMAIN pageFrame
  <2>0. pageFrame[page] = frame
    BY DEF page, frame
  <2>1. freeList' = Append(freeList, frame)
    BY <1>1, <1>5, <1>7, <1>11, OneAppended
  <2>2. Range(pageFrame') = Range(pageFrame) \ {frame} /\ frame \in Range(pageFrame)
    <3>1. \A p \in DOMAIN pageFrame : pageFrame[p] = frame <=> p = page
      BY <1>11, <2>0 DEF UsesInv, OnceEach
    <3> QED BY <1>8, <1>11, <2>0, <3>1 DEF Range
  <2>3. /\ "free" \in Kinds /\ "page" \in Kinds /\ "page" # "free"
        /\ frame \in Held("page")
    BY <2>2, HeldIs DEF Kinds
  <2>4. frame \notin Range(freeList)
    BY <2>3, HeldIs DEF UsesInv, KindsApart
  <2>5. /\ Range(freeList') = Range(freeList) \cup {frame}
        /\ \A i, j \in DOMAIN freeList' : freeList'[i] = freeList'[j] => i = j
    <3>1. \A i, j \in DOMAIN freeList : freeList[i] = freeList[j] => i = j
      BY DEF UsesInv, OnceEach
    <3>2. PICK S : S = 0 .. nextFrame - 1
      OBVIOUS
    <3>3. freeList \in Seq(S) /\ frame \in S
      BY <1>5, <1>7, <1>11, <3>2
    <3>4. /\ Range(Append(freeList, frame)) = Range(freeList) \cup {frame}
          /\ \A i, j \in DOMAIN Append(freeList, frame) :
                Append(freeList, frame)[i] = Append(freeList, frame)[j] => i = j
      BY <2>4, <3>1, <3>3, ListGains
    <3> QED BY <2>1, <3>4
  <2>6. /\ Held("page")' = Held("page") \ {frame}
        /\ Held("free")' = Held("free") \cup {frame}
    BY <2>2, <2>5, HeldIs
  <2>7. \A m \in Kinds \ {"page", "free"} : Held(m)' = Held(m)
    BY <1>1, <1>4, OthersStay DEF Kinds
  <2>8. KindsApart' /\ NoneLost'
    BY <1>1, <1>6, <2>3, <2>6, <2>7, HandOverKeeps
  <2>9. OnceEach'
    BY <1>1, <1>3, <1>4, <1>9, <2>5 DEF UsesInv, OnceEach
  <2> QED BY <2>8, <2>9 DEF UsesInv
<1> QED BY <1>10, <1>11

\* An unmapped slot goes from its teardown to the pool.
LEMMA ReleasePoolsUses ==
  ASSUME StackInv, UsesInv, ReleasePools
  PROVE  UsesInv'
<1>1. /\ pageFrame' = pageFrame /\ tableFrame' = tableFrame /\ nextOffset' = nextOffset
      /\ pool' = Append(pool, job.slot) /\ stacks' = stacks /\ spaces' = spaces
      /\ kernel' = kernel /\ nextFrame' = nextFrame /\ freeList' = freeList
      /\ job' = IF job.pml4 = NoPml4 THEN Idle ELSE [job EXCEPT !.op = "free"]
      /\ job.op = "release" /\ FrameInv /\ JobInv /\ ApartInv
  BY DEF ReleasePools, frameVars, StackInv
<1>2. job \in EndJob
  BY <1>1, JobIsKnown
<1>3. JobSlots = {job.slot} /\ JobSlots' = {}
  <2>1. job'.op \in {"idle", "free"}
    BY <1>1, <1>2 DEF EndJob, Idle
  <2> QED BY <1>1, <2>1 DEF JobSlots
<1>4. /\ JobPml4' = JobPml4 /\ JobPrivate' = JobPrivate /\ JobFrame' = JobFrame
      /\ job'.op \notin {"release", "task", "probe"}
  <2>1. CASE job.pml4 = NoPml4
    <3>1. job' = Idle /\ job.private = {}
      BY <1>1, <2>1 DEF UsesInv, OnceEach
    <3> QED BY <1>1, <2>1, <3>1 DEF JobPml4, JobPrivate, JobFrame, IsMapping, Idle
  <2>2. CASE job.pml4 # NoPml4
    <3>1. job'.op = "free" /\ job'.pml4 = job.pml4 /\ job'.private = job.private
      BY <1>1, <1>2, <2>2 DEF EndJob
    <3> QED BY <1>1, <2>2, <3>1 DEF JobPml4, JobPrivate, JobFrame, IsMapping
  <2> QED BY <2>1, <2>2
<1>5. \A k \in Kinds : Held(k)' = Held(k)
  BY <1>1, <1>4, OthersStay DEF Kinds
<1>6. Slots' = Slots
  <2>1. pool \in Seq(SlotType) /\ job.slot \in SlotType /\ job.slot \notin Range(pool)
    BY <1>1, <1>2, <1>3 DEF FrameInv, EndJob, ApartInv
  <2>2. \A i, j \in DOMAIN pool : pool[i] = pool[j] => i = j
    BY <1>1 DEF ApartInv
  <2>3. Range(Append(pool, job.slot)) = Range(pool) \cup {job.slot}
    BY <2>1, <2>2, ListGains
  <2>4. LiveSlots' = LiveSlots
    BY <1>1 DEF LiveSlots
  <2> QED BY <1>1, <1>3, <2>3, <2>4 DEF Slots
<1>7. KindsApart' /\ NoneLost'
  BY <1>1, <1>5, <1>6, CoverageStays, NoneMoves
<1>8. OnceEach'
  BY <1>1, <1>4 DEF UsesInv, OnceEach
<1> QED BY <1>7, <1>8 DEF UsesInv

\* The free list with a frame of another kind on it.
LEMMA GivenBack ==
  ASSUME FrameInv, UsesInv, NEW k \in Kinds \ {"free"}, NEW f \in Held(k),
         f \in 0 .. nextFrame - 1, freeList' = Append(freeList, f)
  PROVE  /\ Held("free")' = Held("free") \cup {f}
         /\ \A i, j \in DOMAIN freeList' : freeList'[i] = freeList'[j] => i = j
<1>1. f \notin Range(freeList)
  <2>1. "free" \in Kinds
    BY DEF Kinds
  <2> QED BY <2>1, HeldIs DEF UsesInv, KindsApart
<1>2. PICK S : S = 0 .. nextFrame - 1
  OBVIOUS
<1>3. freeList \in Seq(S) /\ f \in S
  BY <1>2 DEF FrameInv
<1>4. \A i, j \in DOMAIN freeList : freeList[i] = freeList[j] => i = j
  BY DEF UsesInv, OnceEach
<1>5. /\ Range(Append(freeList, f)) = Range(freeList) \cup {f}
      /\ \A i, j \in DOMAIN Append(freeList, f) :
            Append(freeList, f)[i] = Append(freeList, f)[j] => i = j
  BY <1>1, <1>3, <1>4, ListGains
<1> QED BY <1>5, HeldIs

LEMMA FreesPrivateUses ==
  ASSUME StackInv, UsesInv, FreesPrivate
  PROVE  UsesInv'
<1>1. PICK frame \in job.private : /\ freeList' = Append(freeList, frame)
                                   /\ job' = [job EXCEPT !.private = @ \ {frame}]
  BY DEF FreesPrivate, DeallocateFrame
<1>2. /\ pageFrame' = pageFrame /\ tableFrame' = tableFrame /\ nextOffset' = nextOffset
      /\ pool' = pool /\ stacks' = stacks /\ spaces' = spaces
      /\ kernel' = kernel /\ nextFrame' = nextFrame
      /\ job.op = "free" /\ FrameInv /\ JobInv
  BY DEF FreesPrivate, DeallocateFrame, regionVars, StackInv
<1>3. job \in EndJob
  BY <1>2, JobIsKnown
<1>4. /\ job'.op = "free" /\ job'.pml4 = job.pml4 /\ job'.private = job.private \ {frame}
      /\ frame \in 0 .. nextFrame - 1
  BY <1>1, <1>2, <1>3 DEF EndJob
<1>5. /\ JobPml4' = JobPml4 /\ JobPrivate = job.private
      /\ JobPrivate' = job.private \ {frame}
      /\ JobFrame' = JobFrame /\ JobSlots' = JobSlots
  BY <1>2, <1>4 DEF JobPml4, JobPrivate, JobFrame, IsMapping, JobSlots
<1>6. \A a \in spaces : frame \notin a.private
  BY <1>5 DEF UsesInv, OnceEach
<1>7. frame \in Held("private") /\ Held("private")' = Held("private") \ {frame}
  <2>1. frame \notin PrivateOf(spaces)
    BY <1>6, InPrivateOf
  <2> QED BY <1>2, <1>5, <2>1, HeldIs
<1>8. "private" \in Kinds /\ "free" \in Kinds /\ "private" \in Kinds \ {"free"}
  BY DEF Kinds
<1>9. /\ Held("free")' = Held("free") \cup {frame}
      /\ \A i, j \in DOMAIN freeList' : freeList'[i] = freeList'[j] => i = j
  BY <1>1, <1>2, <1>4, <1>7, <1>8, GivenBack
<1>10. \A m \in Kinds \ {"private", "free"} : Held(m)' = Held(m)
  BY <1>2, <1>5, OthersStay DEF Kinds
<1>11. Covered' <=> Covered
  BY <1>2, <1>5, SlotsSame, CoverageStays
<1>12. KindsApart' /\ NoneLost'
  BY <1>2, <1>7, <1>8, <1>9, <1>10, <1>11, HandOverKeeps
<1>13. OnceEach'
  BY <1>2, <1>4, <1>5, <1>9 DEF UsesInv, OnceEach
<1> QED BY <1>12, <1>13 DEF UsesInv

\* The top-level table goes last.
LEMMA FreesPml4Uses ==
  ASSUME StackInv, UsesInv, FreesPml4
  PROVE  UsesInv'
<1>1. /\ pageFrame' = pageFrame /\ tableFrame' = tableFrame /\ nextOffset' = nextOffset
      /\ pool' = pool /\ stacks' = stacks /\ spaces' = spaces
      /\ kernel' = kernel /\ nextFrame' = nextFrame
      /\ freeList' = Append(freeList, job.pml4) /\ job' = Idle
      /\ job.op = "free" /\ job.private = {} /\ FrameInv /\ JobInv
  BY DEF FreesPml4, DeallocateFrame, regionVars, StackInv
<1>2. job \in EndJob /\ job.pml4 # NoFrame
  BY <1>1, JobIsKnown DEF JobInv
<1>3. job.pml4 \in 0 .. nextFrame - 1
  BY <1>2 DEF EndJob, OptFrame
<1>4. /\ JobPml4 = {job.pml4} /\ JobPrivate = {} /\ JobFrame = {} /\ JobSlots = {}
      /\ JobPml4' = {} /\ JobPrivate' = {} /\ JobFrame' = {} /\ JobSlots' = {}
  BY <1>1, <1>2 DEF JobPml4, JobPrivate, JobFrame, IsMapping, JobSlots, Idle, NoPml4
<1>5. \A a \in spaces : a.pml4 # job.pml4
  BY <1>4 DEF UsesInv, OnceEach
<1>6. job.pml4 \in Held("pml4") /\ Held("pml4")' = Held("pml4") \ {job.pml4}
  BY <1>1, <1>4, <1>5, HeldIs
<1>7. "pml4" \in Kinds /\ "free" \in Kinds /\ "pml4" \in Kinds \ {"free"}
  BY DEF Kinds
<1>8. /\ Held("free")' = Held("free") \cup {job.pml4}
      /\ \A i, j \in DOMAIN freeList' : freeList'[i] = freeList'[j] => i = j
  BY <1>1, <1>3, <1>6, <1>7, GivenBack
<1>9. \A m \in Kinds \ {"pml4", "free"} : Held(m)' = Held(m)
  BY <1>1, <1>4, OthersStay DEF Kinds
<1>10. Covered' <=> Covered
  BY <1>1, <1>4, SlotsSame, CoverageStays
<1>11. KindsApart' /\ NoneLost'
  BY <1>1, <1>6, <1>7, <1>8, <1>9, <1>10, HandOverKeeps
<1>12. OnceEach'
  BY <1>1, <1>4, <1>8 DEF UsesInv, OnceEach, Idle
<1> QED BY <1>11, <1>12 DEF UsesInv

LEMMA IsCovered ==
  ASSUME NEW S, NEW x
  PROVE  x \in UNION {Extent(s) : s \in S} <=> \E s \in S : x \in Extent(s)
BY Zenon

\* The slot that is chosen has no frames yet, and covers only pages that no
\* slot covered before, or that it covered as a pooled one.
LEMMA ChosenSlot ==
  ASSUME StackInv, job = Idle, NEW n \in StackSizes,
         NEW op \in {"task", "probe", "space"}, NEW pml4, ChooseSlot(n, op, pml4)
  PROVE  /\ job'.op = op /\ job'.pml4 = pml4 /\ job'.frame = NoFrame
         /\ Covered' => Covered
<1>1. /\ stacks' = stacks /\ spaces' = spaces /\ FrameInv /\ JobInv /\ ApartInv
  BY DEF ChooseSlot, StackInv
<1>2. JobSlots = {} /\ LiveSlots' = LiveSlots
  BY <1>1 DEF JobSlots, LiveSlots, Idle
<1>3. CASE ReuseSlot(n, op, pml4)
  <2>1. PICK i \in DOMAIN pool : /\ pool' = RemoveAt(pool, i) /\ nextOffset' = nextOffset
                                 /\ job' = Mapping(op, pool[i], TRUE, pml4)
    BY <1>3 DEF ReuseSlot, BestFit
  <2>2. /\ job'.op = op /\ job'.pml4 = pml4 /\ job'.frame = NoFrame
        /\ job'.slot = pool[i]
    BY <2>1 DEF Mapping
  <2>3. Range(pool') = Range(pool) \ {pool[i]} /\ pool[i] \in Range(pool)
    <3>1. /\ pool \in Seq(SlotType)
          /\ \A j, k \in DOMAIN pool : pool[j] = pool[k] => j = k
      BY <1>1 DEF FrameInv, ApartInv
    <3>2. LET r == RemoveAt(pool, i)
          IN /\ r \in Seq(SlotType)
             /\ Range(r) = Range(pool) \ {pool[i]}
             /\ \A j, k \in DOMAIN r : r[j] = r[k] => j = k
      BY <3>1, RemovedFromPool
    <3> QED BY <2>1, <3>2 DEF Range
  <2>4. JobSlots' = {pool[i]}
    BY <2>2 DEF JobSlots
  <2>5. Slots' = Slots
    BY <1>2, <2>3, <2>4 DEF Slots
  <2> QED BY <2>1, <2>2, <2>5, CoverageStays
<1>4. CASE BumpSlot(n, op, pml4)
  <2> DEFINE slot == [at |-> nextOffset, pages |-> n]
  <2>1. /\ nextOffset' = nextOffset + n + 1 /\ pool' = pool
        /\ job' = Mapping(op, slot, FALSE, pml4)
    BY <1>4 DEF BumpSlot
  <2>2. slot.at = nextOffset /\ slot.pages = n
    OBVIOUS
  <2> HIDE DEF slot
  <2>3. /\ job'.op = op /\ job'.pml4 = pml4 /\ job'.frame = NoFrame /\ job'.slot = slot
    BY <2>1 DEF Mapping
  <2>4. Slots' = Slots \cup {slot}
    <3>1. JobSlots' = {slot}
      BY <2>3 DEF JobSlots
    <3> QED BY <1>2, <2>1, <3>1 DEF Slots
  <2>5. nextOffset \in Nat /\ n \in Nat
    BY <1>1, StackAssumption DEF FrameInv
  <2>6. ASSUME Covered' PROVE Covered
    <3>1. \A x : x \in 0 .. nextOffset' - 1 <=> \E s \in Slots' : x \in Extent(s)
      BY <2>6, IsCovered DEF Covered
    <3>2. ASSUME NEW x \in 0 .. nextOffset - 1
          PROVE  \E s \in Slots : x \in Extent(s)
      <4>1. x \in 0 .. nextOffset' - 1
        BY <2>1, <2>5
      <4>2. x \notin Extent(slot)
        BY <2>2, <2>5 DEF Extent
      <4> QED BY <2>4, <3>1, <4>1, <4>2
    <3>3. ASSUME NEW s \in Slots, NEW x \in Extent(s)
          PROVE  x \in 0 .. nextOffset - 1
      <4>1. s \in SlotType /\ s.at + s.pages + 1 <= nextOffset
        BY <1>1, SlotsAreTyped DEF ApartInv
      <4>2. s.at \in Nat /\ s.pages \in Nat
        BY <4>1, SizesPositive
      <4> QED BY <2>5, <4>1, <4>2 DEF Extent
    <3>4. \A x : x \in 0 .. nextOffset - 1 <=> x \in UNION {Extent(s) : s \in Slots}
      BY <3>2, <3>3, IsCovered
    <3> QED BY <3>4 DEF Covered
  <2> QED BY <2>3, <2>6
<1> QED BY <1>3, <1>4 DEF ChooseSlot

LEMMA AllocateStackUses ==
  ASSUME StackInv, UsesInv, job = Idle, NEW n \in StackSizes, NEW op, AllocateStack(n, op)
  PROVE  UsesInv'
<1>1. /\ op \in {"task", "probe"} /\ op \in {"task", "probe", "space"}
      /\ ChooseSlot(n, op, NoPml4)
      /\ nextFrame' = nextFrame /\ freeList' = freeList
      /\ pageFrame' = pageFrame /\ tableFrame' = tableFrame
      /\ stacks' = stacks /\ spaces' = spaces /\ kernel' = kernel
  BY DEF AllocateStack, ChooseSlot, frameVars
<1>2. /\ job'.op = op /\ job'.pml4 = NoPml4 /\ job'.frame = NoFrame
      /\ Covered' => Covered
  BY <1>1, ChosenSlot
<1>3. /\ JobPml4 = {} /\ JobPrivate = {} /\ JobFrame = {}
      /\ JobPml4' = {} /\ JobPrivate' = {} /\ JobFrame' = {}
  BY <1>1, <1>2 DEF JobPml4, JobPrivate, JobFrame, IsMapping, Idle
<1>4. \A k \in Kinds : Held(k)' = Held(k)
  BY <1>1, <1>3, OthersStay DEF Kinds
<1>5. KindsApart' /\ NoneLost'
  BY <1>1, <1>2, <1>4, NoneMoves
<1>6. OnceEach'
  BY <1>1, <1>2, <1>3 DEF UsesInv, OnceEach
<1> QED BY <1>5, <1>6 DEF UsesInv

\* A space under construction holds its top-level table from the start.
LEMMA NewSpaceUses ==
  ASSUME StackInv, UsesInv, job = Idle, NEW n \in StackSizes, NewSpace(n)
  PROVE  UsesInv'
<1>1. /\ ChooseSlot(n, "space", NextFree) /\ AllocateFrame
      /\ pageFrame' = pageFrame /\ tableFrame' = tableFrame
      /\ stacks' = stacks /\ spaces' = spaces /\ kernel' = kernel
      /\ FrameInv /\ JobInv
  BY DEF NewSpace, ChooseSlot, StackInv
<1>2. /\ job'.op = "space" /\ job'.pml4 = NextFree /\ job'.frame = NoFrame
      /\ Covered' => Covered
  BY <1>1, ChosenSlot
<1>3. NextFree # NoPml4
  <2>1. NextFree \in 0 .. nextFrame' - 1 /\ nextFrame' \in Nat
    BY <1>1, FrameIsTaken, StackAssumption
  <2>2. NextFree \in Nat
    BY <2>1
  <2> QED BY <2>2 DEF NoPml4, NoFrame
<1>4. /\ JobPml4 = {} /\ JobPrivate = {} /\ JobFrame = {}
      /\ JobPml4' = {NextFree} /\ JobPrivate' = {} /\ JobFrame' = {}
  BY <1>1, <1>2, <1>3 DEF JobPml4, JobPrivate, JobFrame, IsMapping, Idle
<1>5. \A m \in Kinds \ {"free", "pml4"} : Held(m)' = Held(m)
  BY <1>1, <1>4, OthersStay DEF Kinds
<1>6. Held("pml4")' = Held("pml4") \cup {NextFree} /\ "pml4" \in Kinds \ {"free"}
  BY <1>1, <1>4, HeldIs DEF Kinds
<1>7. KindsApart' /\ NoneLost'
  BY <1>1, <1>2, <1>5, <1>6, TakeKeeps
<1>8. OnceEach'
  <2>1. /\ \A i, j \in DOMAIN freeList' : freeList'[i] = freeList'[j] => i = j
        /\ NextFree \notin Held("pml4")
    BY <1>1, <1>6, TakenFrame DEF UsesInv
  <2>2. \A a \in spaces : a.pml4 # NextFree
    BY <2>1, HeldIs
  <2> QED BY <1>1, <1>2, <1>4, <2>1, <2>2 DEF UsesInv, OnceEach
<1> QED BY <1>7, <1>8 DEF UsesInv

LEMMA UsesInvStarts ==
  ASSUME StackInit
  PROVE  UsesInv
<1>1. JobPml4 = {} /\ JobPrivate = {} /\ JobFrame = {} /\ job.op = "idle"
  BY DEF StackInit, JobPml4, JobPrivate, JobFrame, IsMapping, Idle
<1>2. Held("free") = {} /\ Held("page") = {} /\ Held("table") = {}
  BY HeldIs DEF StackInit, Range
<1>3. Held("pml4") = {} /\ Held("private") = {} /\ Held("taken") = {}
  <2>1. PrivateOf(spaces) = {}
    BY InPrivateOf DEF StackInit
  <2> QED BY <1>1, <2>1, HeldIs DEF StackInit
<1>4. KindsApart
  BY <1>2, <1>3 DEF KindsApart, Kinds
<1>5. OnceEach
  BY <1>1 DEF OnceEach, StackInit
<1>6. NoneLost
  <2>1. 0 .. nextFrame - 1 = {}
    BY DEF StackInit
  <2> QED BY <2>1 DEF NoneLost
<1> QED BY <1>4, <1>5, <1>6 DEF UsesInv

LEMMA UsesInvStays ==
  ASSUME StackInv, UsesInv, [StackNext]_stackVars
  PROVE  UsesInv'
<1>1. CASE UNCHANGED stackVars
  <2>1. /\ nextFrame' = nextFrame /\ freeList' = freeList /\ pageFrame' = pageFrame
        /\ tableFrame' = tableFrame /\ nextOffset' = nextOffset /\ pool' = pool
        /\ stacks' = stacks /\ spaces' = spaces /\ job' = job /\ kernel' = kernel
    BY <1>1 DEF stackVars
  <2>2. /\ JobPml4' = JobPml4 /\ JobPrivate' = JobPrivate /\ JobFrame' = JobFrame
        /\ JobSlots' = JobSlots
    BY <2>1 DEF JobPml4, JobPrivate, JobFrame, IsMapping, JobSlots
  <2>3. \A k \in Kinds : Held(k)' = Held(k)
    BY <2>1, <2>2, OthersStay DEF Kinds
  <2>4. KindsApart' /\ NoneLost'
    BY <2>1, <2>2, <2>3, SlotsSame, CoverageStays, NoneMoves
  <2>5. OnceEach'
    BY <2>1, <2>2 DEF UsesInv, OnceEach
  <2> QED BY <2>4, <2>5 DEF UsesInv
<1>2. ASSUME job = Idle, BeginsOperation
      PROVE  UsesInv'
  BY <1>2, AllocateStackUses, NewSpaceUses, MapPrivateUses, DestroyUses, ReleaseProbeUses,
     PanicUses DEF BeginsOperation
<1>3. ASSUME ContinuesOperation
      PROVE  UsesInv'
  BY <1>3, MapTakesFrameUses, MapMakesTableUses, MapSetsEntryUses, MapFailsUses,
     StackIsBuiltUses, ReleaseUnmapsUses, ReleasePoolsUses, FreesPrivateUses, FreesPml4Uses
     DEF ContinuesOperation
<1> QED BY <1>1, <1>2, <1>3 DEF StackNext

\* The bookkeeping of frames holds in every reachable state.
THEOREM UsesInvariant == StackSpec => []UsesInv
<1>1. StackInit => UsesInv
  BY UsesInvStarts
<1>2. StackInv /\ UsesInv /\ [StackNext]_stackVars => UsesInv'
  BY UsesInvStays
<1> QED BY <1>1, <1>2, StackInvariant, PTL DEF StackSpec

-----------------------------------------------------------------------------
(* From the bookkeeping to the uses the run counts.                          *)

LEMMA UsesAre ==
  ASSUME NEW u
  PROVE  u \in Uses <=>
           \/ \E i \in DOMAIN freeList : u = <<"free", i>>
           \/ \E p \in DOMAIN pageFrame : u = <<"page", p>>
           \/ \E t \in DOMAIN tableFrame : u = <<"table", t>>
           \/ \E s \in spaces : u = <<"pml4", s.pml4>>
           \/ \E s \in spaces : \E f \in s.private : u = <<"private", s.pml4, f>>
           \/ \E f \in JobFrame : u = <<"taken", f>>
           \/ \E f \in JobPml4 : u = <<"pml4", f>>
           \/ \E f \in JobPrivate : u = <<"dying", f>>
<1> DEFINE inPrivate == UNION {{<<"private", s.pml4, f>> : f \in s.private} : s \in spaces}
           taken == IF job.op \in {"task", "probe", "space"} /\ job.frame # NoFrame
                    THEN {<<"taken", job.frame>>} ELSE {}
           root == IF job.op # "idle" /\ job.pml4 # NoPml4
                   THEN {<<"pml4", job.pml4>>} ELSE {}
           dying == IF job.op \in {"release", "free"}
                    THEN {<<"dying", f>> : f \in job.private} ELSE {}
<1>1. u \in inPrivate <=> \E s \in spaces : \E f \in s.private : u = <<"private", s.pml4, f>>
  <2> DEFINE of(s) == {<<"private", s.pml4, f>> : f \in s.private}
  <2>1. \A s : u \in of(s) <=> \E f \in s.private : u = <<"private", s.pml4, f>>
    OBVIOUS
  <2>2. u \in UNION {of(s) : s \in spaces} <=> \E s \in spaces : u \in of(s)
    <3> HIDE DEF of
    <3> QED BY Zenon
  <2> QED BY <2>1, <2>2
<1>2. u \in taken <=> \E f \in JobFrame : u = <<"taken", f>>
  BY DEF JobFrame, IsMapping
<1>3. u \in root <=> \E f \in JobPml4 : u = <<"pml4", f>>
  BY DEF JobPml4
<1>4. u \in dying <=> \E f \in JobPrivate : u = <<"dying", f>>
  BY DEF JobPrivate
<1>5. Uses = {<<"free", i>> : i \in DOMAIN freeList}
             \cup {<<"page", p>> : p \in DOMAIN pageFrame}
             \cup {<<"table", t>> : t \in DOMAIN tableFrame}
             \cup {<<"pml4", s.pml4>> : s \in spaces}
             \cup inPrivate \cup taken \cup root \cup dying
  BY DEF Uses
<1> HIDE DEF inPrivate, taken, root, dying
<1> QED BY <1>1, <1>2, <1>3, <1>4, <1>5

KindOf(u) == IF u[1] = "dying" THEN "private" ELSE u[1]

\* The frame of a use is held for its kind.
LEMMA UseIsHeld ==
  ASSUME NEW u \in Uses
  PROVE  KindOf(u) \in Kinds /\ FrameOf(u) \in Held(KindOf(u))
<1>1. CASE \E i \in DOMAIN freeList : u = <<"free", i>>
  BY <1>1, HeldIs DEF KindOf, Kinds, FrameOf, Range
<1>2. CASE \E p \in DOMAIN pageFrame : u = <<"page", p>>
  BY <1>2, HeldIs DEF KindOf, Kinds, FrameOf, Range
<1>3. CASE \E t \in DOMAIN tableFrame : u = <<"table", t>>
  BY <1>3, HeldIs DEF KindOf, Kinds, FrameOf, Range
<1>4. CASE \E s \in spaces : u = <<"pml4", s.pml4>>
  BY <1>4, HeldIs DEF KindOf, Kinds, FrameOf
<1>5. CASE \E s \in spaces : \E f \in s.private : u = <<"private", s.pml4, f>>
  <2>0. PICK s \in spaces : \E f \in s.private : u = <<"private", s.pml4, f>>
    BY <1>5
  <2>1. PICK f \in s.private : u = <<"private", s.pml4, f>>
    BY <2>0
  <2>2. f \in PrivateOf(spaces)
    BY InPrivateOf
  <2> QED BY <2>1, <2>2, HeldIs DEF KindOf, Kinds, FrameOf
<1>6. CASE \E f \in JobFrame : u = <<"taken", f>>
  BY <1>6, HeldIs DEF KindOf, Kinds, FrameOf
<1>7. CASE \E f \in JobPml4 : u = <<"pml4", f>>
  BY <1>7, HeldIs DEF KindOf, Kinds, FrameOf
<1>8. CASE \E f \in JobPrivate : u = <<"dying", f>>
  BY <1>8, HeldIs DEF KindOf, Kinds, FrameOf
<1> QED BY <1>1, <1>2, <1>3, <1>4, <1>5, <1>6, <1>7, <1>8, UsesAre

\* Within its kind a frame has one use.
LEMMA OneUseOfAKind ==
  ASSUME UsesInv, NEW u \in Uses, NEW v \in Uses,
         KindOf(u) = KindOf(v), FrameOf(u) = FrameOf(v)
  PROVE  u = v
<1>1. CASE \E i \in DOMAIN freeList : u = <<"free", i>>
  <2>1. \E i \in DOMAIN freeList : v = <<"free", i>>
    BY <1>1, UsesAre DEF KindOf
  <2> QED BY <1>1, <2>1 DEF FrameOf, UsesInv, OnceEach
<1>2. CASE \E p \in DOMAIN pageFrame : u = <<"page", p>>
  <2>1. \E p \in DOMAIN pageFrame : v = <<"page", p>>
    BY <1>2, UsesAre DEF KindOf
  <2> QED BY <1>2, <2>1 DEF FrameOf, UsesInv, OnceEach
<1>3. CASE \E t \in DOMAIN tableFrame : u = <<"table", t>>
  <2>1. \E t \in DOMAIN tableFrame : v = <<"table", t>>
    BY <1>3, UsesAre DEF KindOf
  <2> QED BY <1>3, <2>1 DEF FrameOf, UsesInv, OnceEach
<1>4. CASE u[1] = "pml4" \/ u[1] = "taken"
  <2>1. u = <<u[1], FrameOf(u)>>
    BY <1>4, UsesAre DEF FrameOf
  <2>2. v[1] = u[1]
    BY <1>4 DEF KindOf
  <2>3. v = <<v[1], FrameOf(v)>>
    BY <1>4, <2>2, UsesAre DEF FrameOf
  <2> QED BY <2>1, <2>2, <2>3
<1>5. CASE u[1] = "private" \/ u[1] = "dying"
  <2>1. ASSUME NEW w \in Uses, KindOf(w) = "private"
        PROVE  \/ \E s \in spaces : FrameOf(w) \in s.private /\ w = <<"private", s.pml4, FrameOf(w)>>
               \/ FrameOf(w) \in JobPrivate /\ w = <<"dying", FrameOf(w)>>
    BY <2>1, UsesAre DEF KindOf, FrameOf
  <2>2. KindOf(u) = "private" /\ KindOf(v) = "private"
    BY <1>5 DEF KindOf
  <2>3. /\ \A a, b \in spaces : a # b => a.private \cap b.private = {}
        /\ \A a \in spaces : a.private \cap JobPrivate = {}
    BY DEF UsesInv, OnceEach
  <2> QED BY <2>1, <2>2, <2>3
<1> QED BY <1>1, <1>2, <1>3, <1>4, <1>5, UsesAre

\* What is held is in use.
LEMMA HeldIsUsed ==
  ASSUME NEW k \in Kinds, NEW f \in Held(k)
  PROVE  \E u \in Uses : FrameOf(u) = f
<1>1. CASE k = "free"
  <2>1. PICK i \in DOMAIN freeList : f = freeList[i]
    BY <1>1, HeldIs DEF Range
  <2>2. <<"free", i>> \in Uses /\ FrameOf(<<"free", i>>) = f
    BY <2>1, UsesAre DEF FrameOf
  <2> QED BY <2>2
<1>2. CASE k = "page"
  <2>1. PICK p \in DOMAIN pageFrame : f = pageFrame[p]
    BY <1>2, HeldIs DEF Range
  <2>2. <<"page", p>> \in Uses /\ FrameOf(<<"page", p>>) = f
    BY <2>1, UsesAre DEF FrameOf
  <2> QED BY <2>2
<1>3. CASE k = "table"
  <2>1. PICK t \in DOMAIN tableFrame : f = tableFrame[t]
    BY <1>3, HeldIs DEF Range
  <2>2. <<"table", t>> \in Uses /\ FrameOf(<<"table", t>>) = f
    BY <2>1, UsesAre DEF FrameOf
  <2> QED BY <2>2
<1>4. CASE k = "pml4"
  <2>1. f \in JobPml4 \/ \E s \in spaces : f = s.pml4
    BY <1>4, HeldIs
  <2>2. <<"pml4", f>> \in Uses /\ FrameOf(<<"pml4", f>>) = f
    BY <2>1, UsesAre DEF FrameOf
  <2> QED BY <2>2
<1>5. CASE k = "private"
  <2>1. CASE f \in JobPrivate
    <3>1. <<"dying", f>> \in Uses /\ FrameOf(<<"dying", f>>) = f
      BY <2>1, UsesAre DEF FrameOf
    <3> QED BY <3>1
  <2>2. CASE f \in PrivateOf(spaces)
    <3>1. PICK s \in spaces : f \in s.private
      BY <2>2, InPrivateOf
    <3>2. <<"private", s.pml4, f>> \in Uses /\ FrameOf(<<"private", s.pml4, f>>) = f
      BY <3>1, UsesAre DEF FrameOf
    <3> QED BY <3>2
  <2> QED BY <1>5, <2>1, <2>2, HeldIs
<1>6. CASE k = "taken"
  <2>1. f \in JobFrame
    BY <1>6, HeldIs
  <2>2. <<"taken", f>> \in Uses /\ FrameOf(<<"taken", f>>) = f
    BY <2>1, UsesAre DEF FrameOf
  <2> QED BY <2>2
<1> QED BY <1>1, <1>2, <1>3, <1>4, <1>5, <1>6 DEF Kinds

\* Through any sequence of builds, failures and teardowns no frame has two
\* uses, as deallocate_frame's contract in memory/frame_allocator.rs asks of its
\* callers, and none is lost unless a failed build has dropped its slot.
THEOREM FramesKeepOneUse == StackSpec => []FramesHaveOneUse
<1>1. StackInv /\ UsesInv => FramesHaveOneUse
  <2> SUFFICES ASSUME StackInv, UsesInv PROVE FramesHaveOneUse
    OBVIOUS
  <2>1. FramesAreDisjoint
    <3> SUFFICES ASSUME NEW u \in Uses, NEW v \in Uses, FrameOf(u) = FrameOf(v)
                 PROVE  u = v
      BY DEF FramesAreDisjoint
    <3>1. KindOf(u) = KindOf(v)
      BY UseIsHeld DEF UsesInv, KindsApart
    <3> QED BY <3>1, OneUseOfAKind
  <2>2. LeaksOnlyWithASlot
    <3> SUFFICES ASSUME kernel = "runs", Covered
                 PROVE  {FrameOf(u) : u \in Uses} = 0 .. nextFrame - 1
      BY DEF LeaksOnlyWithASlot, Covered
    <3>1. \A u \in Uses : FrameOf(u) \in 0 .. nextFrame - 1
      BY UseIsHeld, HeldIsBelow DEF StackInv
    <3>2. \A f \in 0 .. nextFrame - 1 : \E u \in Uses : FrameOf(u) = f
      BY HeldIsUsed DEF UsesInv, NoneLost
    <3> QED BY <3>1, <3>2
  <2> QED BY <2>1, <2>2 DEF FramesHaveOneUse
<1> QED BY <1>1, StackInvariant, UsesInvariant, PTL
-----------------------------------------------------------------------------
(* What is mapped and in use stays where it is.                              *)

\* Entries that a table keeps.
Kept(entries, after, indices) ==
  \A i \in indices : i \in DOMAIN after /\ after[i] = entries[i]

LEMMA PutKeeps ==
  ASSUME NEW e, NEW i, i \notin DOMAIN e, NEW x
  PROVE  Kept(e, Put(e, i, x), DOMAIN e)
BY DEF Kept, Put

\* Nothing that happens to other stacks and spaces moves the pages of a live
\* stack to other frames, or replaces a table of the region, which every space
\* shares: an address space may copy the shared entries once, when it is made
\* (paging.rs, map_range; address_space.rs, new_sharing_kernel).
LiveMappingsStay ==
  [][ /\ \A slot \in LiveSlots : Kept(pageFrame, pageFrame', PagesOf(slot))
      /\ Kept(tableFrame, tableFrame', DOMAIN tableFrame) ]_stackVars

LEMMA MappingsKept ==
  ASSUME StackInv, [StackNext]_stackVars
  PROVE  /\ \A slot \in LiveSlots : Kept(pageFrame, pageFrame', PagesOf(slot))
         /\ Kept(tableFrame, tableFrame', DOMAIN tableFrame)
<1>1. \A slot \in LiveSlots : PagesOf(slot) \subseteq DOMAIN pageFrame
  BY DEF StackInv, MappedInv
<1>2. ASSUME pageFrame' = pageFrame
      PROVE  \A slot \in LiveSlots : Kept(pageFrame, pageFrame', PagesOf(slot))
  BY <1>1, <1>2 DEF Kept
<1>3. ASSUME tableFrame' = tableFrame
      PROVE  Kept(tableFrame, tableFrame', DOMAIN tableFrame)
  BY <1>3 DEF Kept
<1>4. CASE MapSetsEntry
  <2>1. /\ PageToMap \notin DOMAIN pageFrame /\ tableFrame' = tableFrame
        /\ pageFrame' = Put(pageFrame, PageToMap, job.frame)
    BY <1>4 DEF MapSetsEntry, IsAlreadyMapped
  <2>2. Kept(pageFrame, pageFrame', DOMAIN pageFrame)
    BY <2>1, PutKeeps
  <2> QED BY <1>1, <1>3, <2>1, <2>2 DEF Kept
<1>5. CASE MapMakesTable
  <2>1. /\ TableOf(PageToMap) \notin DOMAIN tableFrame /\ pageFrame' = pageFrame
        /\ tableFrame' = Put(tableFrame, TableOf(PageToMap), NextFree)
    BY <1>5 DEF MapMakesTable, NeedsTable
  <2> QED BY <1>2, <2>1, PutKeeps
<1>6. CASE ReleaseUnmaps
  <2> DEFINE page == PageToMap
  <2>1. /\ job.op = "release" /\ job.done < job.slot.pages /\ tableFrame' = tableFrame
        /\ pageFrame' = [p \in DOMAIN pageFrame \ {page} |-> pageFrame[p]]
        /\ FrameInv /\ JobInv /\ ApartInv
    BY <1>6 DEF ReleaseUnmaps, StackInv, PagesToUnmap
  <2>2. job \in EndJob /\ JobSlots = {job.slot} /\ job.slot \in Slots
    BY <2>1, JobIsKnown DEF Slots
  <2>3. job.slot \in SlotType /\ job.done \in Nat
    BY <2>2 DEF EndJob
  <2>4. page \in PagesOf(job.slot)
    BY <2>1, <2>3, SizesPositive DEF PageToMap, PagesOf
  <2>5. ASSUME NEW slot \in LiveSlots PROVE page \notin PagesOf(slot)
    <3>1. slot \in Slots /\ slot # job.slot
      BY <2>1, <2>2 DEF Slots, ApartInv
    <3>2. slot \in SlotType
      BY <2>1, <3>1, SlotsAreTyped
    <3>3. Extent(slot) \cap Extent(job.slot) = {}
      BY <2>1, <2>2, <3>1 DEF ApartInv, Separate
    <3>4. PagesOf(slot) \subseteq Extent(slot) /\ PagesOf(job.slot) \subseteq Extent(job.slot)
      BY <2>3, <3>2, SizesPositive
    <3> QED BY <2>4, <3>3, <3>4
  <2> HIDE DEF page
  <2> QED BY <1>1, <1>3, <2>1, <2>5 DEF Kept
<1>7. CASE UNCHANGED stackVars
  BY <1>2, <1>3, <1>7 DEF stackVars
<1>8. CASE BeginsOperation
  <2>1. pageFrame' = pageFrame /\ tableFrame' = tableFrame
    BY <1>8 DEF BeginsOperation, AllocateStack, NewSpace, ChooseSlot, MapPrivate, Destroy,
       ReleaseProbe, RunsDry, Panic, regionVars
  <2> QED BY <1>2, <1>3, <2>1
<1>9. CASE \/ MapTakesFrame \/ MapFails \/ StackIsBuilt \/ ReleasePools \/ FreesPrivate
           \/ FreesPml4
  <2>1. pageFrame' = pageFrame /\ tableFrame' = tableFrame
    BY <1>9 DEF MapTakesFrame, MapFails, StackIsBuilt, ReleasePools, FreesPrivate, FreesPml4,
       regionVars
  <2> QED BY <1>2, <1>3, <2>1
<1> QED BY <1>4, <1>5, <1>6, <1>7, <1>8, <1>9 DEF StackNext, ContinuesOperation

\* Through any sequence of builds, failures and teardowns, in every space, a
\* live stack keeps its frames and its tables until it is itself torn down
\* (memory/kernel_stack.rs, release).
THEOREM LiveStacksKeepTheirFrames == StackSpec => LiveMappingsStay
<1>1. StackInv /\ [StackNext]_stackVars =>
        [ /\ \A slot \in LiveSlots : Kept(pageFrame, pageFrame', PagesOf(slot))
          /\ Kept(tableFrame, tableFrame', DOMAIN tableFrame) ]_stackVars
  BY MappingsKept
<1> QED BY <1>1, StackInvariant, PTL DEF StackSpec, LiveMappingsStay
=============================================================================
