---------------------------- MODULE KernelStacks ----------------------------
(***************************************************************************)
(* The kernel's physical frames and the guarded stacks built on them: the   *)
(* bump allocator with its LIFO free list (memory/frame_allocator.rs), the  *)
(* shared stack region with its pool of released slots                      *)
(* (memory/kernel_stack.rs, memory/paging.rs) and the address spaces that   *)
(* own a stack, a top-level table and private frames                        *)
(* (experimental/address_space.rs).                                         *)
(*                                                                         *)
(* Offsets in the region are counted in pages.  A slot is its guard page    *)
(* `at' and the `pages' pages above it.  The page tables of the region are  *)
(* one level: a table of PagesPerTable entries, built on demand, shared by  *)
(* all spaces and never freed.  An allocation proceeds frame by frame,      *)
(* because it may run dry at any of them.                                   *)
(***************************************************************************)
EXTENDS Integers, SequencesExt

CONSTANTS NumFrames,      \* usable physical frames
          StackSizes,     \* page counts that are asked for
          PagesPerTable,  \* entries of one page table
          RegionPages,    \* bound: pages of the region that are ever carved
          MaxSpaces       \* bound: address spaces alive at once

ASSUME StackAssumption ==
    /\ NumFrames \in Nat
    /\ StackSizes \subseteq Nat \ {0}
    /\ PagesPerTable \in Nat \ {0}
    /\ RegionPages \in Nat
    /\ MaxSpaces \in Nat

VARIABLES nextFrame,   \* next_frame_number
          freeList,    \* free_list, popped at its end
          pageFrame,   \* mapped page of the region -> frame
          tableFrame,  \* table of the region -> frame
          nextOffset,  \* NEXT_OFFSET
          pool,        \* FREED_SLOTS
          stacks,      \* live slots of scheduler tasks and probes
          spaces,      \* live address spaces
          job,         \* the allocation or teardown that is under way
          kernel       \* "runs" or "panicked"

frameVars == <<nextFrame, freeList>>
regionVars == <<pageFrame, tableFrame, nextOffset, pool>>
stackVars == <<nextFrame, freeList, pageFrame, tableFrame, nextOffset, pool,
               stacks, spaces, job, kernel>>

Frame == 0 .. NumFrames - 1
Slot == [at : 0 .. RegionPages, pages : StackSizes]
Space == [pml4 : Frame, slot : Slot, private : SUBSET Frame]
NoFrame == -1
Idle == [op |-> "idle"]
NoPml4 == NoFrame

\* A page-table entry is set.
Put(entries, index, frame) ==
    [i \in DOMAIN entries \cup {index} |-> IF i = index THEN frame ELSE entries[i]]

\* The pages a stack lives on, and those with its guard below them.
PagesOf(slot) == slot.at + 1 .. slot.at + slot.pages
Extent(slot) == slot.at .. slot.at + slot.pages

-----------------------------------------------------------------------------
StackInit ==
    /\ nextFrame = 0
    /\ freeList = <<>>
    /\ pageFrame = <<>>
    /\ tableFrame = <<>>
    /\ nextOffset = 0
    /\ pool = <<>>
    /\ stacks = {}
    /\ spaces = {}
    /\ job = Idle
    /\ kernel = "runs"

\* allocate_frame: the frame freed last, or else the next one never used.
HasFrame == freeList # <<>> \/ nextFrame < NumFrames
NextFree == IF freeList # <<>> THEN Last(freeList) ELSE nextFrame

AllocateFrame ==
    /\ HasFrame
    /\ IF freeList # <<>>
       THEN freeList' = Front(freeList) /\ UNCHANGED nextFrame
       ELSE nextFrame' = nextFrame + 1 /\ UNCHANGED freeList

DeallocateFrame(frame) ==
    /\ freeList' = Append(freeList, frame)
    /\ UNCHANGED nextFrame

\* Every caller of these operations but the guard demo's probe unwraps the
\* result: a failure ends the kernel.
Panic ==
    /\ kernel' = "panicked"
    /\ job' = Idle
    /\ UNCHANGED <<frameVars, regionVars, stacks, spaces>>

-----------------------------------------------------------------------------
(* kernel_stack::allocate                                                   *)

\* The released slot that serves n pages: an exact fit, else the smallest
\* larger one, the earlier in the pool among equals.
BestFit(n) ==
    LET fits == {i \in DOMAIN pool : pool[i].pages >= n}
    IN {i \in fits : \A j \in fits \ {i} :
            \/ pool[i].pages < pool[j].pages
            \/ pool[i].pages = pool[j].pages /\ i < j}

Mapping(op, slot, reused, pml4) ==
    [op |-> op, slot |-> slot, reused |-> reused, pml4 |-> pml4,
     done |-> 0, frame |-> NoFrame]

\* A reused slot is handed out whole, whatever was asked for.
ReuseSlot(n, op, pml4) ==
    \E i \in BestFit(n) :
        /\ pool' = RemoveAt(pool, i)
        /\ job' = Mapping(op, pool[i], TRUE, pml4)
        /\ UNCHANGED nextOffset

\* Mutant: the stride leaves no room for the guard page.
ForgetsGuard(n, op, pml4) ==
    /\ BestFit(n) = {}
    /\ nextOffset + n <= RegionPages
    /\ nextOffset' = nextOffset + n
    /\ job' = Mapping(op, [at |-> nextOffset, pages |-> n], FALSE, pml4)
    /\ UNCHANGED pool

BumpSlot(n, op, pml4) ==
    /\ BestFit(n) = {}
    /\ nextOffset + n + 1 <= RegionPages
    /\ nextOffset' = nextOffset + n + 1
    /\ job' = Mapping(op, [at |-> nextOffset, pages |-> n], FALSE, pml4)
    /\ UNCHANGED pool

ChooseSlot(n, op, pml4) ==
    /\ ReuseSlot(n, op, pml4) \/ BumpSlot(n, op, pml4)
    /\ UNCHANGED <<pageFrame, tableFrame, stacks, spaces, kernel>>

\* A scheduler task, the guard demo or the reuse self-test asks for a stack.
AllocateStack(n, op) ==
    /\ op \in {"task", "probe"}
    /\ ChooseSlot(n, op, NoPml4)
    /\ UNCHANGED frameVars

-----------------------------------------------------------------------------
(* map_slot over paging::map_range, one frame at a time                     *)

IsMapping == job.op \in {"task", "probe", "space"}
PageToMap == job.slot.at + 1 + job.done
TableOf(page) == page \div PagesPerTable
IsWhole == IsMapping /\ job.done = job.slot.pages

NeedsFrame == IsMapping /\ ~IsWhole /\ job.frame = NoFrame
NeedsTable == /\ IsMapping
              /\ job.frame # NoFrame
              /\ TableOf(PageToMap) \notin DOMAIN tableFrame
IsAlreadyMapped == /\ IsMapping
                   /\ job.frame # NoFrame
                   /\ PageToMap \in DOMAIN pageFrame

MapTakesFrame ==
    /\ NeedsFrame
    /\ AllocateFrame
    /\ job' = [job EXCEPT !.frame = NextFree]
    /\ UNCHANGED <<regionVars, stacks, spaces, kernel>>

MapMakesTable ==
    /\ NeedsTable
    /\ AllocateFrame
    /\ tableFrame' = Put(tableFrame, TableOf(PageToMap), NextFree)
    /\ UNCHANGED <<pageFrame, nextOffset, pool, stacks, spaces, job, kernel>>

MapSetsEntry ==
    /\ IsMapping
    /\ job.frame # NoFrame
    /\ ~NeedsTable
    /\ ~IsAlreadyMapped
    /\ pageFrame' = Put(pageFrame, PageToMap, job.frame)
    /\ job' = [job EXCEPT !.done = @ + 1, !.frame = NoFrame]
    /\ UNCHANGED <<frameVars, tableFrame, nextOffset, pool, stacks, spaces, kernel>>

\* map_range stops short: no frame for the page or for its table, or the page
\* is mapped already.  What it has mapped stays mapped, and a frame it has
\* taken for the page is not given back.
MapFails ==
    /\ IsMapping
    /\ \/ (NeedsFrame \/ NeedsTable) /\ ~HasFrame
       \/ ~NeedsTable /\ IsAlreadyMapped
    /\ kernel' = IF job.op = "probe" /\ ~job.reused THEN kernel ELSE "panicked"
    /\ job' = Idle
    /\ UNCHANGED <<frameVars, regionVars, stacks, spaces>>

StackIsBuilt ==
    /\ IsWhole
    /\ IF job.op = "space"
       THEN /\ spaces' = spaces \cup
                   {[pml4 |-> job.pml4, slot |-> job.slot, private |-> {}]}
            /\ UNCHANGED stacks
       ELSE /\ stacks' = stacks \cup {[slot |-> job.slot, owner |-> job.op]}
            /\ UNCHANGED spaces
    /\ job' = Idle
    /\ UNCHANGED <<frameVars, regionVars, kernel>>

-----------------------------------------------------------------------------
(* AddressSpace                                                             *)

\* new_sharing_kernel_with_stack_pages: the top-level table, then the stack.
NewSpace(n) ==
    /\ Cardinality(spaces) < MaxSpaces
    /\ AllocateFrame
    /\ ChooseSlot(n, "space", NextFree)

\* A loader maps a page, or makes a table for it, in the space's own part.
MapPrivate(space) ==
    /\ AllocateFrame
    /\ spaces' = (spaces \ {space}) \cup
           {[space EXCEPT !.private = @ \cup {NextFree}]}
    /\ UNCHANGED <<regionVars, stacks, job, kernel>>

RunsDry == ~HasFrame /\ Panic

\* Mutant: the walk enters the shared entries too.
WalkSharedTables(private) == private \cup Range(tableFrame)

\* free_table_tree walks every entry but the shared ones.
FreedByWalk(private) == private

\* What is torn down: a space, or a probe's stack that is only released.
Teardown(slot, private, pml4) ==
    [op |-> "release", slot |-> slot, private |-> private, pml4 |-> pml4, done |-> 0]

Destroy(space) ==
    /\ spaces' = spaces \ {space}
    /\ job' = Teardown(space.slot, FreedByWalk(space.private), space.pml4)
    /\ UNCHANGED <<frameVars, regionVars, stacks, kernel>>

ReleaseProbe(stack) ==
    /\ stack.owner = "probe"
    /\ stacks' = stacks \ {stack}
    /\ job' = Teardown(stack.slot, {}, NoPml4)
    /\ UNCHANGED <<frameVars, regionVars, spaces, kernel>>

\* Mutant: the loop ends one page early.
OnePageShort(slot) == slot.pages - 1

PagesToUnmap(slot) == slot.pages

\* release: unmaps a page and frees its frame, if there was one.
ReleaseUnmaps ==
    /\ job.op = "release"
    /\ job.done < PagesToUnmap(job.slot)
    /\ job' = [job EXCEPT !.done = @ + 1]
    /\ freeList' = freeList \o (IF PageToMap \in DOMAIN pageFrame
                               THEN <<pageFrame[PageToMap]>> ELSE <<>>)
    /\ pageFrame' = [p \in DOMAIN pageFrame \ {PageToMap} |-> pageFrame[p]]
    /\ UNCHANGED nextFrame
    /\ UNCHANGED <<tableFrame, nextOffset, pool, stacks, spaces, kernel>>

ReleasePools ==
    /\ job.op = "release"
    /\ job.done = PagesToUnmap(job.slot)
    /\ pool' = Append(pool, job.slot)
    /\ job' = IF job.pml4 = NoPml4 THEN Idle ELSE [job EXCEPT !.op = "free"]
    /\ UNCHANGED <<frameVars, pageFrame, tableFrame, nextOffset, stacks, spaces, kernel>>

FreesPrivate ==
    /\ job.op = "free"
    /\ job.private # {}
    /\ \E frame \in job.private :
        /\ DeallocateFrame(frame)
        /\ job' = [job EXCEPT !.private = @ \ {frame}]
    /\ UNCHANGED <<regionVars, stacks, spaces, kernel>>

FreesPml4 ==
    /\ job.op = "free"
    /\ job.private = {}
    /\ DeallocateFrame(job.pml4)
    /\ job' = Idle
    /\ UNCHANGED <<regionVars, stacks, spaces, kernel>>
-----------------------------------------------------------------------------
BeginsOperation ==
    \/ \E n \in StackSizes, op \in {"task", "probe"} : AllocateStack(n, op)
    \/ \E n \in StackSizes : NewSpace(n)
    \/ \E space \in spaces : MapPrivate(space) \/ Destroy(space)
    \/ \E stack \in stacks : ReleaseProbe(stack)
    \/ RunsDry

ContinuesOperation ==
    \/ MapTakesFrame
    \/ MapMakesTable
    \/ MapSetsEntry
    \/ MapFails
    \/ StackIsBuilt
    \/ ReleaseUnmaps
    \/ ReleasePools
    \/ FreesPrivate
    \/ FreesPml4

\* Operations run to their end one after another: one core, no preemption in
\* the kernel.
StackNext ==
    /\ kernel = "runs"
    /\ \/ job = Idle /\ BeginsOperation
       \/ ContinuesOperation

StackSpec == StackInit /\ [][StackNext]_stackVars

-----------------------------------------------------------------------------
(* Properties                                                               *)

JobSlots == IF job.op \in {"idle", "free"} THEN {} ELSE {job.slot}
LiveSlots == {stack.slot : stack \in stacks} \cup {space.slot : space \in spaces}
Slots == LiveSlots \cup Range(pool) \cup JobSlots

\* Types: every frame is one of the machine's, every page of the region lies
\* below NEXT_OFFSET, and no frame above next_frame_number is in use.
StackTypeOK ==
    /\ nextFrame \in 0 .. NumFrames
    /\ freeList \in Seq(0 .. nextFrame - 1)
    /\ DOMAIN pageFrame \subseteq 0 .. nextOffset - 1
    /\ Range(pageFrame) \subseteq 0 .. nextFrame - 1
    /\ DOMAIN tableFrame \subseteq {TableOf(p) : p \in 0 .. RegionPages}
    /\ Range(tableFrame) \subseteq 0 .. nextFrame - 1
    /\ nextOffset \in 0 .. RegionPages
    /\ pool \in Seq(Slot)
    /\ stacks \subseteq [slot : Slot, owner : {"task", "probe"}]
    /\ spaces \subseteq Space
    /\ kernel \in {"runs", "panicked"}

\* Everything a frame can be used for at the moment.
Uses ==
    {<<"free", i>> : i \in DOMAIN freeList}
    \cup {<<"page", p>> : p \in DOMAIN pageFrame}
    \cup {<<"table", t>> : t \in DOMAIN tableFrame}
    \cup {<<"pml4", s.pml4>> : s \in spaces}
    \cup (UNION {{<<"private", s.pml4, f>> : f \in s.private} : s \in spaces})
    \cup (IF job.op \in {"task", "probe", "space"} /\ job.frame # NoFrame
          THEN {<<"taken", job.frame>>} ELSE {})
    \cup (IF job.op # "idle" /\ job.pml4 # NoPml4 THEN {<<"pml4", job.pml4>>} ELSE {})
    \cup (IF job.op \in {"release", "free"}
          THEN {<<"dying", f>> : f \in job.private} ELSE {})

FrameOf(use) ==
    CASE use[1] = "free" -> freeList[use[2]]
      [] use[1] = "page" -> pageFrame[use[2]]
      [] use[1] = "table" -> tableFrame[use[2]]
      [] use[1] = "private" -> use[3]
      [] OTHER -> use[2]

\* No frame backs two mappings, or is free and mapped at once: the aliasing
\* that deallocate_frame's contract warns of, over any sequence of builds,
\* failures and teardowns.
FramesAreDisjoint ==
    \A u, v \in Uses : FrameOf(u) = FrameOf(v) => u = v

\* While every page carved from the region still belongs to a slot somebody
\* holds, no frame has leaked: only a failed allocation, which drops its slot,
\* may lose frames.
LeaksOnlyWithASlot ==
    (kernel = "runs" /\ 0 .. nextOffset - 1 = UNION {Extent(s) : s \in Slots})
        => {FrameOf(u) : u \in Uses} = 0 .. nextFrame - 1

\* Every frame ever handed out has one use at a time, and none is forgotten.
FramesHaveOneUse == FramesAreDisjoint /\ LeaksOnlyWithASlot

\* The guard discipline across reuse and absorption: slots never overlap, no
\* page below or above a stack is mapped, a live stack is mapped from end to
\* end, and a pooled slot not at all.
StacksStandApart ==
    /\ \A s, r \in Slots : s # r => Extent(s) \cap Extent(r) = {}
    /\ \A s \in Slots : /\ s.at \notin DOMAIN pageFrame
                        /\ s.at + s.pages + 1 \notin DOMAIN pageFrame
    /\ \A s \in LiveSlots : PagesOf(s) \subseteq DOMAIN pageFrame
    /\ \A s \in Range(pool) : PagesOf(s) \cap DOMAIN pageFrame = {}
    /\ \A i, j \in DOMAIN pool : pool[i] = pool[j] => i = j

\* allocate expects that a released slot re-maps with identical bounds: that
\* fails for want of frames and for no other reason.
PanicsOnlyDry == kernel = "panicked" => ~HasFrame

\* The two together: what every holder of a guarded stack relies on, whatever
\* slot it was given and however often that slot has been released.
StackDiscipline == StacksStandApart /\ PanicsOnlyDry
=============================================================================
