--------------------------- MODULE Mailboxes_proofs ---------------------------
(***************************************************************************)
(* Proofs about Scheduler and about Mailboxes, which composes the mailbox  *)
(* calls with it, for every number of tasks, capacity, budget and set of   *)
(* destinations.  In a rotation that two perpetual tasks never leave, no   *)
(* switch resumes a spent context, no terminated task gets the core back,  *)
(* exactly the current task is Running, and the round-robin scan never     *)
(* passes over a Ready task.  In that rotation the mailbox calls use the   *)
(* scheduler as Scheduler says, no wake is lost, no registration goes      *)
(* stale and no scheduler call is ever refused.                            *)
(***************************************************************************)
EXTENDS Mailboxes, TLAPS, WellFoundedInduction, SequenceTheorems

----------------------------------------------------------------------------
(* What makes the CHOOSE of the first Ready task well defined.              *)

LessThan == OpToRel(<, Nat)

LEMMA LessThanPairs == LessThan = { p \in Nat \X Nat : p[1] < p[2] }
  BY DEF LessThan, OpToRel

LEMMA LessThanWellFounded == IsWellFoundedOn(LessThan, Nat)
  BY NatLessThanWellFounded DEF LessThan

\* A non-empty set of naturals has a least element.
LEMMA LeastNatural ==
  ASSUME NEW S \in SUBSET Nat, S # {}
  PROVE  \E m \in S : \A k \in S : m <= k
<1>1. PICK m \in S : \A k \in S : ~ (<<k, m>> \in LessThan)
  BY WFMin, LessThanWellFounded
<1>2. ASSUME NEW k \in S PROVE m <= k
  <2>1. ~ (<<k, m>> \in { p \in Nat \X Nat : p[1] < p[2] })
    BY <1>1, LessThanPairs
  <2>2. <<k, m>> \in Nat \X Nat
    OBVIOUS
  <2> QED BY <2>1, <2>2
<1> QED BY <1>2

----------------------------------------------------------------------------
(* Arithmetic of the scan.                                                  *)

\* Within one turn, the modulus is at most one subtraction.
LEMMA OneTurn ==
  ASSUME NEW n \in Nat \ {0}, NEW s \in 0 .. n - 1, NEW o \in 0 .. n
  PROVE  (s + o) % n = IF s + o < n THEN s + o ELSE s + o - n
<1>1. CASE s + o < n
  BY <1>1, SMT
<1>2. CASE s + o >= n
  BY <1>2, SMT
<1> QED BY <1>1, <1>2

\* How far ahead of s the index u is, in the order of the rotation.
LEMMA Ahead ==
  ASSUME NEW n \in Nat \ {0}, NEW s \in 0 .. n - 1, NEW u \in 0 .. n - 1
  PROVE  (u - s) % n = IF u >= s THEN u - s ELSE u - s + n
<1>1. CASE u >= s
  BY <1>1, SMT
<1>2. CASE u < s
  BY <1>2, SMT
<1> QED BY <1>1, <1>2

\* pick_next_ready finds a Ready task when there is one, and it is the nearest:
\* it never lies beyond a Ready task, and is the caller only if nobody else is.
LEMMA PickIsNearest ==
  ASSUME NEW st, NEW n \in Nat \ {0}, NEW s \in 0 .. n - 1,
         NEW u \in 0 .. n - 1, st[u] = "Ready", u # s
  PROVE  LET c == PickNextReady(st, n, s)
         IN  /\ ReadyAt(st, n, s) # {}
             /\ c \in 0 .. n - 1
             /\ st[c] = "Ready"
             /\ c # s
             /\ c # u => (u - c) % n < (u - s) % n
<1> DEFINE S == ReadyAt(st, n, s)
           d == IF u >= s THEN u - s ELSE u - s + n
           first == CHOOSE o \in S : \A p \in S : o <= p
           c == (s + first) % n
<1>1. d \in 1 .. n - 1 /\ u = IF s + d < n THEN s + d ELSE s + d - n
  OBVIOUS
<1>2. (u - s) % n = d
  BY Ahead
<1> HIDE DEF d
<1>3. (s + d) % n = u
  <2>1. d \in 0 .. n
    BY <1>1
  <2>2. (s + d) % n = IF s + d < n THEN s + d ELSE s + d - n
    BY <2>1, OneTurn, Zenon
  <2> QED BY <1>1, <2>2
<1>4. S \in SUBSET Nat /\ d \in S
  BY <1>1, <1>3 DEF ReadyAt
<1>5. first \in S /\ \A p \in S : first <= p
  BY <1>4, LeastNatural
<1>6. first \in 1 .. n /\ st[c] = "Ready"
  BY <1>5 DEF ReadyAt
<1>7. first <= d
  BY <1>4, <1>5
<1> HIDE DEF first
<1>8. c = IF s + first < n THEN s + first ELSE s + first - n
  <2>1. first \in 0 .. n
    BY <1>6
  <2> QED BY <2>1, OneTurn, Zenon
<1>9. c \in 0 .. n - 1 /\ c # s
  BY <1>1, <1>6, <1>7, <1>8
<1> HIDE DEF c
<1>10. c # u => (u - c) % n < (u - s) % n
  <2>1. (u - c) % n = IF u >= c THEN u - c ELSE u - c + n
    BY <1>9, Ahead, Zenon
  <2> QED BY <1>1, <1>2, <1>6, <1>7, <1>8, <1>9, <2>1
<1>11. PickNextReady(st, n, s) = c /\ S # {}
  BY <1>4 DEF PickNextReady, c, first
<1> QED BY <1>6, <1>9, <1>10, <1>11

----------------------------------------------------------------------------
(* The inductive invariant of the rotation.                                 *)

\* A task's saved context is fresh exactly while it is off the core.
ContextsFresh == \A t \in Task : t < tasks => (saved[t] <=> t # current)

\* The two perpetual tasks are never out of the rotation once spawned.
InRotation == \A p \in {0, 1} : p < tasks => state[p] \in {"Ready", "Running"}

SchedInv == SchedTypeOK /\ SoleRunner /\ KernelLives /\ ContextsFresh /\ InRotation

\* What yield_task may be entered with: only the caller has been moved.
Entered(st) ==
  /\ st \in [Task -> LifecycleState]
  /\ st[current] \in {"Running", "Blocked", "Terminated"}
  /\ \A t \in Task : t # current => st[t] = state[t]

\* While another task is Ready, a yield switches to a task that is not the
\* caller, resumes a fresh context, and leaves one task Running.
LEMMA SwitchKeepsInv ==
  ASSUME SchedInv, NEW st, Entered(st),
         NEW u \in 0 .. tasks - 1, u # current, st[u] = "Ready",
         st[current] \in {"Blocked", "Terminated"} => current \notin {0, 1},
         rejected' \in BOOLEAN,
         SwitchTo(st)
  PROVE  SchedInv'
<1> DEFINE n == tasks
           sus == Suspended(st)
           next == PickNextReady(sus, tasks, current)
<1> USE SchedulerAssumption
<1>1. /\ n \in 1 .. MaxTasks /\ current \in 0 .. n - 1
      /\ state \in [Task -> LifecycleState] /\ saved \in [Task -> BOOLEAN]
      /\ \A t \in Task : state[t] = "Absent" <=> t >= n
      /\ \A t \in Task : state[t] = "Running" <=> t = current
      /\ halt = "no"
  BY DEF SchedInv, SchedTypeOK, SoleRunner, KernelLives
<1>2. /\ sus \in [Task -> LifecycleState]
      /\ sus[current] \in {"Ready", "Blocked", "Terminated"}
      /\ sus[current] = "Ready" <=> st[current] = "Running"
      /\ \A t \in Task : t # current => sus[t] = state[t]
  BY <1>1 DEF Entered, Suspended, SetState, LegalTransition, Task, LifecycleState
<1>3. sus[u] = "Ready"
  BY <1>1, <1>2 DEF Entered, Task
<1>4. next \in 0 .. n - 1 /\ sus[next] = "Ready" /\ next # current
  BY <1>1, <1>3, PickIsNearest
<1> HIDE DEF sus, next
<1>5. /\ state' = [sus EXCEPT ![next] = "Running"]
      /\ current' = next
      /\ halt' \in IF saved[next] THEN {halt} ELSE {halt, "stale_context"}
      /\ saved' = [saved EXCEPT ![current] = TRUE, ![next] = FALSE]
      /\ tasks' = tasks
  BY <1>4 DEF SwitchTo, SetState, LegalTransition, sus, next
<1>6. saved[next]
  BY <1>1, <1>4 DEF SchedInv, ContextsFresh, Task
<1>7. SchedTypeOK'
  BY <1>1, <1>2, <1>4, <1>5, <1>6 DEF SchedTypeOK, LifecycleState, Task
<1>8. SoleRunner'
  BY <1>1, <1>2, <1>4, <1>5 DEF SoleRunner, Task
<1>9. KernelLives'
  BY <1>1, <1>5, <1>6 DEF KernelLives
<1>10. ContextsFresh'
  BY <1>1, <1>4, <1>5 DEF SchedInv, ContextsFresh, Task
<1>11. InRotation'
  <2> SUFFICES ASSUME NEW p \in {0, 1}, p < tasks
               PROVE  state'[p] \in {"Ready", "Running"}
    BY <1>5 DEF InRotation
  <2>1. p \in Task /\ state[p] \in {"Ready", "Running"}
    BY <1>1 DEF SchedInv, InRotation, Task
  <2>2. sus[p] \in {"Ready", "Running"}
    BY <1>2, <2>1 DEF Entered
  <2> QED BY <1>2, <1>4, <1>5, <2>1, <2>2 DEF Task
<1> QED BY <1>7, <1>8, <1>9, <1>10, <1>11 DEF SchedInv

\* With two perpetual tasks spawned there is always somebody else to run.
LEMMA SomebodyElse ==
  ASSUME SchedInv, tasks >= 2
  PROVE  \E u \in 0 .. tasks - 1 : u # current /\ state[u] = "Ready"
<1> USE SchedulerAssumption
<1>1. current \in 0 .. tasks - 1 /\ tasks \in 1 .. MaxTasks
  BY DEF SchedInv, SchedTypeOK
<1>2. PICK u \in {0, 1} : u # current
  BY <1>1
<1>3. u \in 0 .. tasks - 1 /\ u \in Task
  BY <1>1, <1>2 DEF Task
<1>4. state[u] = "Ready"
  <2>1. u < tasks
    BY <1>1, <1>3
  <2>2. state[u] # "Running"
    BY <1>2, <1>3 DEF SchedInv, SoleRunner
  <2> QED BY <2>1, <2>2 DEF SchedInv, InRotation
<1> QED BY <1>2, <1>3, <1>4

\* A task that may block or terminate is not one of the two, so both are spawned.
LEMMA LeaverIsNotPerpetual ==
  ASSUME TwoPerpetual, SchedInv, current \notin Perpetual
  PROVE  tasks >= 2 /\ current \notin {0, 1}
  BY SchedulerAssumption DEF TwoPerpetual, SchedInv, SchedTypeOK

LEMMA InitSchedInv == SchedInit => SchedInv
<1> SUFFICES ASSUME SchedInit PROVE SchedInv
  OBVIOUS
<1> USE SchedulerAssumption
<1>1. SchedTypeOK
  <2>1. state \in [Task -> LifecycleState] /\ saved \in [Task -> BOOLEAN]
    BY DEF SchedInit, LifecycleState
  <2>2. \A t \in Task : state[t] = "Absent" <=> t >= tasks
    BY DEF SchedInit, Task
  <2>3. tasks \in 1 .. MaxTasks /\ current \in 0 .. tasks - 1
    BY DEF SchedInit
  <2>4. rejected \in BOOLEAN /\ halt \in {"no", "stale_context", "panic"}
    BY DEF SchedInit
  <2> QED BY <2>1, <2>2, <2>3, <2>4 DEF SchedTypeOK
<1>2. SoleRunner /\ KernelLives
  BY DEF SchedInit, SoleRunner, KernelLives
<1>3. ContextsFresh /\ InRotation
  BY DEF SchedInit, ContextsFresh, InRotation, Task
<1> QED BY <1>1, <1>2, <1>3 DEF SchedInv

LEMMA YieldKeepsInv ==
  ASSUME SchedInv, YieldTask
  PROVE  SchedInv'
<1> USE SchedulerAssumption
<1>1. Entered(state)
  BY DEF SchedInv, SchedTypeOK, SoleRunner, Entered, Task
<1>2. rejected' \in BOOLEAN /\ state[current] = "Running"
  BY DEF YieldTask, SchedInv, SchedTypeOK, SoleRunner, Task
<1>3. CASE SwitchTo(state)
  <2>1. tasks >= 2
    BY <1>3 DEF SwitchTo, Dispatchable
  <2> QED BY <1>1, <1>2, <1>3, <2>1, SomebodyElse, SwitchKeepsInv
<1>4. CASE YieldReturns(state)
  <2>1. tasks < 2
    <3> SUFFICES ASSUME tasks >= 2 PROVE FALSE
      BY DEF SchedInv, SchedTypeOK
    <3>1. PICK u \in 0 .. tasks - 1 : u # current /\ state[u] = "Ready"
      BY SomebodyElse
    <3>2. Suspended(state)[u] = "Ready"
      BY <3>1 DEF Suspended, SetState, SchedInv, SchedTypeOK, Task
    <3>3. tasks \in Nat \ {0} /\ current \in 0 .. tasks - 1
      BY DEF SchedInv, SchedTypeOK
    <3>4. ReadyAt(Suspended(state), tasks, current) # {}
      BY <3>1, <3>2, <3>3, PickIsNearest
    <3> QED BY <1>4, <3>4 DEF YieldReturns, Dispatchable
  <2>2. UNCHANGED schedVars
    BY <1>4, <2>1 DEF YieldTask, YieldReturns, schedVars
  <2> QED BY <2>2 DEF schedVars, SchedInv, SchedTypeOK, SoleRunner, KernelLives,
                      ContextsFresh, InRotation
<1> QED BY <1>3, <1>4 DEF YieldTask, YieldFrom

\* block_current and terminate_current never come back to a caller that left.
LEMMA DepartureSwitches ==
  ASSUME TwoPerpetual, SchedInv, current \notin Perpetual,
         NEW to \in {"Blocked", "Terminated"},
         rejected' \in BOOLEAN
  PROVE  LET st == [state EXCEPT ![current] = to]
         IN  /\ Dispatchable(st)
             /\ SwitchTo(st) => SchedInv'
<1> DEFINE st == [state EXCEPT ![current] = to]
<1> USE SchedulerAssumption
<1>1. tasks >= 2 /\ current \notin {0, 1}
  BY LeaverIsNotPerpetual
<1>2. PICK u \in 0 .. tasks - 1 : u # current /\ state[u] = "Ready"
  BY <1>1, SomebodyElse
<1>3. Entered(st) /\ st[u] = "Ready" /\ st[current] = to
  BY <1>2 DEF Entered, SchedInv, SchedTypeOK, Task, LifecycleState
<1>4. Suspended(st) = st
  BY <1>3 DEF Suspended
<1>5. tasks \in Nat \ {0} /\ current \in 0 .. tasks - 1
  BY DEF SchedInv, SchedTypeOK
<1> HIDE DEF st
<1>6. Dispatchable(st)
  BY <1>1, <1>2, <1>3, <1>4, <1>5, PickIsNearest DEF Dispatchable
<1>7. SwitchTo(st) => SchedInv'
  BY <1>1, <1>2, <1>3, SwitchKeepsInv
<1> QED BY <1>6, <1>7 DEF st

LEMMA BlockKeepsInv ==
  ASSUME TwoPerpetual, SchedInv, BlockCurrent
  PROVE  SchedInv'
<1> DEFINE st == [state EXCEPT ![current] = "Blocked"]
<1>1. LegalTransition(state[current], "Blocked")
  BY SchedulerAssumption DEF SchedInv, SchedTypeOK, SoleRunner, LegalTransition, Task
<1>2. YieldFrom(st) /\ rejected' = rejected /\ current \notin Perpetual
  BY <1>1 DEF BlockCurrent
<1>3. rejected' \in BOOLEAN
  BY <1>2 DEF SchedInv, SchedTypeOK
<1>4. Dispatchable(st) /\ (SwitchTo(st) => SchedInv')
  BY <1>2, <1>3, DepartureSwitches
<1> HIDE DEF st
<1> QED BY <1>2, <1>4 DEF YieldFrom, YieldReturns

LEMMA TerminateKeepsInv ==
  ASSUME TwoPerpetual, SchedInv, TerminateCurrent
  PROVE  SchedInv'
<1> DEFINE st == [state EXCEPT ![current] = "Terminated"]
<1>1. LegalTransition(state[current], "Terminating")
  BY SchedulerAssumption DEF SchedInv, SchedTypeOK, SoleRunner, LegalTransition, Task
<1>2. rejected' = rejected /\ current \notin Perpetual
  BY <1>1 DEF TerminateCurrent, SchedInv, SchedTypeOK
<1>3. rejected' \in BOOLEAN
  BY <1>2 DEF SchedInv, SchedTypeOK
<1>4. Dispatchable(st) /\ (SwitchTo(st) => SchedInv')
  BY <1>2, <1>3, DepartureSwitches
<1>5. SwitchTo(st)
  BY <1>1, <1>4 DEF TerminateCurrent
<1> QED BY <1>4, <1>5

LEMMA UnblockKeepsInv ==
  ASSUME SchedInv, NEW ids \in SUBSET (Task \ {current}), UnblockTasks(ids)
  PROVE  SchedInv'
<1> USE SchedulerAssumption
<1>1. \A t \in Task : \/ state'[t] = state[t]
                       \/ /\ t # current
                          /\ state[t] \in {"Created", "Blocked"}
                          /\ state'[t] = "Ready"
  BY DEF UnblockTasks, SetState, LegalTransition, SchedInv, SchedTypeOK, SoleRunner
<1>2. /\ DOMAIN state' = Task /\ state' = [t \in Task |-> state'[t]]
      /\ UNCHANGED <<tasks, current, saved, halt>>
      /\ rejected' \in BOOLEAN
  BY DEF UnblockTasks, SchedInv, SchedTypeOK
<1>3. SchedTypeOK'
  BY <1>1, <1>2 DEF SchedInv, SchedTypeOK, LifecycleState
<1>4. SoleRunner' /\ KernelLives' /\ ContextsFresh'
  BY <1>1, <1>2 DEF SchedInv, SoleRunner, KernelLives, ContextsFresh
<1>5. InRotation'
  BY <1>1, <1>2 DEF SchedInv, SchedTypeOK, InRotation, Task
<1> QED BY <1>3, <1>4, <1>5 DEF SchedInv

LEMMA SpawnKeepsInv ==
  ASSUME SchedInv, Spawn
  PROVE  SchedInv'
<1> USE SchedulerAssumption
<1>1. tasks \in Task /\ tasks # current /\ tasks' = tasks + 1
  BY DEF Spawn, SchedInv, SchedTypeOK, Task
<1>2. state' = [state EXCEPT ![tasks] = "Ready"]
  BY <1>1 DEF Spawn, SetState, LegalTransition, SchedInv, SchedTypeOK
<1>3. /\ saved' = [saved EXCEPT ![tasks] = TRUE]
      /\ UNCHANGED <<current, rejected, halt>>
  BY DEF Spawn
<1>4. SchedTypeOK'
  <2>1. tasks' \in 1 .. MaxTasks /\ current' \in 0 .. tasks' - 1
    BY <1>1, <1>3 DEF SchedInv, SchedTypeOK, Task
  <2>2. state' \in [Task -> LifecycleState] /\ saved' \in [Task -> BOOLEAN]
    BY <1>1, <1>2, <1>3 DEF SchedInv, SchedTypeOK, LifecycleState
  <2>3. \A t \in Task : state'[t] = "Absent" <=> t >= tasks'
    BY <1>1, <1>2 DEF SchedInv, SchedTypeOK, Task
  <2> QED BY <1>3, <2>1, <2>2, <2>3 DEF SchedInv, SchedTypeOK
<1>5. SoleRunner' /\ KernelLives'
  BY <1>1, <1>2, <1>3 DEF SchedInv, SchedTypeOK, SoleRunner, KernelLives
<1>6. ContextsFresh' /\ InRotation'
  BY <1>1, <1>2, <1>3
  DEF SchedInv, SchedTypeOK, ContextsFresh, InRotation, Task
<1> QED BY <1>4, <1>5, <1>6 DEF SchedInv

LEMMA NextSchedInv ==
  ASSUME TwoPerpetual, SchedInv, [SchedNext]_schedVars
  PROVE  SchedInv'
<1>1. CASE YieldTask
  BY <1>1, YieldKeepsInv
<1>2. CASE BlockCurrent
  BY <1>2, BlockKeepsInv
<1>3. CASE \E ids \in SUBSET (Task \ {current}) : UnblockTasks(ids)
  BY <1>3, UnblockKeepsInv
<1>4. CASE TerminateCurrent
  BY <1>4, TerminateKeepsInv
<1>5. CASE Spawn
  BY <1>5, SpawnKeepsInv
<1>6. CASE UNCHANGED schedVars
  BY <1>6 DEF schedVars, SchedInv, SchedTypeOK, SoleRunner, KernelLives,
              ContextsFresh, InRotation
<1> QED BY <1>1, <1>2, <1>3, <1>4, <1>5, <1>6 DEF SchedNext

\* For every number of tasks: SchedInv is an invariant of the rotation.
THEOREM RotationInvariant ==
  ASSUME TwoPerpetual
  PROVE  SchedSpec => []SchedInv
<1>1. SchedInit => SchedInv
  BY InitSchedInv
<1>2. SchedInv /\ [SchedNext]_schedVars => SchedInv'
  BY NextSchedInv
<1> QED BY <1>1, <1>2, PTL DEF SchedSpec

----------------------------------------------------------------------------
(* The theorems.                                                            *)

\* Type correctness of the rotation (scheduler.rs: CURRENT indexes a task).
THEOREM RotationTypeCorrect ==
  ASSUME TwoPerpetual
  PROVE  SchedSpec => []SchedTypeOK
<1>1. SchedInv => SchedTypeOK
  BY DEF SchedInv
<1> QED BY <1>1, RotationInvariant, PTL

\* Exactly the current task is Running (scheduler.rs, yield_task).
THEOREM RotationHasSoleRunner ==
  ASSUME TwoPerpetual
  PROVE  SchedSpec => []SoleRunner
<1>1. SchedInv => SoleRunner
  BY DEF SchedInv
<1> QED BY <1>1, RotationInvariant, PTL

\* No spent context is ever resumed and no terminated task gets the core back
\* (scheduler.rs, yield_task's next_sp and terminate_current's unreachable!).
THEOREM RotationKeepsKernelAlive ==
  ASSUME TwoPerpetual
  PROVE  SchedSpec => []KernelLives
<1>1. SchedInv => KernelLives
  BY DEF SchedInv
<1> QED BY <1>1, RotationInvariant, PTL

\* A switch brings the core strictly closer to every other Ready task.
LEMMA SwitchApproaches ==
  ASSUME SchedInv, NEW st, Entered(st), SwitchTo(st),
         NEW u \in Task, state[u] = "Ready", current' # u
  PROVE  Distance(current', u) < Distance(current, u)
<1> DEFINE sus == Suspended(st)
<1> USE SchedulerAssumption
<1>1. /\ tasks \in Nat \ {0} /\ current \in 0 .. tasks - 1
      /\ u \in 0 .. tasks - 1 /\ u # current
  BY DEF SchedInv, SchedTypeOK, SoleRunner, Task
<1>2. sus[u] = "Ready"
  BY <1>1 DEF Entered, Suspended, SetState, SchedInv, SchedTypeOK, Task
<1>3. current' = PickNextReady(sus, tasks, current) /\ tasks' = tasks
  BY DEF SwitchTo
<1> HIDE DEF sus
<1> QED BY <1>1, <1>2, <1>3, PickIsNearest DEF Distance

\* The rotation never passes over a Ready task (scheduler.rs, pick_next_ready).
THEOREM RotationNeverPassesOver ==
  ASSUME TwoPerpetual
  PROVE  SchedSpec => NeverPassedOver
<1> DEFINE Approaches ==
      \A t \in Task :
        state[t] = "Ready" /\ current' # current /\ current' # t
          => Distance(current', t) < Distance(current, t)
<1> USE SchedulerAssumption
<1>1. SchedInv /\ [SchedNext]_schedVars => [Approaches]_schedVars
  <2> SUFFICES ASSUME SchedInv, SchedNext, current' # current,
                      NEW t \in Task, state[t] = "Ready", current' # t
               PROVE  Distance(current', t) < Distance(current, t)
    OBVIOUS
  <2>1. PICK st : Entered(st) /\ SwitchTo(st)
    <3>1. /\ Entered(state)
          /\ Entered([state EXCEPT ![current] = "Blocked"])
          /\ Entered([state EXCEPT ![current] = "Terminated"])
      <4>1. /\ current \in Task /\ state[current] = "Running"
            /\ state \in [Task -> LifecycleState]
        <5>1. current \in Task
          BY DEF SchedInv, SchedTypeOK, Task
        <5> QED BY <5>1 DEF SchedInv, SchedTypeOK, SoleRunner
      <4> QED BY <4>1 DEF Entered, LifecycleState
    <3>2. CASE YieldTask
      BY <3>1, <3>2 DEF YieldTask, YieldFrom, YieldReturns
    <3>3. CASE BlockCurrent
      BY <3>1, <3>3 DEF BlockCurrent, YieldFrom, YieldReturns
    <3>4. CASE TerminateCurrent
      BY <3>1, <3>4 DEF TerminateCurrent
    <3>5. CASE (\E ids \in SUBSET (Task \ {current}) : UnblockTasks(ids)) \/ Spawn
      BY <3>5 DEF UnblockTasks, Spawn
    <3> QED BY <3>2, <3>3, <3>4, <3>5 DEF SchedNext
  <2> QED BY <2>1, SwitchApproaches
<1> QED BY <1>1, RotationInvariant, PTL DEF SchedSpec, NeverPassedOver

----------------------------------------------------------------------------
(* The mailboxes.                                                           *)

\* A Blocked task is inside receive(), and receive() waits on a mailbox.
BlockedAreParked ==
  \A t \in Task :
    /\ state[t] = "Blocked" => pc[t] = "parked"
    /\ pc[t] = "parked" => call[t].dest \in 0 .. boxes - 1

ParkInv ==
  BlockedAreParked /\ NoLostWake /\ WaitersAreParked /\ NoEdgeRefused

MailInv == SchedInv /\ MailboxTypeOK /\ ParkInv

BlockedNow == { t \in Task : state[t] = "Blocked" }

----------------------------------------------------------------------------
(* What the scheduler's calls do to the set of Blocked tasks.               *)

LEMMA RunnerFacts ==
  ASSUME SchedInv
  PROVE  /\ current \in Task /\ state[current] = "Running"
         /\ state \in [Task -> LifecycleState]
         /\ tasks \in 1 .. MaxTasks
<1>1. current \in Task
  BY SchedulerAssumption DEF SchedInv, SchedTypeOK, Task
<1> QED BY <1>1 DEF SchedInv, SchedTypeOK, SoleRunner

\* Dispatching blocks and unblocks nobody.
LEMMA YieldFromBlocks ==
  ASSUME SchedInv, NEW st, Entered(st), YieldFrom(st)
  PROVE  BlockedNow' = { t \in Task : st[t] = "Blocked" }
<1> DEFINE sus == Suspended(st)
<1>1. st \in [Task -> LifecycleState] /\ current \in Task
  BY RunnerFacts DEF Entered
<1>2. /\ sus \in [Task -> LifecycleState]
      /\ \A t \in Task : sus[t] = "Blocked" <=> st[t] = "Blocked"
  BY <1>1 DEF Suspended, SetState, LegalTransition, LifecycleState
<1>3. CASE YieldReturns(st)
  <2>1. state' = st \/ state' = sus
    BY <1>3 DEF YieldReturns
  <2> HIDE DEF sus
  <2> QED BY <1>1, <1>2, <2>1 DEF BlockedNow
<1>4. CASE SwitchTo(st)
  <2> DEFINE next == PickNextReady(sus, tasks, current)
  <2>1. state' = SetState(sus, next, "Running")
    BY <1>4 DEF SwitchTo
  <2> HIDE DEF sus, next
  <2>2. \/ state' = sus
        \/ sus[next] = "Ready" /\ state' = [sus EXCEPT ![next] = "Running"]
    BY <2>1 DEF SetState, LegalTransition
  <2> QED BY <1>2, <2>2 DEF BlockedNow
<1> QED BY <1>3, <1>4 DEF YieldFrom

LEMMA YieldBlocks ==
  ASSUME SchedInv, YieldTask
  PROVE  BlockedNow' = BlockedNow /\ tasks' = tasks /\ rejected' = rejected
<1>1. Entered(state)
  BY RunnerFacts DEF Entered
<1>2. YieldFrom(state) /\ rejected' = rejected
  BY DEF YieldTask
<1>3. tasks' = tasks
  BY <1>2 DEF YieldFrom, YieldReturns, SwitchTo
<1> QED BY <1>1, <1>2, <1>3, YieldFromBlocks DEF BlockedNow

LEMMA BlockBlocks ==
  ASSUME SchedInv, BlockCurrent
  PROVE  /\ BlockedNow' = BlockedNow \cup {current}
         /\ tasks' = tasks /\ rejected' = rejected
<1> DEFINE st == [state EXCEPT ![current] = "Blocked"]
<1>1. Entered(st)
  BY RunnerFacts DEF Entered, LifecycleState
<1>2. LegalTransition(state[current], "Blocked")
  BY RunnerFacts DEF LegalTransition
<1>3. YieldFrom(st) /\ rejected' = rejected
  BY <1>2 DEF BlockCurrent
<1>4. { t \in Task : st[t] = "Blocked" } = BlockedNow \cup {current}
  BY RunnerFacts DEF BlockedNow
<1> HIDE DEF st
<1>5. tasks' = tasks
  BY <1>3 DEF YieldFrom, YieldReturns, SwitchTo
<1> QED BY <1>1, <1>3, <1>4, <1>5, YieldFromBlocks

LEMMA TerminateBlocks ==
  ASSUME SchedInv, TerminateCurrent
  PROVE  BlockedNow' = BlockedNow /\ tasks' = tasks /\ rejected' = rejected
<1> DEFINE st == [state EXCEPT ![current] = "Terminated"]
<1>1. Entered(st)
  BY RunnerFacts DEF Entered, LifecycleState
<1>2. LegalTransition(state[current], "Terminating")
  BY RunnerFacts DEF LegalTransition
<1>3. (SwitchTo(st) \/ (state' = st /\ tasks' = tasks)) /\ rejected' = rejected
  BY <1>2 DEF TerminateCurrent, SchedInv, SchedTypeOK
<1>4. { t \in Task : st[t] = "Blocked" } = BlockedNow
  BY RunnerFacts DEF BlockedNow
<1> HIDE DEF st
<1>5. tasks' = tasks
  BY <1>3 DEF SwitchTo
<1>6. CASE SwitchTo(st)
  <2>1. YieldFrom(st)
    BY <1>6 DEF YieldFrom
  <2> QED BY <1>1, <1>3, <1>4, <1>5, <2>1, YieldFromBlocks
<1>7. CASE state' = st
  BY <1>3, <1>4, <1>5, <1>7 DEF BlockedNow
<1> QED BY <1>3, <1>6, <1>7

LEMMA SpawnBlocks ==
  ASSUME SchedInv, Spawn
  PROVE  BlockedNow' = BlockedNow /\ tasks' = tasks + 1 /\ rejected' = rejected
<1>1. tasks \in Task /\ state[tasks] = "Absent"
  BY SchedulerAssumption DEF Spawn, SchedInv, SchedTypeOK, Task
<1>2. state' = [state EXCEPT ![tasks] = "Ready"]
  BY <1>1, RunnerFacts DEF Spawn, SetState, LegalTransition
<1>3. BlockedNow' = BlockedNow
  BY <1>1, <1>2, RunnerFacts DEF BlockedNow
<1> QED BY <1>3 DEF Spawn

\* Waking Blocked tasks is never refused.
LEMMA UnblockBlocks ==
  ASSUME SchedInv, NEW ids \in SUBSET BlockedNow, UnblockTasks(ids)
  PROVE  /\ BlockedNow' = BlockedNow \ ids
         /\ tasks' = tasks /\ rejected' = rejected
<1>1. \A t \in Task : state'[t] = IF t \in ids THEN "Ready" ELSE state[t]
  BY RunnerFacts DEF UnblockTasks, SetState, LegalTransition, BlockedNow
<1>2. \A t \in ids : LegalTransition(state[t], "Ready")
  BY DEF BlockedNow, LegalTransition
<1>3. tasks' = tasks /\ rejected' = rejected
  BY <1>2 DEF UnblockTasks, SchedInv, SchedTypeOK
<1> QED BY <1>1, <1>3 DEF BlockedNow

----------------------------------------------------------------------------
(* Waking a mailbox.                                                         *)

\* An existing mailbox is a mailbox of some task.
LEMMA BoxesInRange ==
  ASSUME MailInv
  PROVE  boxes \in Nat /\ \A d \in Nat : d < boxes => d \in Box
<1>1. boxes \in 0 .. tasks /\ tasks \in 1 .. MaxTasks
  BY DEF MailInv, MailboxTypeOK, SchedTypeOK
<1> QED BY <1>1, SchedulerAssumption DEF Box, Task

LEMMA WaitersAreBlocked ==
  ASSUME MailInv, NEW d \in Box
  PROVE  waiters[d] \in SUBSET BlockedNow /\ waiters[d] \in SUBSET (Task \ {current})
<1>1. waiters[d] \in SUBSET BlockedNow
  BY DEF MailInv, MailboxTypeOK, ParkInv, WaitersAreParked, BlockedNow
<1>2. current \notin BlockedNow
  BY RunnerFacts DEF MailInv, BlockedNow
<1> QED BY <1>1, <1>2 DEF BlockedNow

\* A send or a kick wakes every task registered on the mailbox and none other.
LEMMA WakeAllEmpties ==
  ASSUME MailInv, NEW d \in Box, WakeAll(d)
  PROVE  /\ waiters' = [waiters EXCEPT ![d] = {}]
         /\ BlockedNow' = BlockedNow \ waiters[d]
         /\ tasks' = tasks /\ rejected' = rejected
<1>1. \A t \in waiters[d] : LegalTransition(state[t], "Ready")
  BY WaitersAreBlocked DEF BlockedNow, LegalTransition
<1>2. waiters' = [waiters EXCEPT ![d] = {}]
  BY <1>1 DEF WakeAll, MailInv, MailboxTypeOK
<1>3. UnblockTasks(waiters[d]) /\ SchedInv
  BY DEF WakeAll, MailInv
<1> QED BY <1>2, <1>3, WaitersAreBlocked, UnblockBlocks

LEMMA WakeAllParks ==
  ASSUME MailInv, NEW d \in Box, WakeAll(d),
         UNCHANGED <<boxes, pc, call>>,
         \A x \in Box : x # d => queue'[x] = queue[x]
  PROVE  ParkInv'
<1>1. /\ waiters' = [waiters EXCEPT ![d] = {}]
      /\ BlockedNow' = BlockedNow \ waiters[d]
      /\ rejected' = rejected
  BY WakeAllEmpties
<1>2. /\ waiters \in [Box -> SUBSET Task]
      /\ \A t \in Task : state[t] = "Blocked" <=> t \in BlockedNow
      /\ \A t \in Task : state'[t] = "Blocked" <=> t \in BlockedNow'
  BY DEF MailInv, MailboxTypeOK, BlockedNow
<1>3. \A t \in Task : pc[t] = "parked" => call[t].dest \in Box
  BY BoxesInRange DEF MailInv, ParkInv, BlockedAreParked
<1>4. BlockedAreParked'
  BY <1>1, <1>2 DEF MailInv, ParkInv, BlockedAreParked
<1>5. NoLostWake'
  <2> SUFFICES ASSUME NEW t \in Task, pc[t] = "parked", t \in BlockedNow \ waiters[d]
               PROVE  t \in waiters'[call[t].dest] /\ queue'[call[t].dest] = <<>>
    BY <1>1, <1>2 DEF NoLostWake
  <2>1. t \in waiters[call[t].dest] /\ queue[call[t].dest] = <<>>
    BY <1>2 DEF MailInv, ParkInv, NoLostWake
  <2>2. call[t].dest # d /\ call[t].dest \in Box
    BY <1>3, <2>1
  <2> QED BY <1>1, <1>2, <2>1, <2>2
<1>6. WaitersAreParked'
  <2> SUFFICES ASSUME NEW x \in Box, NEW t \in waiters'[x]
               PROVE  pc[t] = "parked" /\ call[t].dest = x /\ state'[t] = "Blocked"
    BY DEF WaitersAreParked
  <2>1. x # d /\ t \in waiters[x]
    BY <1>1, <1>2
  <2>2. pc[t] = "parked" /\ call[t].dest = x /\ t \in BlockedNow /\ t \in Task
    BY <1>2, <2>1 DEF MailInv, ParkInv, WaitersAreParked
  <2>3. t \notin waiters[d]
    BY <2>1, <2>2 DEF MailInv, ParkInv, WaitersAreParked
  <2> QED BY <1>1, <1>2, <2>2, <2>3
<1>7. NoEdgeRefused'
  BY <1>1 DEF MailInv, ParkInv, NoEdgeRefused
<1> QED BY <1>4, <1>5, <1>6, <1>7 DEF ParkInv

----------------------------------------------------------------------------
(* A step that leaves the parked tasks, their registrations and the queues   *)
(* they wait on alone keeps ParkInv.                                         *)

LEMMA BystanderParks ==
  ASSUME MailInv, BlockedNow' = BlockedNow, rejected' = rejected,
         UNCHANGED <<waiters, pc, call>>,
         boxes' >= boxes, boxes' \in Nat,
         \A x \in Box : queue[x] = <<>> => queue'[x] = <<>>
  PROVE  ParkInv'
<1>1. /\ \A t \in Task : state[t] = "Blocked" <=> t \in BlockedNow
      /\ \A t \in Task : state'[t] = "Blocked" <=> t \in BlockedNow
  BY DEF BlockedNow
<1>2. \A t \in Task : pc[t] = "parked" => call[t].dest \in Box
  BY BoxesInRange DEF MailInv, ParkInv, BlockedAreParked
<1>3. BlockedAreParked'
  <2> SUFFICES ASSUME NEW t \in Task
               PROVE  /\ state'[t] = "Blocked" => pc[t] = "parked"
                      /\ pc[t] = "parked" => call[t].dest \in 0 .. boxes' - 1
    BY DEF BlockedAreParked
  <2>1. state'[t] = "Blocked" => pc[t] = "parked"
    BY <1>1 DEF MailInv, ParkInv, BlockedAreParked
  <2>2. pc[t] = "parked" => call[t].dest \in 0 .. boxes - 1
    BY DEF MailInv, ParkInv, BlockedAreParked
  <2> QED BY <2>1, <2>2, BoxesInRange
<1>4. NoLostWake'
  BY <1>1, <1>2 DEF MailInv, ParkInv, NoLostWake
<1>5. WaitersAreParked'
  <2> SUFFICES ASSUME NEW x \in Box, NEW t \in waiters[x]
               PROVE  pc[t] = "parked" /\ call[t].dest = x /\ state'[t] = "Blocked"
    BY DEF WaitersAreParked
  <2>1. pc[t] = "parked" /\ call[t].dest = x /\ state[t] = "Blocked" /\ t \in Task
    BY DEF MailInv, MailboxTypeOK, ParkInv, WaitersAreParked
  <2> QED BY <1>1, <2>1
<1>6. NoEdgeRefused'
  BY DEF MailInv, ParkInv, NoEdgeRefused
<1> QED BY <1>3, <1>4, <1>5, <1>6 DEF ParkInv

\* The running task is registered nowhere.
LEMMA RunnerIsNoWaiter ==
  ASSUME MailInv, NEW d \in Box
  PROVE  current \notin waiters[d]
  BY WaitersAreBlocked

\* The running task registers on an empty mailbox and blocks: nobody can have
\* sent in between.
LEMMA ParkingParks ==
  ASSUME MailInv, NEW d \in Box, d < boxes, queue[d] = <<>>,
         BlockCurrent,
         waiters' = [waiters EXCEPT ![d] = @ \cup {current}],
         pc' = [pc EXCEPT ![current] = "parked"],
         NEW c, c.dest = d, call' = [call EXCEPT ![current] = c],
         UNCHANGED <<boxes, queue>>
  PROVE  ParkInv'
<1> DEFINE me == current
<1>1. /\ me \in Task /\ me \notin BlockedNow
      /\ BlockedNow' = BlockedNow \cup {me}
      /\ rejected' = rejected
  BY RunnerFacts, BlockBlocks DEF MailInv, BlockedNow
<1>2. /\ \A t \in Task : state[t] = "Blocked" <=> t \in BlockedNow
      /\ \A t \in Task : state'[t] = "Blocked" <=> t \in BlockedNow'
      /\ \A t \in Task : pc[t] = "parked" => call[t].dest \in Box
  BY BoxesInRange DEF BlockedNow, MailInv, ParkInv, BlockedAreParked
<1>3. /\ \A t \in Task : t # me => pc'[t] = pc[t] /\ call'[t] = call[t]
      /\ pc'[me] = "parked" /\ call'[me].dest = d
      /\ \A x \in Box : x # d => waiters'[x] = waiters[x]
      /\ waiters'[d] = waiters[d] \cup {me}
  BY <1>1 DEF MailInv, MailboxTypeOK
<1> HIDE DEF me
<1>4. BlockedAreParked'
  <2> SUFFICES ASSUME NEW t \in Task
               PROVE  /\ state'[t] = "Blocked" => pc'[t] = "parked"
                      /\ pc'[t] = "parked" => call'[t].dest \in 0 .. boxes - 1
    BY DEF BlockedAreParked
  <2>1. d \in 0 .. boxes - 1
    BY SchedulerAssumption, BoxesInRange DEF Box, Task
  <2>2. CASE t = me
    BY <1>3, <2>1, <2>2
  <2>3. CASE t # me
    BY <1>1, <1>2, <1>3, <2>3 DEF MailInv, ParkInv, BlockedAreParked
  <2> QED BY <2>2, <2>3
<1>5. NoLostWake'
  BY <1>1, <1>2, <1>3 DEF MailInv, ParkInv, NoLostWake
<1>6. WaitersAreParked'
  <2> SUFFICES ASSUME NEW x \in Box, NEW t \in waiters'[x]
               PROVE  pc'[t] = "parked" /\ call'[t].dest = x /\ state'[t] = "Blocked"
    BY DEF WaitersAreParked
  <2>1. CASE t = me
    <3>1. x = d
      BY <1>3, <2>1, RunnerIsNoWaiter DEF me
    <3> QED BY <1>1, <1>2, <1>3, <2>1, <3>1
  <2>2. CASE t # me
    <3>1. t \in waiters[x] /\ t \in Task
      BY <1>3, <2>2 DEF MailInv, MailboxTypeOK
    <3>2. pc[t] = "parked" /\ call[t].dest = x /\ state[t] = "Blocked"
      BY <3>1 DEF MailInv, ParkInv, WaitersAreParked
    <3> QED BY <1>1, <1>2, <1>3, <2>2, <3>1, <3>2
  <2> QED BY <2>1, <2>2
<1>7. NoEdgeRefused'
  BY <1>1 DEF MailInv, ParkInv, NoEdgeRefused
<1> QED BY <1>4, <1>5, <1>6, <1>7 DEF ParkInv

\* The running task leaves receive(); its registration is gone already.
LEMMA ReturningParks ==
  ASSUME MailInv, pc[current] = "parked", ReturnsToCaller,
         UNCHANGED <<schedVars, boxes>>,
         \A x \in Box : queue[x] = <<>> => queue'[x] = <<>>
  PROVE  ParkInv'
<1>1. current \in Task /\ state[current] # "Blocked" /\ call[current].dest \in Box
  BY RunnerFacts, BoxesInRange DEF MailInv, ParkInv, BlockedAreParked
<1>2. waiters' = waiters
  BY <1>1, RunnerIsNoWaiter DEF ReturnsToCaller, Deregistered, MailInv, MailboxTypeOK
<1>3. /\ \A t \in Task : t # current => pc'[t] = pc[t] /\ call'[t] = call[t]
      /\ pc'[current] = "run"
  BY <1>1 DEF ReturnsToCaller, MailInv, MailboxTypeOK
<1>4. state' = state /\ rejected' = rejected /\ boxes' = boxes
  BY DEF schedVars
<1>5. BlockedAreParked'
  BY <1>1, <1>3, <1>4 DEF MailInv, ParkInv, BlockedAreParked
<1>6. NoLostWake'
  <2>1. \A t \in Task : pc[t] = "parked" => call[t].dest \in Box
    BY BoxesInRange DEF MailInv, ParkInv, BlockedAreParked
  <2> QED BY <1>1, <1>2, <1>3, <1>4, <2>1 DEF MailInv, ParkInv, NoLostWake
<1>7. WaitersAreParked'
  <2> SUFFICES ASSUME NEW x \in Box, NEW t \in waiters[x]
               PROVE  pc'[t] = "parked" /\ call'[t].dest = x /\ state[t] = "Blocked"
    BY <1>2, <1>4 DEF WaitersAreParked
  <2>1. t \in Task /\ pc[t] = "parked" /\ call[t].dest = x /\ state[t] = "Blocked"
    BY DEF MailInv, MailboxTypeOK, ParkInv, WaitersAreParked
  <2> QED BY <1>1, <1>3, <2>1
<1>8. NoEdgeRefused'
  BY <1>4 DEF MailInv, ParkInv, NoEdgeRefused
<1> QED BY <1>5, <1>6, <1>7, <1>8 DEF ParkInv

----------------------------------------------------------------------------
(* One lemma per action: what it does to the types and to the parked tasks.  *)

\* ipc::init makes one mailbox per spawned task.
LEMMA IpcInitKeeps ==
  ASSUME MailInv, IpcInit
  PROVE  MailboxTypeOK' /\ ParkInv'
<1>1. /\ UNCHANGED <<schedVars, queue, revoked, waiters, pc, call, history>>
      /\ boxes' = tasks /\ boxes = 0
  BY DEF IpcInit
<1>2. SchedTypeOK' /\ tasks \in Nat /\ tasks' = tasks
  BY <1>1 DEF MailInv, SchedInv, SchedTypeOK, schedVars
<1>3. MailboxTypeOK'
  BY <1>1, <1>2 DEF MailInv, MailboxTypeOK, history
<1>4. BlockedNow' = BlockedNow /\ rejected' = rejected
  BY <1>1 DEF schedVars, BlockedNow
<1>5. ParkInv'
  BY <1>1, <1>2, <1>4, BystanderParks
<1> QED BY <1>3, <1>5

LEMMA SendKeeps ==
  ASSUME MailInv, NEW d \in Nat, NEW claimed \in Task, Send(d, claimed), SchedTypeOK'
  PROVE  MailboxTypeOK' /\ ParkInv'
<1> DEFINE msg == [sender |-> claimed, seq |-> sent + 1]
<1>1. d \in Box
  BY BoxesInRange DEF Send
<1>2. /\ queue' = [queue EXCEPT ![d] = Append(@, msg)]
      /\ accepted' = [accepted EXCEPT ![d] = Append(@, msg)]
      /\ sent' = sent + 1 /\ sent < MaxMessages
      /\ Len(queue[d]) < Capacity
      /\ WakeAll(d)
      /\ UNCHANGED <<boxes, revoked, pc, call, taken>>
  BY DEF Send
<1>3. sent \in Nat /\ msg \in Message /\ sent' \in 0 .. MaxMessages
  BY <1>2, MailboxAssumption DEF MailInv, MailboxTypeOK, Message
<1> HIDE DEF msg
<1>4. /\ waiters' = [waiters EXCEPT ![d] = {}]
      /\ tasks' = tasks
  BY <1>1, <1>2, WakeAllEmpties
<1>5. queue' \in [Box -> Seq(Message)] /\ accepted' \in [Box -> Seq(Message)]
  BY <1>1, <1>2, <1>3 DEF MailInv, MailboxTypeOK
<1>6. \A x \in Box : Len(queue'[x]) <= Capacity
  BY <1>1, <1>2, <1>3, MailboxAssumption DEF MailInv, MailboxTypeOK
<1>7. waiters' \in [Box -> SUBSET Task]
  BY <1>1, <1>4 DEF MailInv, MailboxTypeOK
<1>8. MailboxTypeOK'
  BY <1>2, <1>3, <1>4, <1>5, <1>6, <1>7 DEF MailInv, MailboxTypeOK
<1>9. ParkInv'
  BY <1>1, <1>2, WakeAllParks DEF MailInv, MailboxTypeOK
<1> QED BY <1>8, <1>9

\* Popping keeps the types, and an empty queue empty.
LEMMA PopKeeps ==
  ASSUME MailInv, NEW d \in Box, PopFront(d)
  PROVE  /\ queue' \in [Box -> Seq(Message)] /\ taken' \in [Box -> Nat]
         /\ \A x \in Box : Len(queue'[x]) <= Capacity
         /\ \A x \in Box : queue[x] = <<>> => queue'[x] = <<>>
<1>1. /\ queue[d] # <<>>
      /\ queue' = [queue EXCEPT ![d] = Tail(@)]
      /\ taken' = [taken EXCEPT ![d] = @ + 1]
  BY DEF PopFront
<1>2. /\ queue \in [Box -> Seq(Message)] /\ taken \in [Box -> Nat]
      /\ \A x \in Box : Len(queue[x]) <= Capacity
  BY DEF MailInv, MailboxTypeOK
<1>3. Tail(queue[d]) \in Seq(Message) /\ Len(Tail(queue[d])) = Len(queue[d]) - 1
  BY <1>1, <1>2
<1>4. Len(queue[d]) \in Nat /\ Capacity \in Nat
  BY <1>2, MailboxAssumption
<1>5. queue' \in [Box -> Seq(Message)] /\ taken' \in [Box -> Nat]
  BY <1>1, <1>2, <1>3
<1>6. \A x \in Box : Len(queue'[x]) <= Capacity
  <2> SUFFICES ASSUME NEW x \in Box PROVE Len(queue'[x]) <= Capacity
    OBVIOUS
  <2>1. CASE x = d
    BY <1>1, <1>2, <1>3, <1>4, <2>1
  <2>2. CASE x # d
    BY <1>1, <1>2, <2>2
  <2> QED BY <2>1, <2>2
<1>7. \A x \in Box : queue[x] = <<>> => queue'[x] = <<>>
  BY <1>1, <1>2
<1> QED BY <1>5, <1>6, <1>7

LEMMA TryReceiveKeeps ==
  ASSUME MailInv, NEW d \in Nat, TryReceive(d)
  PROVE  MailboxTypeOK' /\ ParkInv'
<1>1. d \in Box /\ PopFront(d)
  BY BoxesInRange DEF TryReceive
<1>2. UNCHANGED <<schedVars, boxes, revoked, waiters, pc, call, sent, accepted>>
  BY DEF TryReceive
<1>3. SchedTypeOK' /\ tasks' = tasks /\ BlockedNow' = BlockedNow /\ rejected' = rejected
  BY <1>2 DEF MailInv, SchedInv, SchedTypeOK, schedVars, BlockedNow
<1>4. MailboxTypeOK'
  BY <1>1, <1>2, <1>3, PopKeeps DEF MailInv, MailboxTypeOK
<1>5. boxes' = boxes /\ boxes' \in Nat
  BY <1>2, BoxesInRange
<1>6. ParkInv'
  BY <1>1, <1>2, <1>3, <1>5, PopKeeps, BystanderParks
<1> QED BY <1>4, <1>6

LEMMA ReceiveParksKeeps ==
  ASSUME MailInv, NEW d \in Nat, NEW limit \in Nat \cup {NoLimit},
         ReceiveParks(d, limit), SchedTypeOK'
  PROVE  MailboxTypeOK' /\ ParkInv'
<1> DEFINE c == [dest |-> d, limit |-> limit, wakes |-> 0]
<1>1. d \in Box /\ current \in Task
  BY BoxesInRange, RunnerFacts DEF ReceiveParks, MailInv
<1>2. /\ d < boxes /\ queue[d] = <<>> /\ BlockCurrent
      /\ waiters' = [waiters EXCEPT ![d] = @ \cup {current}]
      /\ pc' = [pc EXCEPT ![current] = "parked"]
      /\ call' = [call EXCEPT ![current] = c]
      /\ UNCHANGED <<boxes, queue, revoked, history>>
  BY DEF ReceiveParks
<1>3. tasks' = tasks
  BY <1>2, BlockBlocks DEF MailInv
<1>4. c.dest = d /\ c \in [dest : Nat, limit : Nat \cup {NoLimit}, wakes : Nat]
  OBVIOUS
<1> HIDE DEF c
<1>5. MailboxTypeOK'
  BY <1>1, <1>2, <1>3, <1>4 DEF MailInv, MailboxTypeOK, history
<1>6. ParkInv'
  BY <1>1, <1>2, <1>4, ParkingParks
<1> QED BY <1>5, <1>6

\* receive() after a wake: the message, the budget, or another park.
LEMMA ResumeKeeps ==
  ASSUME MailInv, Resume, SchedTypeOK'
  PROVE  MailboxTypeOK' /\ ParkInv'
<1> DEFINE d == call[current].dest
<1>1. /\ current \in Task /\ pc[current] = "parked"
      /\ d \in Box /\ d < boxes /\ boxes \in Nat
      /\ UNCHANGED <<boxes, revoked, sent, accepted>>
  BY RunnerFacts, BoxesInRange DEF Resume, MailInv, ParkInv, BlockedAreParked
<1>2. call[current] \in [dest : Nat, limit : Nat \cup {NoLimit}, wakes : Nat]
  BY <1>1 DEF MailInv, MailboxTypeOK
<1>3. Deregistered = waiters
  BY <1>1, RunnerIsNoWaiter DEF Deregistered, MailInv, MailboxTypeOK
<1>4. ASSUME ReturnsToCaller, UNCHANGED schedVars
      PROVE  /\ pc' \in [Task -> {"run", "parked"}]
             /\ call' \in [Task -> [dest : Nat, limit : Nat \cup {NoLimit}, wakes : Nat]]
             /\ waiters' = waiters /\ tasks' = tasks
  BY <1>1, <1>3, <1>4
  DEF ReturnsToCaller, NoCall, MailInv, MailboxTypeOK, schedVars
<1>5. CASE ResumeDelivers
  <2>1. PopFront(d) /\ ReturnsToCaller /\ UNCHANGED schedVars
    BY <1>5 DEF ResumeDelivers
  <2> HIDE DEF d
  <2>2. MailboxTypeOK'
    BY <1>1, <1>4, <2>1, PopKeeps DEF MailInv, MailboxTypeOK
  <2>3. ParkInv'
    BY <1>1, <2>1, PopKeeps, ReturningParks
  <2> QED BY <2>2, <2>3
<1>6. CASE ResumeTimesOut
  <2>1. ReturnsToCaller /\ UNCHANGED <<schedVars, queue, taken>>
    BY <1>6 DEF ResumeTimesOut
  <2>2. MailboxTypeOK'
    BY <1>1, <1>4, <2>1 DEF MailInv, MailboxTypeOK
  <2>3. ParkInv'
    BY <1>1, <2>1, ReturningParks
  <2> QED BY <2>2, <2>3
<1>7. CASE ResumeParksAgain
  <2> DEFINE c == [call[current] EXCEPT !.wakes =
                     IF call[current].limit = NoLimit THEN 0 ELSE @ + 1]
  <2>1. /\ queue[d] = <<>> /\ BlockCurrent
        /\ waiters' = [waiters EXCEPT ![d] = @ \cup {current}]
        /\ UNCHANGED <<pc, queue, taken>>
    BY <1>3, <1>7 DEF ResumeParksAgain
  <2>2. call' = [call EXCEPT ![current] = c]
    BY <1>1, <1>7 DEF ResumeParksAgain, MailInv, MailboxTypeOK
  <2>3. c.dest = d /\ c \in [dest : Nat, limit : Nat \cup {NoLimit}, wakes : Nat]
    BY <1>2
  <2> HIDE DEF c, d
  <2>4. pc' = [pc EXCEPT ![current] = "parked"]
    BY <1>1, <2>1 DEF MailInv, MailboxTypeOK
  <2>5. tasks' = tasks
    BY <2>1, BlockBlocks DEF MailInv
  <2>6. MailboxTypeOK'
    BY <1>1, <2>1, <2>2, <2>3, <2>5 DEF MailInv, MailboxTypeOK
  <2>7. ParkInv'
    BY <1>1, <2>1, <2>2, <2>3, <2>4, ParkingParks
  <2> QED BY <2>6, <2>7
<1> QED BY <1>5, <1>6, <1>7 DEF Resume

LEMMA WakeWaitersKeeps ==
  ASSUME MailInv, NEW d \in Nat, WakeWaiters(d), SchedTypeOK'
  PROVE  MailboxTypeOK' /\ ParkInv'
<1>1. d \in Box /\ WakeAll(d)
  BY BoxesInRange DEF WakeWaiters
<1>2. UNCHANGED <<boxes, queue, revoked, pc, call, history>>
  BY DEF WakeWaiters
<1>3. waiters' = [waiters EXCEPT ![d] = {}] /\ tasks' = tasks
  BY <1>1, WakeAllEmpties
<1>4. MailboxTypeOK'
  BY <1>1, <1>2, <1>3 DEF MailInv, MailboxTypeOK, history
<1>5. ParkInv'
  BY <1>1, <1>2, WakeAllParks
<1> QED BY <1>4, <1>5

LEMMA RevokeSenderKeeps ==
  ASSUME MailInv, NEW d \in Nat, NEW sender \in Nat, RevokeSender(d, sender)
  PROVE  MailboxTypeOK' /\ ParkInv'
<1>1. /\ revoked' = [revoked EXCEPT ![d] = @ \cup {sender}]
      /\ UNCHANGED <<schedVars, boxes, queue, waiters, pc, call, history>>
  BY DEF RevokeSender
<1>2. d \in Box
  BY BoxesInRange DEF RevokeSender
<1>3. SchedTypeOK' /\ tasks' = tasks /\ BlockedNow' = BlockedNow /\ rejected' = rejected
  BY <1>1 DEF MailInv, SchedInv, SchedTypeOK, schedVars, BlockedNow
<1>4. MailboxTypeOK'
  BY <1>1, <1>2, <1>3 DEF MailInv, MailboxTypeOK, history
<1>5. boxes' = boxes /\ boxes' \in Nat
  BY <1>1, BoxesInRange
<1>6. ParkInv'
  BY <1>1, <1>3, <1>5, BystanderParks
<1> QED BY <1>4, <1>6

\* The scheduler calls outside receive() leave the mailboxes alone.
LEMMA RotationKeeps ==
  ASSUME MailInv, Yields \/ Terminates \/ Spawns, SchedTypeOK'
  PROVE  MailboxTypeOK' /\ ParkInv'
<1>1. UNCHANGED boxVars
  BY DEF Yields, Terminates, Spawns
<1>2. BlockedNow' = BlockedNow /\ rejected' = rejected /\ tasks' \in {tasks, tasks + 1}
  BY YieldBlocks, TerminateBlocks, SpawnBlocks DEF Yields, Terminates, Spawns, MailInv
<1>3. boxes \in 0 .. tasks'
  BY <1>2 DEF MailInv, MailboxTypeOK, SchedTypeOK
<1>4. MailboxTypeOK'
  BY <1>1, <1>3 DEF MailInv, MailboxTypeOK, boxVars, history
<1>5. boxes' = boxes /\ boxes' \in Nat
  BY <1>1, BoxesInRange DEF boxVars
<1>6. ParkInv'
  BY <1>1, <1>2, <1>5, BystanderParks DEF boxVars
<1> QED BY <1>4, <1>6

----------------------------------------------------------------------------
(* Every mailbox call is a step of the rotation, or leaves it alone.         *)

LEMMA CallIsRotationStep ==
  ASSUME MailInv, [Next]_vars
  PROVE  [SchedNext]_schedVars
<1>1. ASSUME NEW d \in Nat, WakeAll(d), d < boxes
      PROVE  SchedNext
  <2>1. waiters[d] \in SUBSET (Task \ {current})
    BY <1>1, BoxesInRange, WaitersAreBlocked
  <2> QED BY <1>1, <2>1 DEF WakeAll, SchedNext
<1>2. CASE IpcInit
  BY <1>2 DEF IpcInit
<1>3. CASE \E d \in Dest, claimed \in Task : Send(d, claimed)
  BY <1>1, <1>3, MailboxAssumption DEF Send
<1>4. CASE \E d \in Dest : TryReceive(d)
  BY <1>4 DEF TryReceive
<1>5. CASE \E d \in Dest, limit \in Limit : ReceiveParks(d, limit)
  BY <1>5 DEF ReceiveParks, SchedNext
<1>6. CASE Resume
  BY <1>6 DEF Resume, ResumeDelivers, ResumeTimesOut, ResumeParksAgain, SchedNext
<1>7. CASE \E d \in Dest : WakeWaiters(d)
  BY <1>1, <1>7, MailboxAssumption DEF WakeWaiters
<1>8. CASE \E d \in Dest, sender \in Revocable : RevokeSender(d, sender)
  BY <1>8 DEF RevokeSender
<1>9. CASE Yields \/ Terminates \/ Spawns
  BY <1>9 DEF Yields, Terminates, Spawns, SchedNext
<1>10. CASE UNCHANGED vars
  BY <1>10 DEF vars
<1> QED BY <1>2, <1>3, <1>4, <1>5, <1>6, <1>7, <1>8, <1>9, <1>10 DEF Next

LEMMA InitMailInv == Init => MailInv
<1> SUFFICES ASSUME Init PROVE MailInv
  OBVIOUS
<1>1. SchedInv
  BY InitSchedInv DEF Init
<1>2. MailboxTypeOK
  <2>1. boxes \in 0 .. tasks /\ sent \in 0 .. MaxMessages
    BY MailboxAssumption DEF Init, SchedInit
  <2>2. /\ queue \in [Box -> Seq(Message)] /\ accepted \in [Box -> Seq(Message)]
        /\ revoked \in [Box -> SUBSET Nat] /\ waiters \in [Box -> SUBSET Task]
        /\ pc \in [Task -> {"run", "parked"}] /\ taken \in [Box -> Nat]
    BY DEF Init
  <2>3. call \in [Task -> [dest : Nat, limit : Nat \cup {NoLimit}, wakes : Nat]]
    BY DEF Init, NoCall
  <2>4. \A d \in Box : Len(queue[d]) <= Capacity
    BY MailboxAssumption DEF Init
  <2> QED BY <1>1, <2>1, <2>2, <2>3, <2>4 DEF SchedInv, MailboxTypeOK
<1>3. \A t \in Task : state[t] # "Blocked" /\ pc[t] # "parked"
  BY DEF Init, SchedInit
<1>4. ParkInv
  BY <1>3 DEF Init, SchedInit, ParkInv, BlockedAreParked, NoLostWake,
              WaitersAreParked, NoEdgeRefused
<1> QED BY <1>1, <1>2, <1>4 DEF MailInv

LEMMA NextMailInv ==
  ASSUME TwoPerpetual, MailInv, [Next]_vars
  PROVE  MailInv'
<1>1. SchedInv'
  BY CallIsRotationStep, NextSchedInv DEF MailInv
<1>2. SchedTypeOK'
  BY <1>1 DEF SchedInv
<1> USE MailboxAssumption
<1>3. CASE IpcInit
  BY <1>1, <1>3, IpcInitKeeps DEF MailInv
<1>4. CASE \E d \in Dest, claimed \in Task : Send(d, claimed)
  BY <1>1, <1>2, <1>4, SendKeeps DEF MailInv
<1>5. CASE \E d \in Dest : TryReceive(d)
  BY <1>1, <1>5, TryReceiveKeeps DEF MailInv
<1>6. CASE \E d \in Dest, limit \in Limit : ReceiveParks(d, limit)
  BY <1>1, <1>2, <1>6, ReceiveParksKeeps DEF MailInv
<1>7. CASE Resume
  BY <1>1, <1>2, <1>7, ResumeKeeps DEF MailInv
<1>8. CASE \E d \in Dest : WakeWaiters(d)
  BY <1>1, <1>2, <1>8, WakeWaitersKeeps DEF MailInv
<1>9. CASE \E d \in Dest, sender \in Revocable : RevokeSender(d, sender)
  BY <1>1, <1>9, RevokeSenderKeeps DEF MailInv
<1>10. CASE Yields \/ Terminates \/ Spawns
  BY <1>1, <1>2, <1>10, RotationKeeps DEF MailInv
<1>11. CASE UNCHANGED vars
  <2>1. MailboxTypeOK' /\ BlockedNow' = BlockedNow
    BY <1>2, <1>11 DEF MailInv, MailboxTypeOK, vars, boxVars, history, schedVars,
                       BlockedNow
  <2>2. ParkInv'
    BY <1>11, <2>1, BoxesInRange, BystanderParks DEF vars, boxVars, schedVars
  <2> QED BY <1>1, <2>1, <2>2 DEF MailInv
<1> QED BY <1>3, <1>4, <1>5, <1>6, <1>7, <1>8, <1>9, <1>10, <1>11 DEF Next

----------------------------------------------------------------------------
(* The theorems.                                                            *)

\* MailInv is an invariant of the boot's rotation, for every capacity, set of
\* destinations and budget (ipc.rs with scheduler.rs).
THEOREM MailboxInvariant ==
  ASSUME TwoPerpetual
  PROVE  Spec => []MailInv
<1>1. Init => MailInv
  BY InitMailInv
<1>2. MailInv /\ [Next]_vars => MailInv'
  BY NextMailInv
<1> QED BY <1>1, <1>2, PTL DEF Spec

\* Type correctness, the bound of every queue included (ipc.rs, send).
THEOREM MailboxTypeCorrect ==
  ASSUME TwoPerpetual
  PROVE  Spec => []MailboxTypeOK
<1>1. MailInv => MailboxTypeOK
  BY DEF MailInv
<1> QED BY <1>1, MailboxInvariant, PTL

\* No wake is lost: a sleeping receiver is registered and its mailbox is empty
\* (ipc.rs, receive's probe-and-register).
THEOREM NoWakeIsLost ==
  ASSUME TwoPerpetual
  PROVE  Spec => []NoLostWake
<1>1. MailInv => NoLostWake
  BY DEF MailInv, ParkInv
<1> QED BY <1>1, MailboxInvariant, PTL

\* Registrations never go stale (ipc.rs, Mailbox.waiters).
THEOREM WaitersStayParked ==
  ASSUME TwoPerpetual
  PROVE  Spec => []WaitersAreParked
<1>1. MailInv => WaitersAreParked
  BY DEF MailInv, ParkInv
<1> QED BY <1>1, MailboxInvariant, PTL

\* No lifecycle edge is ever refused (scheduler.rs, lifecycle_rejections).
THEOREM EdgesStayLegal ==
  ASSUME TwoPerpetual
  PROVE  Spec => []NoEdgeRefused
<1>1. MailInv => NoEdgeRefused
  BY DEF MailInv, ParkInv
<1> QED BY <1>1, MailboxInvariant, PTL

\* Every wake finds its receiver Blocked (ipc.rs, send's wake loop).
THEOREM WakesStayLegal ==
  ASSUME TwoPerpetual
  PROVE  Spec => []WakesAreLegal
<1>1. MailInv => WakesAreLegal
  BY DEF MailInv, ParkInv, WakesAreLegal
<1> QED BY <1>1, MailboxInvariant, PTL

\* The mailboxes use the scheduler as Scheduler describes it: every behaviour
\* is one of its safety specification, so what is proved of SchedSpec's steps
\* holds of the composed system.
THEOREM MailboxesRunOnRotation ==
  ASSUME TwoPerpetual
  PROVE  Spec => SchedInit /\ [][SchedNext]_schedVars
<1>1. Init => SchedInit
  BY DEF Init
<1>2. MailInv /\ [Next]_vars => [SchedNext]_schedVars
  BY CallIsRotationStep
<1> QED BY <1>1, <1>2, MailboxInvariant, PTL DEF Spec

----------------------------------------------------------------------------
(* Order and exactly-once delivery.                                          *)

\* The queue of d is what was accepted there, from index taken + 1 on.
Holds(d) ==
  /\ Len(accepted[d]) = taken[d] + Len(queue[d])
  /\ \A i \in 1 .. Len(queue[d]) : queue[d][i] = accepted[d][taken[d] + i]

InOrder == \A d \in Box : Holds(d)

LEMMA InOrderIsFifo ==
  ASSUME MailboxTypeOK, InOrder
  PROVE  FifoExactlyOnce
<1> SUFFICES ASSUME NEW d \in Box
             PROVE  queue[d] = SubSeq(accepted[d], taken[d] + 1, Len(accepted[d]))
  BY DEF FifoExactlyOnce
<1> DEFINE q == queue[d]
           a == accepted[d]
           k == taken[d]
<1>1. q \in Seq(Message) /\ a \in Seq(Message) /\ k \in Nat
  BY DEF MailboxTypeOK
<1>2. Len(a) = k + Len(q) /\ \A i \in 1 .. Len(q) : q[i] = a[k + i]
  BY DEF InOrder, Holds
<1> HIDE DEF q, a, k
<1>3. SubSeq(a, k + 1, Len(a)) \in Seq(Message)
  BY <1>1, <1>2
<1>4. Len(SubSeq(a, k + 1, Len(a))) = Len(q)
  BY <1>1, <1>2
<1>5. \A i \in 1 .. Len(q) : SubSeq(a, k + 1, Len(a))[i] = q[i]
  BY <1>1, <1>2
<1>6. q = SubSeq(a, k + 1, Len(a))
  BY <1>1, <1>3, <1>4, <1>5
<1> QED BY <1>6 DEF q, a, k

AppendKeeps(q, a, k, m) ==
  /\ Len(Append(a, m)) = k + Len(Append(q, m))
  /\ \A i \in 1 .. Len(Append(q, m)) : Append(q, m)[i] = Append(a, m)[k + i]

\* A suffix stays one when both sequences grow by the same element.
LEMMA AppendInStep ==
  ASSUME NEW q \in Seq(Message), NEW a \in Seq(Message), NEW k \in Nat, NEW m \in Message,
         Len(a) = k + Len(q),
         \A i \in 1 .. Len(q) : q[i] = a[k + i]
  PROVE  AppendKeeps(q, a, k, m)
<1>1. Len(q) \in Nat /\ Len(a) \in Nat
  OBVIOUS
<1>2. Len(Append(q, m)) = Len(q) + 1 /\ Len(Append(a, m)) = Len(a) + 1
  OBVIOUS
<1>3. /\ Append(q, m)[Len(q) + 1] = m /\ Append(a, m)[Len(a) + 1] = m
      /\ \A i \in 1 .. Len(q) : Append(q, m)[i] = q[i]
      /\ \A i \in 1 .. Len(a) : Append(a, m)[i] = a[i]
  <2>1. /\ \A i \in 1 .. Len(q) : Append(q, m)[i] = q[i]
        /\ Append(q, m)[Len(q) + 1] = m
    BY AppendProperties, SMTT(30)
  <2>2. /\ \A i \in 1 .. Len(a) : Append(a, m)[i] = a[i]
        /\ Append(a, m)[Len(a) + 1] = m
    BY AppendProperties, SMTT(30)
  <2> QED BY <2>1, <2>2
<1>4. ASSUME NEW i \in 1 .. Len(q) + 1
      PROVE  Append(q, m)[i] = Append(a, m)[k + i]
  <2>1. CASE i = Len(q) + 1
    <3>1. k + i = Len(a) + 1
      BY <1>1, <2>1
    <3>2. Append(a, m)[k + i] = m
      BY <1>3, <3>1
    <3> QED BY <1>3, <2>1, <3>2
  <2>2. CASE i \in 1 .. Len(q)
    <3>1. k + i \in 1 .. Len(a)
      BY <1>1, <2>2
    <3> QED BY <1>3, <2>2, <3>1
  <2>3. i = Len(q) + 1 \/ i \in 1 .. Len(q)
    BY <1>1
  <2> QED BY <2>1, <2>2, <2>3
<1> QED BY <1>1, <1>2, <1>4 DEF AppendKeeps

LEMMA NextInOrder ==
  ASSUME MailboxTypeOK, InOrder, [Next]_vars,
         \A d \in Nat : d < boxes => d \in Box
  PROVE  InOrder'
<1>1. /\ queue \in [Box -> Seq(Message)] /\ accepted \in [Box -> Seq(Message)]
      /\ taken \in [Box -> Nat]
  BY DEF MailboxTypeOK
<1>2. CASE UNCHANGED <<queue, accepted, taken>>
  BY <1>2 DEF InOrder, Holds
<1>3. ASSUME NEW d \in Box, NEW msg \in Message, UNCHANGED taken,
             queue' = [queue EXCEPT ![d] = Append(@, msg)],
             accepted' = [accepted EXCEPT ![d] = Append(@, msg)]
      PROVE  InOrder'
  <2> SUFFICES ASSUME NEW x \in Box PROVE Holds(x)'
    BY DEF InOrder
  <2>1. Holds(x) /\ taken'[x] = taken[x]
    BY <1>3 DEF InOrder
  <2>2. CASE x # d
    BY <1>1, <1>3, <2>1, <2>2 DEF Holds
  <2>3. CASE x = d
    <3>1. queue'[d] = Append(queue[d], msg) /\ accepted'[d] = Append(accepted[d], msg)
      BY <1>1, <1>3
    <3>2. /\ Len(accepted[d]) = taken[d] + Len(queue[d])
          /\ \A i \in 1 .. Len(queue[d]) : queue[d][i] = accepted[d][taken[d] + i]
          /\ taken[d] \in Nat /\ taken'[d] = taken[d]
          /\ queue[d] \in Seq(Message) /\ accepted[d] \in Seq(Message)
      BY <1>1, <2>1, <2>3 DEF Holds
    <3>3. AppendKeeps(queue[d], accepted[d], taken[d], msg)
      BY <3>2, AppendInStep
    <3>4. /\ Len(accepted'[d]) = taken'[d] + Len(queue'[d])
          /\ \A i \in 1 .. Len(queue'[d]) : queue'[d][i] = accepted'[d][taken'[d] + i]
      BY <3>1, <3>2, <3>3 DEF AppendKeeps
    <3> QED BY <2>3, <3>4 DEF Holds
  <2> QED BY <2>2, <2>3
<1>4. ASSUME NEW d \in Box, PopFront(d), UNCHANGED accepted
      PROVE  InOrder'
  <2> SUFFICES ASSUME NEW x \in Box PROVE Holds(x)'
    BY DEF InOrder
  <2>1. /\ queue[d] # <<>>
        /\ queue' = [queue EXCEPT ![d] = Tail(@)]
        /\ taken' = [taken EXCEPT ![d] = @ + 1]
        /\ accepted' = accepted
    BY <1>4 DEF PopFront
  <2>2. CASE x # d
    BY <1>1, <2>1, <2>2 DEF InOrder, Holds
  <2>3. CASE x = d
    <3>1. queue'[d] = Tail(queue[d]) /\ taken'[d] = taken[d] + 1 /\ accepted'[d] = accepted[d]
      BY <1>1, <2>1
    <3>2. /\ Len(accepted[d]) = taken[d] + Len(queue[d])
          /\ \A i \in 1 .. Len(queue[d]) : queue[d][i] = accepted[d][taken[d] + i]
          /\ taken[d] \in Nat /\ queue[d] \in Seq(Message)
      BY <1>1 DEF InOrder, Holds
    <3>3. /\ Len(Tail(queue[d])) = Len(queue[d]) - 1
          /\ \A i \in 1 .. Len(Tail(queue[d])) : Tail(queue[d])[i] = queue[d][i + 1]
      BY <2>1, <3>2
    <3>4. Len(queue[d]) \in Nat
      BY <3>2
    <3>5. Len(accepted'[d]) = taken'[d] + Len(queue'[d])
      BY <3>1, <3>2, <3>3, <3>4
    <3>6. ASSUME NEW i \in 1 .. Len(queue'[d])
          PROVE  queue'[d][i] = accepted'[d][taken'[d] + i]
      <4>1. i + 1 \in 1 .. Len(queue[d]) /\ queue'[d][i] = queue[d][i + 1]
        BY <3>1, <3>3, <3>4
      <4>2. queue[d][i + 1] = accepted[d][taken[d] + (i + 1)]
        BY <3>2, <4>1
      <4>3. taken[d] + (i + 1) = taken'[d] + i
        BY <3>1, <3>2, <4>1
      <4> QED BY <3>1, <4>1, <4>2, <4>3
    <3> QED BY <2>3, <3>5, <3>6 DEF Holds
  <2> QED BY <2>2, <2>3
<1>5. CASE IpcInit
  BY <1>2, <1>5 DEF IpcInit, history
<1>6. CASE \E d \in Dest, claimed \in Task : Send(d, claimed)
  <2>1. PICK d \in Dest, claimed \in Task : Send(d, claimed)
    BY <1>6
  <2>2. d \in Box
    BY <2>1, MailboxAssumption DEF Send
  <2> DEFINE msg == [sender |-> claimed, seq |-> sent + 1]
  <2>3. msg \in Message
    BY <2>1, MailboxAssumption DEF Send, MailboxTypeOK, Message
  <2>4. /\ queue' = [queue EXCEPT ![d] = Append(@, msg)]
        /\ accepted' = [accepted EXCEPT ![d] = Append(@, msg)]
        /\ UNCHANGED taken
    BY <2>1 DEF Send
  <2> HIDE DEF msg
  <2> QED BY <1>3, <2>2, <2>3, <2>4
<1>7. CASE \E d \in Dest : TryReceive(d)
  BY <1>4, <1>7, MailboxAssumption DEF TryReceive
<1>8. CASE \E d \in Dest, limit \in Limit : ReceiveParks(d, limit)
  BY <1>2, <1>8 DEF ReceiveParks, history
<1>9. CASE Resume
  <2>1. CASE ResumeDelivers
    <3>1. PopFront(call[current].dest) /\ UNCHANGED accepted
      BY <1>9, <2>1 DEF Resume, ResumeDelivers
    <3>2. CASE call[current].dest \in Box
      BY <1>4, <3>1, <3>2
    <3>3. CASE call[current].dest \notin Box
      BY <1>1, <1>2, <3>1, <3>3 DEF PopFront
    <3> QED BY <3>2, <3>3
  <2>2. CASE ResumeTimesOut \/ ResumeParksAgain
    BY <1>2, <1>9, <2>2 DEF Resume, ResumeTimesOut, ResumeParksAgain
  <2> QED BY <1>9, <2>1, <2>2 DEF Resume
<1>10. CASE \E d \in Dest : WakeWaiters(d)
  BY <1>2, <1>10 DEF WakeWaiters, history
<1>11. CASE \E d \in Dest, sender \in Revocable : RevokeSender(d, sender)
  BY <1>2, <1>11 DEF RevokeSender, history
<1>12. CASE Yields \/ Terminates \/ Spawns \/ UNCHANGED vars
  BY <1>2, <1>12 DEF Yields, Terminates, Spawns, vars, boxVars, history
<1> QED BY <1>5, <1>6, <1>7, <1>8, <1>9, <1>10, <1>11, <1>12 DEF Next

\* A message accepted by a mailbox is popped exactly once and in order, for
\* every interleaving of senders and receivers (ipc.rs, send and receive).
THEOREM FifoForEver ==
  ASSUME TwoPerpetual
  PROVE  Spec => []FifoExactlyOnce
<1>1. Init => InOrder
  BY DEF Init, InOrder, Holds
<1>2. MailInv /\ InOrder /\ [Next]_vars => InOrder'
  BY NextInOrder, BoxesInRange DEF MailInv
<1>3. MailInv /\ InOrder => FifoExactlyOnce
  BY InOrderIsFifo DEF MailInv
<1> QED BY <1>1, <1>2, <1>3, MailboxInvariant, PTL DEF Spec

\* What ArbiterDecides asks of a step, for one mailbox.
Arbitrated(d) ==
  /\ Len(queue'[d]) > Len(queue[d]) =>
       LET msg == queue'[d][Len(queue'[d])]
       IN  msg.sender = current /\ msg.sender \notin revoked[d]
  /\ revoked'[d] # revoked[d] => queue' = queue /\ revoked[d] \subseteq revoked'[d]

LEMMA StepIsArbitrated ==
  ASSUME MailInv, Next, NEW x \in Box
  PROVE  Arbitrated(x)
<1>1. /\ queue \in [Box -> Seq(Message)] /\ revoked \in [Box -> SUBSET Nat]
      /\ Len(queue[x]) \in Nat
  BY DEF MailInv, MailboxTypeOK
<1>2. CASE UNCHANGED <<queue, revoked>>
  BY <1>1, <1>2 DEF Arbitrated
<1>3. ASSUME NEW d, PopFront(d), UNCHANGED revoked
      PROVE  Arbitrated(x)
  <2>1. CASE d = x
    <3>1. queue'[x] = Tail(queue[x]) /\ queue[x] # <<>>
      BY <1>1, <1>3, <2>1 DEF PopFront
    <3>2. Len(Tail(queue[x])) = Len(queue[x]) - 1
      BY <1>1, <3>1
    <3> QED BY <1>1, <1>3, <3>1, <3>2 DEF Arbitrated
  <2>2. CASE d # x
    <3>1. queue'[x] = queue[x]
      BY <1>1, <1>3, <2>2 DEF PopFront
    <3> QED BY <1>1, <1>3, <3>1 DEF Arbitrated
  <2> QED BY <2>1, <2>2
<1>4. CASE \E d \in Dest, claimed \in Task : Send(d, claimed)
  <2>1. PICK d \in Dest, claimed \in Task : Send(d, claimed)
    BY <1>4
  <2> DEFINE msg == [sender |-> claimed, seq |-> sent + 1]
  <2>2. /\ claimed = current /\ claimed \notin revoked[d] /\ revoked' = revoked
        /\ queue' = [queue EXCEPT ![d] = Append(@, msg)]
    BY <2>1 DEF Send
  <2>5. msg \in Message /\ msg.sender = claimed
    BY <2>1, MailboxAssumption DEF Send, MailInv, MailboxTypeOK, Message
  <2> HIDE DEF msg
  <2>3. CASE d = x
    <3>1. queue'[x] = Append(queue[x], msg)
      BY <1>1, <2>2, <2>3
    <3>2. Len(Append(queue[x], msg)) = Len(queue[x]) + 1
      BY <1>1, <2>5
    <3>3. Append(queue[x], msg)[Len(queue[x]) + 1] = msg
      BY <1>1, <2>5, AppendProperties
    <3> QED BY <2>2, <2>3, <2>5, <3>1, <3>2, <3>3 DEF Arbitrated
  <2>4. CASE d # x
    <3>1. queue'[x] = queue[x]
      BY <1>1, <2>2, <2>4
    <3> QED BY <1>1, <2>2, <3>1 DEF Arbitrated
  <2> QED BY <2>3, <2>4
<1>5. CASE \E d \in Dest, sender \in Revocable : RevokeSender(d, sender)
  <2>1. PICK d \in Dest, sender \in Revocable :
          revoked' = [revoked EXCEPT ![d] = @ \cup {sender}] /\ queue' = queue
    BY <1>5 DEF RevokeSender
  <2> QED BY <1>1, <2>1 DEF Arbitrated
<1>6. CASE IpcInit
  BY <1>2, <1>6 DEF IpcInit
<1>7. CASE \E d \in Dest : TryReceive(d)
  BY <1>3, <1>7 DEF TryReceive
<1>8. CASE \E d \in Dest, limit \in Limit : ReceiveParks(d, limit)
  BY <1>2, <1>8 DEF ReceiveParks
<1>9. CASE Resume
  BY <1>2, <1>3, <1>9 DEF Resume, ResumeDelivers, ResumeTimesOut, ResumeParksAgain
<1>10. CASE \E d \in Dest : WakeWaiters(d)
  BY <1>2, <1>10 DEF WakeWaiters
<1>11. CASE Yields \/ Terminates \/ Spawns
  BY <1>2, <1>11 DEF Yields, Terminates, Spawns, boxVars
<1> QED BY <1>4, <1>5, <1>6, <1>7, <1>8, <1>9, <1>10, <1>11 DEF Next

\* Only the running task's own messages enter a mailbox, never a revoked
\* sender's, and a revocation is forward-looking (ipc.rs, send, revoke_sender).
THEOREM ArbiterAlwaysDecides ==
  ASSUME TwoPerpetual
  PROVE  Spec => ArbiterDecides
<1>1. MailInv /\ [Next]_vars => [\A d \in Box : Arbitrated(d)]_vars
  BY StepIsArbitrated
<1>2. (\A d \in Box : Arbitrated(d)) <=>
        \A d \in Box :
          /\ Len(queue'[d]) > Len(queue[d]) =>
               LET msg == queue'[d][Len(queue'[d])]
               IN  msg.sender = current /\ msg.sender \notin revoked[d]
          /\ revoked'[d] # revoked[d] =>
               queue' = queue /\ revoked[d] \subseteq revoked'[d]
  BY DEF Arbitrated
<1> QED BY <1>1, <1>2, MailboxInvariant, PTL DEF Spec, ArbiterDecides

=============================================================================
