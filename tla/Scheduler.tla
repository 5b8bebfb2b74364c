------------------------------ MODULE Scheduler ------------------------------
(***************************************************************************)
(* The cooperative round-robin scheduler of NyKernel,                      *)
(* nykernel/src/experimental/scheduler.rs.                                 *)
(*                                                                         *)
(* One core.  Every task runs in ring 0 with no preemption (the timer only *)
(* ever switches ring-3 contexts), so a task keeps the core until it calls *)
(* yield_task, block_current or terminate_current, and what it does between*)
(* two such calls is one step.  CURRENT is the task whose code executes:   *)
(* each action is a call made by that task.                                *)
(*                                                                         *)
(* `saved` abstracts the saved_rsp fields: saved[t] says that the field    *)
(* holds the context task t must resume from.  A context that has been     *)
(* resumed is spent, and task 0 is born with a placeholder in the field.   *)
(* switch_to reads next_sp BEFORE it saves the caller's rsp; restoring a   *)
(* spent context is undefined behaviour: the task survives it only when it *)
(* happens to stand at the stack depth it was saved at, and otherwise the  *)
(* model stops with halt = "stale_context".                                *)
(***************************************************************************)
EXTENDS Integers

CONSTANTS
  MaxTasks,    \* bound: how many tasks are ever spawned
  Perpetual    \* tasks whose body never blocks and never terminates

ASSUME SchedulerAssumption ==
  /\ MaxTasks \in Nat \ {0}
  /\ Perpetual \subseteq 0 .. MaxTasks - 1

Task == 0 .. MaxTasks - 1

\* NPS-002 section 5; "Absent" is an index past the end of TASKS.
LifecycleState ==
  {"Absent", "Created", "Ready", "Running", "Blocked", "Terminating", "Terminated"}

VARIABLES
  tasks,       \* TASKS.len()
  state,       \* TASKS[t].state
  current,     \* CURRENT
  saved,       \* is TASKS[t].saved_rsp the context t must resume from?
  rejected,    \* LIFECYCLE_REJECTIONS > 0
  halt         \* "no", or how the kernel died

schedVars == <<tasks, state, current, saved, rejected, halt>>

----------------------------------------------------------------------------
(* The lifecycle and the dispatcher's choice, as pure operators.            *)

LegalTransition(from, to) ==
  <<from, to>> \in
    { <<"Created", "Ready">>, <<"Ready", "Running">>, <<"Running", "Ready">>,
      <<"Running", "Blocked">>, <<"Blocked", "Ready">>,
      <<"Ready", "Terminating">>, <<"Running", "Terminating">>,
      <<"Blocked", "Terminating">>, <<"Terminating", "Terminated">> }

\* One set_state call: a refused transition leaves the state untouched.
SetState(st, t, to) ==
  IF LegalTransition(st[t], to) THEN [st EXCEPT ![t] = to] ELSE st

\* Mutant of ReadyAt: the scan tries `start` itself first.
SelfFirst(st, n, start) == { o \in 0 .. n - 1 : st[(start + o) % n] = "Ready" }

ReadyAt(st, n, start) == { o \in 1 .. n : st[(start + o) % n] = "Ready" }

\* Mutant of PickNextReady: wraps at the bound of the vector, not at its length.
PickWrapsLate(st, n, start) ==
  LET first == CHOOSE o \in ReadyAt(st, n, start) :
                 \A p \in ReadyAt(st, n, start) : o <= p
  IN  (start + first) % MaxTasks

\* Mutant of PickNextReady: the scan always begins at task 0, the caller last.
PickLowest(st, n, start) ==
  LET others == { (start + o) % n : o \in ReadyAt(st, n, start) \ {n} }
  IN  IF others = {} THEN start
      ELSE CHOOSE t \in others : \A u \in others : t <= u

\* The scan visits start + 1, ..., start + n modulo n: `start` itself is last.
PickNextReady(st, n, start) ==
  LET first == CHOOSE o \in ReadyAt(st, n, start) :
                 \A p \in ReadyAt(st, n, start) : o <= p
  IN  (start + first) % n

----------------------------------------------------------------------------
(* yield_task, entered with the task states `st` (block_current and         *)
(* terminate_current have already moved the caller).                        *)

\* Mutant of Suspended: the caller stays Running.
LeftRunning(st) == st

\* Running -> Ready for a caller that is neither Blocked nor Terminated.
Suspended(st) ==
  IF st[current] = "Running" THEN SetState(st, current, "Ready") ELSE st

Dispatchable(st) ==
  /\ tasks >= 2
  /\ ReadyAt(Suspended(st), tasks, current) # {}

\* yield_task comes straight back to its caller, without a switch.
YieldReturns(st) ==
  /\ ~ Dispatchable(st)
  /\ state' = IF tasks < 2 THEN st ELSE Suspended(st)
  /\ UNCHANGED <<tasks, current, saved, halt>>

\* switch_to: saves the caller, resumes `next` from next_sp.
SwitchTo(st) ==
  LET next == PickNextReady(Suspended(st), tasks, current)
  IN  /\ Dispatchable(st)
      /\ state' = SetState(Suspended(st), next, "Running")
      /\ current' = next
      /\ halt' \in IF saved[next] THEN {halt} ELSE {halt, "stale_context"}
      /\ saved' = [saved EXCEPT ![current] = TRUE, ![next] = FALSE]
      /\ UNCHANGED tasks

YieldFrom(st) == YieldReturns(st) \/ SwitchTo(st)

----------------------------------------------------------------------------
(* The calls of the running task.                                           *)

YieldTask ==
  /\ halt = "no"
  /\ YieldFrom(state)
  /\ UNCHANGED rejected

BlockCurrent ==
  /\ halt = "no"
  /\ current \notin Perpetual
  /\ \/ /\ LegalTransition(state[current], "Blocked")
        /\ YieldFrom([state EXCEPT ![current] = "Blocked"])
        /\ UNCHANGED rejected
     \/ /\ ~ LegalTransition(state[current], "Blocked")
        /\ rejected' = TRUE
        /\ UNCHANGED <<tasks, state, current, saved, halt>>

\* unblock_task for each task of ids, with no scheduling point in between.
UnblockTasks(ids) ==
  /\ halt = "no"
  /\ state' = [t \in Task |-> IF t \in ids THEN SetState(state, t, "Ready")[t]
                                           ELSE state[t]]
  /\ rejected' = \/ rejected
                 \/ \E t \in ids : t < tasks /\ ~ LegalTransition(state[t], "Ready")
  /\ UNCHANGED <<tasks, current, saved, halt>>

\* An edge the enforcer refuses, or control coming back, is a panic.
TerminateCurrent ==
  /\ halt = "no"
  /\ current \notin Perpetual
  /\ LET st == [state EXCEPT ![current] = "Terminated"]
     IN  \/ /\ LegalTransition(state[current], "Terminating")
            /\ SwitchTo(st)
         \/ /\ LegalTransition(state[current], "Terminating")
            /\ ~ Dispatchable(st)
            /\ state' = st
            /\ halt' = "panic"
            /\ UNCHANGED <<tasks, current, saved>>
         \/ /\ ~ LegalTransition(state[current], "Terminating")
            /\ halt' = "panic"
            /\ UNCHANGED <<tasks, state, current, saved>>
  /\ rejected' = (rejected \/ ~ LegalTransition(state[current], "Terminating"))

\* spawn_with_cr3: born Created, Ready before the id is returned, with a
\* built stack frame in saved_rsp.
Spawn ==
  /\ halt = "no"
  /\ tasks < MaxTasks
  /\ tasks' = tasks + 1
  /\ state' = SetState([state EXCEPT ![tasks] = "Created"], tasks, "Ready")
  /\ saved' = [saved EXCEPT ![tasks] = TRUE]
  /\ UNCHANGED <<current, rejected, halt>>

----------------------------------------------------------------------------
SchedInit ==
  /\ tasks = 1
  /\ state = [t \in Task |-> IF t = 0 THEN "Running" ELSE "Absent"]
  /\ current = 0
  /\ saved = [t \in Task |-> FALSE]
  /\ rejected = FALSE
  /\ halt = "no"

\* The tree's callers of unblock_task wake OTHER tasks only.
SchedNext ==
  \/ YieldTask
  \/ BlockCurrent
  \/ \E ids \in SUBSET (Task \ {current}) : UnblockTasks(ids)
  \/ TerminateCurrent
  \/ Spawn

\* The scheduler is cooperative: a task that holds the core gives it up.
SchedSpec == SchedInit /\ [][SchedNext]_schedVars /\ WF_schedVars(YieldTask)

----------------------------------------------------------------------------
(* Properties.  All but the type invariant suppose TwoPerpetual: the boot    *)
(* keeps kernel_main (task 0) and the first spawned task A in the rotation.  *)

TwoPerpetual == {0, 1} \subseteq Perpetual

\* Every variable stays in its range: CURRENT indexes a spawned task and the
\* indices past TASKS.len() hold nothing.
SchedTypeOK ==
  /\ tasks \in 1 .. MaxTasks
  /\ state \in [Task -> LifecycleState]
  /\ current \in 0 .. tasks - 1
  /\ saved \in [Task -> BOOLEAN]
  /\ rejected \in BOOLEAN
  /\ halt \in {"no", "stale_context", "panic"}
  /\ \A t \in Task : state[t] = "Absent" <=> t >= tasks

\* The task whose code executes is Running and no other task is: the lifecycle
\* field tells the truth about the core (scheduler.rs, yield_task).
SoleRunner == \A t \in Task : state[t] = "Running" <=> t = current

\* No switch ever resumes a spent context and no terminated task gets control
\* back, however the other tasks block, wake, spawn and terminate
\* (scheduler.rs, yield_task's next_sp and terminate_current's unreachable!).
KernelLives == halt = "no"

\* How many steps of the round-robin scan separate task c from task t.
Distance(c, t) == (t - c) % tasks

\* The rotation never passes over a Ready task: a dispatch either picks it or
\* brings the core strictly closer to it (pick_next_ready), so it waits for
\* fewer dispatches than there are tasks.
NeverPassedOver ==
  [][ \A t \in Task :
        state[t] = "Ready" /\ current' # current /\ current' # t
          => Distance(current', t) < Distance(current, t) ]_schedVars

\* A Ready task is eventually given the core (strict round-robin, no
\* starvation), as long as the running tasks keep yielding.
ReadyIsDispatched == \A t \in Task : state[t] = "Ready" ~> current = t

=============================================================================
