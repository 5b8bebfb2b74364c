-------------------------- MODULE ContainerLifecycle --------------------------
(***************************************************************************)
(* One container of the host backend and everything that may act on it at   *)
(* the same time: the threads that spawn it, wait for it, suspend, resume   *)
(* and terminate it, and the daemon thread `_maybe_restart` starts for each *)
(* automatic restart (backend/container.py).                                *)
(*                                                                          *)
(* The manager holds no lock.  An operation is cut into steps at the places *)
(* where the source blocks or leaves the interpreter: system calls, sleeps, *)
(* Event operations, and the two halves of `transition_to`, which tests the *)
(* state through the foreign codec and assigns it afterwards.               *)
(*                                                                          *)
(* The direct-syscall launch path, by clone, is the one modelled.  `proc`   *)
(* is the kernel's side: process i is the i-th incarnation of the           *)
(* container, its command and its PID-1 taken as one; a pid is never        *)
(* reused.  A "stray" has been killed but is nobody's to reap.              *)
(***************************************************************************)
EXTENDS Naturals

CONSTANTS
  Callers,      \* threads of the backend's user
  Owner,        \* the caller that created the container and spawns it
  MaxRestarts,  \* bound on the automatic restarts
  MaxRetries    \* config.restart_max_retries; 0 stands for unlimited

ASSUME CallersAssumption == Owner \in Callers /\ Callers \cap Nat = {}
ASSUME RestartsAssumption == MaxRestarts \in Nat /\ MaxRetries \in Nat

Workers == 1 .. MaxRestarts       \* worker k carries out restart number k
Threads == Callers \cup Workers
Pids == 1 .. (MaxRestarts + 1)
None == 0                         \* Python's None, for a pid or an event

VARIABLES
  state,         \* container.state
  pid,           \* container.pid
  launcher,      \* container._direct_launcher_pid
  restartCount,  \* container.restart_count
  restartStop,   \* container._restart_stop: the event of restart k, or None
  stopped,       \* the events that are set
  frozen,        \* how the processes are held: cgroup.freeze, SIGSTOP, not
  caps,          \* the capability manager holds the default grants
  proc,          \* process table entry of each incarnation
  launched,      \* number of incarnations so far
  pc,            \* what each thread does next
  target         \* the pid a wait() reaps, or a spawn under way polls for

handle  == <<pid, launcher>>
restart == <<restartCount, restartStop, stopped>>
kernel  == <<proc, launched>>
vars == <<state, handle, restart, frozen, caps, kernel, pc, target>>

States == {"created", "running", "suspended", "terminated"}
SpawnPcs == {"spawn_check", "spawn_set", "launch", "poll"}
LaunchedPcs == {"grant", "finish", "fail_check", "fail_set"}
ReapedPcs == {"wait_check", "wait_set", "restart_check", "restart_set"}
TerminatePcs == {"term_pid", "none_check", "none_set", "term_kill", "term_poll",
                 "term_check", "term_set", "term_reap"}
CallerPcs == {"idle", "wait_reap", "term_stop",
              "susp_freeze", "susp_check", "susp_set",
              "res_thaw", "res_check", "res_set"}
             \cup SpawnPcs \cup LaunchedPcs \cup ReapedPcs \cup TerminatePcs
WorkerPcs == {"none", "delay", "reset", "done"} \cup SpawnPcs \cup LaunchedPcs

Running(i) == i # None /\ proc[i] = "live"
Zombie(i) == i # None /\ proc[i] = "zombie"

\* A spawn under way knows process i, and no field of the container does yet.
Polled(i) == \E t \in Threads : pc[t] = "poll" /\ target[t] = i

\* container_codec.transition_valid: the NPS-010 lifecycle.
Legal(from, to) ==
  <<from, to>> \in {<<"created", "running">>, <<"running", "suspended">>,
                    <<"running", "terminated">>, <<"suspended", "running">>,
                    <<"suspended", "terminated">>}

LifecycleTypeOK ==
  /\ state \in States
  /\ pid \in Pids \cup {None}
  /\ launcher \in Pids \cup {None}
  /\ restartCount \in 0 .. MaxRestarts
  /\ restartStop \in Workers \cup {None}
  /\ stopped \subseteq Workers
  /\ frozen \in {"no", "cgroup", "signal"}
  /\ caps \in BOOLEAN
  /\ proc \in [Pids -> {"none", "live", "zombie", "reaped", "stray"}]
  /\ launched \in 0 .. (MaxRestarts + 1)
  /\ pc \in [Threads -> CallerPcs \cup WorkerPcs]
  /\ \A c \in Callers : pc[c] \in CallerPcs
  /\ \A k \in Workers : pc[k] \in WorkerPcs
  /\ target \in [Threads -> Pids \cup {None}]

\* create() has returned and its caller is about to call spawn().
Init ==
  /\ state = "created"
  /\ pid = None
  /\ launcher = None
  /\ restartCount = 0
  /\ restartStop = None
  /\ stopped = {}
  /\ frozen = "no"
  /\ caps = FALSE
  /\ proc = [i \in Pids |-> "none"]
  /\ launched = 0
  /\ pc = [t \in Threads |-> IF t = Owner THEN "spawn_check"
                             ELSE IF t \in Callers THEN "idle" ELSE "none"]
  /\ target = [t \in Threads |-> None]

Goto(t, from, to) == pc[t] = from /\ pc' = [pc EXCEPT ![t] = to]
Rest(t) == IF t \in Callers THEN "idle" ELSE "done"  \* return, or raise

\* transition_to: the test, then in a step of its own the assignment.
TransitionTest(t, from, to, ok, bad) ==
  /\ Goto(t, from, IF Legal(state, to) THEN ok ELSE bad)
  /\ UNCHANGED <<state, handle, restart, frozen, caps, kernel, target>>
TransitionAssign(t, from, new, to) ==
  /\ Goto(t, from, to)
  /\ state' = new
  /\ UNCHANGED <<handle, restart, frozen, caps, kernel, target>>

\* TERMINATED is assigned, then _cap_reset.
TerminatedAssign(t, from, to) ==
  /\ Goto(t, from, to)
  /\ state' = "terminated"
  /\ caps' = FALSE
  /\ UNCHANGED <<handle, restart, frozen, kernel, target>>
-----------------------------------------------------------------------------
(***************************************************************************)
(* spawn(), by the owner or by a restart worker.                            *)
(***************************************************************************)

SpawnTest(t) ==
  /\ Goto(t, "spawn_check", IF state = "created" THEN "spawn_set" ELSE Rest(t))
  /\ UNCHANGED <<state, handle, restart, frozen, caps, kernel, target>>

SpawnRunning(t) == TransitionAssign(t, "spawn_set", "running", "launch")

\* The setup, or clone itself, raises: there is no process.
LaunchFails(t) ==
  /\ Goto(t, "launch", "fail_check")
  /\ UNCHANGED <<state, handle, restart, frozen, caps, kernel, target>>

\* clone: from here on the process runs, and only this thread knows its pid.
\* It joins the container's cgroup as that is, frozen or not.
Clone(t) ==
  /\ Goto(t, "launch", "poll")
  /\ launched' = launched + 1
  /\ proc' = [proc EXCEPT ![launched + 1] = "live"]
  /\ target' = [target EXCEPT ![t] = launched + 1]
  /\ frozen' = IF frozen = "cgroup" THEN "cgroup" ELSE "no"
  /\ UNCHANGED <<state, handle, restart, caps>>

PollEnds(t, to) ==
  /\ Goto(t, "poll", to)
  /\ target' = [target EXCEPT ![t] = None]
  /\ UNCHANGED <<state, restart, frozen, caps, launched>>

\* The entry reports ERR: _kill_launcher kills the process and reaps it.
EntryFails(t) ==
  /\ PollEnds(t, "fail_check")
  /\ proc' = [proc EXCEPT ![target[t]] = "reaped"]
  /\ UNCHANGED handle

\* Mutant: the spawn gives up and leaves the init alone.
PollGivesUp(t) ==
  /\ Running(target[t])
  /\ PollEnds(t, "fail_check")
  /\ UNCHANGED <<proc, handle>>

\* No command within the deadline and the init alive: it is killed, not
\* reaped, and the spawn raises before any handle to it is assigned.
PollTimesOut(t) ==
  /\ Running(target[t])
  /\ PollEnds(t, "fail_check")
  /\ proc' = [proc EXCEPT ![target[t]] = "stray"]
  /\ UNCHANGED handle

\* _spawn_direct returns.  A command that has exited may not have been seen:
\* pid stays None then, and the child waits to be reaped.
PollResolves(t) ==
  /\ PollEnds(t, "grant")
  /\ launcher' = target[t]
  /\ pid' \in {target[t]} \cup (IF Running(target[t]) THEN {} ELSE {None})
  /\ UNCHANGED proc

\* _cap_initialize
Grant(t) ==
  /\ Goto(t, "grant", "finish")
  /\ caps' = TRUE
  /\ UNCHANGED <<state, handle, restart, frozen, kernel, target>>

\* The remaining settings (scheduling, network policy) may raise.
SpawnReturns(t) ==
  /\ \E to \in {Rest(t), "fail_check"} : Goto(t, "finish", to)
  /\ UNCHANGED <<state, handle, restart, frozen, caps, kernel, target>>

\* The except clause: a refused transition raises past the clean-up.
FailTest(t)   == TransitionTest(t, "fail_check", "terminated", "fail_set", Rest(t))
FailAssign(t) == TerminatedAssign(t, "fail_set", Rest(t))

Spawn(t) ==
  \/ SpawnTest(t) \/ SpawnRunning(t) \/ LaunchFails(t) \/ Clone(t)
  \/ EntryFails(t) \/ PollTimesOut(t) \/ PollResolves(t)
  \/ Grant(t) \/ SpawnReturns(t) \/ FailTest(t) \/ FailAssign(t)
-----------------------------------------------------------------------------
(***************************************************************************)
(* wait() and _maybe_restart().                                             *)
(***************************************************************************)

WaitBegin(c) ==
  /\ launcher # None
  /\ Goto(c, "idle", "wait_reap")
  /\ target' = [target EXCEPT ![c] = launcher]
  /\ UNCHANGED <<state, handle, restart, frozen, caps, kernel>>

\* waitpid finds the exited child, exactly once.
WaitReaps(c) ==
  /\ Goto(c, "wait_reap", "wait_check")
  /\ Zombie(target[c])
  /\ proc' = [proc EXCEPT ![target[c]] = "reaped"]
  /\ target' = [target EXCEPT ![c] = None]
  /\ UNCHANGED <<state, handle, restart, frozen, caps, launched>>

\* The timeout expires, or the child "was already reaped".
WaitRaises(c) ==
  /\ ~Zombie(target[c])
  /\ Goto(c, "wait_reap", "idle")
  /\ target' = [target EXCEPT ![c] = None]
  /\ UNCHANGED <<state, handle, restart, frozen, caps, kernel>>

WaitTest(c)   == TransitionTest(c, "wait_check", "terminated", "wait_set", "idle")
WaitAssign(c) == TerminatedAssign(c, "wait_set", "restart_check")

\* Mutant: the retries are compared with <=.
OneRetryMore == MaxRetries > 0 => restartCount <= MaxRetries

\* _should_restart.  set_restart_policy may have changed the policy at any
\* time, so that the policy's own answer is either, when retries are left.
RetriesLeft == MaxRetries > 0 => restartCount < MaxRetries

RestartTest(c) ==
  /\ \E to \in {"restart_set", "idle"} : Goto(c, "restart_check", to)
  /\ pc'[c] = "restart_set" => RetriesLeft /\ restartStop \notin stopped
  /\ UNCHANGED <<state, handle, restart, frozen, caps, kernel, target>>

\* restart_count += 1, a new stop event, the worker thread.
RestartSchedule(c) ==
  /\ pc[c] = "restart_set"
  /\ restartCount < MaxRestarts
  /\ restartCount' = restartCount + 1
  /\ restartStop' = restartCount + 1
  /\ pc' = [pc EXCEPT ![c] = "idle", ![restartCount + 1] = "delay"]
  /\ UNCHANGED <<state, handle, stopped, frozen, caps, kernel, target>>

\* The worker waits on the event the container holds.
WorkerCancelled(k) ==
  /\ restartStop \in stopped
  /\ Goto(k, "delay", "done")
  /\ UNCHANGED <<state, handle, restart, frozen, caps, kernel, target>>

\* Mutant: the worker sleeps instead of waiting on the event.
WorkerOnlySleeps(k) ==
  /\ Goto(k, "delay", "reset")
  /\ UNCHANGED <<state, handle, restart, frozen, caps, kernel, target>>

WorkerDelayOver(k) ==
  /\ restartStop \notin stopped
  /\ Goto(k, "delay", "reset")
  /\ UNCHANGED <<state, handle, restart, frozen, caps, kernel, target>>

WorkerReset(k) ==
  /\ Goto(k, "reset", "spawn_check")
  /\ state' = "created"
  /\ pid' = None
  /\ launcher' = None
  /\ UNCHANGED <<restart, frozen, caps, kernel, target>>

Wait(c) ==
  \/ WaitReaps(c) \/ WaitRaises(c) \/ WaitTest(c) \/ WaitAssign(c)
  \/ RestartTest(c) \/ RestartSchedule(c)

Worker(k) == WorkerCancelled(k) \/ WorkerDelayOver(k) \/ WorkerReset(k)
-----------------------------------------------------------------------------
(***************************************************************************)
(* terminate().                                                             *)
(***************************************************************************)

TerminateBegin(c) ==
  /\ state # "terminated"
  /\ Goto(c, "idle", "term_stop")
  /\ UNCHANGED <<state, handle, restart, frozen, caps, kernel, target>>

\* Mutant: the event is set without the test for None.
SetAnyEvent == stopped' = stopped \cup {restartStop}

SetStopEvent == stopped' = IF restartStop = None THEN stopped
                           ELSE stopped \cup {restartStop}

TerminateStopsRestart(c) ==
  /\ Goto(c, "term_stop", "term_pid")
  /\ SetStopEvent
  /\ UNCHANGED <<state, handle, restartCount, restartStop,
                 frozen, caps, kernel, target>>

\* Without a pid there is nothing to signal.
NoPidTest(c)   == TransitionTest(c, "none_check", "terminated", "none_set", "idle")
NoPidAssign(c) == TerminatedAssign(c, "none_set", "idle")

\* With one, a frozen cgroup is thawed, if the write succeeds.
TerminateThaws(c) ==
  /\ Goto(c, "term_pid", IF pid = None THEN "none_check" ELSE "term_kill")
  /\ frozen' \in IF pid # None /\ frozen = "cgroup" THEN {"no", frozen} ELSE {frozen}
  /\ UNCHANGED <<state, handle, restart, caps, kernel, target>>

\* os.kill(container.pid, SIGTERM): the pid may have become None, which
\* raises past every clean-up, or may name no process any more.
TerminateSignals(c) ==
  /\ Goto(c, "term_kill", IF pid = None THEN "term_reap"
                          ELSE IF Running(pid) THEN "term_poll"
                          ELSE "term_check")
  /\ UNCHANGED <<state, handle, restart, frozen, caps, kernel, target>>

\* Mutant: no SIGKILL after the window.
TerminateOnlyAsks(c) ==
  /\ Goto(c, "term_poll", "term_check")
  /\ UNCHANGED <<state, handle, restart, frozen, caps, kernel, target>>

\* The process is gone, or the window is over and it is killed.
TerminateKills(c) ==
  /\ Goto(c, "term_poll", "term_check")
  /\ proc' = IF Running(pid) THEN [proc EXCEPT ![pid] = "zombie"] ELSE proc
  /\ UNCHANGED <<state, handle, restart, frozen, caps, launched, target>>

TerminateTest(c)   == TransitionTest(c, "term_check", "terminated", "term_set", "term_reap")
TerminateAssign(c) == TerminatedAssign(c, "term_set", "term_reap")

\* _reap_direct_child
TerminateReaps(c) ==
  /\ Goto(c, "term_reap", "idle")
  /\ proc' = IF Zombie(launcher) THEN [proc EXCEPT ![launcher] = "reaped"] ELSE proc
  /\ UNCHANGED <<state, handle, restart, frozen, caps, launched, target>>

Terminate(c) ==
  \/ TerminateStopsRestart(c) \/ NoPidTest(c) \/ NoPidAssign(c)
  \/ TerminateThaws(c) \/ TerminateSignals(c) \/ TerminateKills(c)
  \/ TerminateTest(c) \/ TerminateAssign(c)
  \/ TerminateReaps(c)
-----------------------------------------------------------------------------
(***************************************************************************)
(* suspend(), resume(), stop_restart(); the process itself.                 *)
(***************************************************************************)

SuspendBegin(c) ==
  /\ state = "running"
  /\ pid # None
  /\ Goto(c, "idle", "susp_freeze")
  /\ UNCHANGED <<state, handle, restart, frozen, caps, kernel, target>>

\* cgroup.freeze, or SIGSTOP, which raises when there is no such process.
SuspendFreezes(c) ==
  /\ \/ Goto(c, "susp_freeze", "susp_check") /\ frozen' = "cgroup"
     \/ /\ Running(pid)
        /\ Goto(c, "susp_freeze", "susp_check")
        /\ frozen' = IF frozen = "cgroup" THEN frozen ELSE "signal"
     \/ ~Running(pid) /\ Goto(c, "susp_freeze", "idle") /\ UNCHANGED frozen
  /\ UNCHANGED <<state, handle, restart, caps, kernel, target>>

SuspendTest(c)   == TransitionTest(c, "susp_check", "suspended", "susp_set", "idle")
SuspendAssign(c) == TransitionAssign(c, "susp_set", "suspended", "idle")

ResumeBegin(c) ==
  /\ state = "suspended"
  /\ pid # None
  /\ Goto(c, "idle", "res_thaw")
  /\ UNCHANGED <<state, handle, restart, frozen, caps, kernel, target>>

\* A failed thaw raises; so does SIGCONT without a process.
ResumeThaws(c) ==
  /\ \/ /\ frozen = "cgroup" \/ Running(pid)
        /\ Goto(c, "res_thaw", "res_check")
        /\ frozen' = "no"
     \/ /\ frozen = "cgroup" \/ ~Running(pid)
        /\ Goto(c, "res_thaw", "idle")
        /\ UNCHANGED frozen
  /\ UNCHANGED <<state, handle, restart, caps, kernel, target>>

ResumeTest(c)   == TransitionTest(c, "res_check", "running", "res_set", "idle")
ResumeAssign(c) == TransitionAssign(c, "res_set", "running", "idle")

StopRestart(c) ==
  /\ pc[c] = "idle"
  /\ SetStopEvent
  /\ UNCHANGED <<state, handle, restartCount, restartStop,
                 frozen, caps, kernel, pc, target>>

Begin(c) ==
  WaitBegin(c) \/ TerminateBegin(c) \/ SuspendBegin(c) \/ ResumeBegin(c)
  \/ StopRestart(c)

SuspendResume(c) ==
  SuspendFreezes(c) \/ SuspendTest(c) \/ SuspendAssign(c)
  \/ ResumeThaws(c) \/ ResumeTest(c) \/ ResumeAssign(c)

\* The container's command ends by itself or by somebody else's signal.
Exit(i) ==
  /\ proc[i] = "live"
  /\ proc' = [proc EXCEPT ![i] = "zombie"]
  /\ UNCHANGED <<state, handle, restart, frozen, caps, launched, pc, target>>

CallerStep(c) == Spawn(c) \/ Wait(c) \/ Terminate(c) \/ SuspendResume(c)

Next ==
  \/ \E c \in Callers : Begin(c) \/ CallerStep(c)
  \/ \E k \in Workers : Worker(k) \/ Spawn(k)
  \/ \E i \in Pids : Exit(i)

\* The operating system runs a caller that is not blocked; whether a caller
\* starts an operation and whether a process exits is nobody's duty.
Fairness == \A c \in Callers : WF_vars(CallerStep(c))

Spec == Init /\ [][Next]_vars /\ Fairness
-----------------------------------------------------------------------------
(***************************************************************************)
(* Properties.                                                              *)
(***************************************************************************)

\* However spawns, waits, terminations and restarts overlap, the command that
\* runs is the one the manager would signal, and a process still to be reaped
\* the one it would reap, unless it is the one a spawn in its launch poll is
\* about to name; and two incarnations never exist at once.  A stray, killed
\* by a poll that timed out, is the one entry that nobody reaps
\* (container.py, _spawn_direct, _restart_worker's reset of the handles).
NoOrphan ==
  /\ \A i \in Pids : /\ Running(i) => (i = pid \/ Polled(i))
                     /\ Zombie(i) => (i = launcher \/ Polled(i))
  /\ \A i, j \in Pids : {proc[i], proc[j]} \subseteq {"live", "zombie"} => i = j

\* restart_max_retries bounds the restarts, although several threads may be in
\* wait() and the count is tested and incremented in separate steps
\* (container.py, _should_restart and _maybe_restart).
RestartBudget == MaxRetries > 0 => restartCount <= MaxRetries

\* A restart cancelled while its delay runs is never carried out: the event the
\* worker looks at is still the one made for its own restart (container.py,
\* stop_restart and _restart_worker).
CancelledRestartNeverRuns ==
  [][\A k \in Workers : pc[k] = "delay" /\ pc'[k] = "reset" => k \notin stopped]_vars

\* A terminate() that is about to signal a process ends with that process
\* gone, suspended or not, and whoever else reaps or restarts the container
\* meanwhile (container.py, the SIGTERM window and the SIGKILL after it).
TerminatedProcessDies ==
  \A i \in Pids : pid = i /\ (\E c \in Callers : pc[c] = "term_kill") ~> ~Running(i)

\* What terminate() says of its call of stop_restart (container.py:2933): no
\* restart is scheduled while a terminate() that has cancelled them runs.
StopPreventsRestart ==
  [][\A k \in Workers : pc[k] = "none" /\ pc'[k] = "delay"
       => \A c \in Callers : pc[c] \notin TerminatePcs]_vars
=============================================================================
