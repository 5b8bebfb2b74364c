---------------------- MODULE ContainerLifecycle_proofs ----------------------
(***************************************************************************)
(* Proofs about ContainerLifecycle, for every set of callers and every      *)
(* number of restarts and retries.                                          *)
(*                                                                          *)
(* The argument is that of a baton.  Only one party at a time may bring a   *)
(* process of the container about: the owner before its spawn has cloned    *)
(* it, the process itself until it is reaped, the wait() that reaped it     *)
(* until it has decided about a restart, and the worker of that restart     *)
(* until it has cloned the next process.  terminate() and a failed spawn    *)
(* drop the baton; nobody ever makes a second one.  While a spawn polls,    *)
(* the process it has cloned shares the baton with it: no other thread      *)
(* knows the process, so nobody else reaps it.                              *)
(***************************************************************************)
EXTENDS ContainerLifecycle, TLAPS

SpawningPcs == {"spawn_check", "spawn_set", "launch"}
LaunchingPcs == {"delay", "reset"} \cup SpawningPcs
HoldingPcs == LaunchingPcs \cup ReapedPcs
Unreaped(i) == proc[i] \in {"live", "zombie"}

OneBaton ==
  /\ \A t, u \in Threads : pc[t] \in HoldingPcs \cup {"poll"}
                           /\ pc[u] \in HoldingPcs \cup {"poll"} => t = u
  /\ \A t \in Threads : pc[t] \in HoldingPcs => \A i \in Pids : ~Unreaped(i)

HandleInv ==
  \A i \in Pids : /\ Unreaped(i) => i = launched /\ (i = launcher \/ Polled(i))
                  /\ proc[i] = "live" => (i = pid \/ Polled(i))

\* The process a spawn polls for is the newest, and no wait() looks for it:
\* as long as the handles are not assigned there is no launcher to look for.
PollInv ==
  /\ launcher <= launched
  /\ \A t \in Threads : pc[t] \in SpawningPcs \cup {"poll"} => launcher = None
  /\ \A t \in Threads : pc[t] = "poll" => target[t] = launched /\ launched # 0
  /\ \A c \in Callers : pc[c] = "wait_reap" => target[c] <= launched
  /\ \A t \in Threads, c \in Callers :
       pc[t] = "poll" /\ pc[c] = "wait_reap" => target[c] # launched

\* Restart k exists once k restarts have been counted, each needs a process
\* that came before it, and the pending one waits on its own event.
WorkerInv ==
  /\ \A k \in Workers : pc[k] = "none" <=> k > restartCount
  /\ \A k \in Workers : pc[k] = "delay" => restartStop = k
  /\ launched <= restartCount + 1
  /\ \A t \in Threads : pc[t] \in LaunchingPcs => launched <= restartCount

BudgetInv ==
  /\ RestartBudget
  /\ \A c \in Callers : pc[c] = "restart_set" => RetriesLeft

LifecycleInv ==
  /\ LifecycleTypeOK /\ OneBaton /\ HandleInv /\ PollInv
  /\ WorkerInv /\ BudgetInv

\* How a step of thread t changes the targets when t does not poll.
TargetMove(t, to) ==
  /\ target' \in [Threads -> Pids \cup {None}]
  /\ \A u \in Threads \ {t} : target'[u] = target[u]
  /\ to = "wait_reap" => target'[t] = launcher /\ launcher # None

-----------------------------------------------------------------------------
(* Steps that only move one thread on.                                        *)

LEMMA ThreadFacts ==
  /\ Callers \subseteq Threads /\ Workers \subseteq Threads
  /\ \A t \in Threads : t \in Callers \/ t \in Workers
  /\ \A t \in Callers : t \notin Workers
  /\ None \notin Pids /\ None \notin Workers
BY CallersAssumption DEF Threads, Workers, Pids, None

\* A step that only moves thread t on, hands nobody the baton and does not
\* touch the processes keeps everything.
LEMMA PcMove ==
  ASSUME LifecycleInv, NEW t \in Threads, NEW to,
         pc' = [pc EXCEPT ![t] = to],
         t \in Callers => to \in CallerPcs,
         t \in Workers => to \in WorkerPcs \ {"none"} /\ pc[t] # "none",
         to \in HoldingPcs => pc[t] \in HoldingPcs,
         to \in LaunchingPcs => pc[t] \in LaunchingPcs,
         to \in SpawningPcs => pc[t] \in SpawningPcs,
         to \notin {"delay", "poll"}, pc[t] # "poll",
         to = "restart_set" => RetriesLeft,
         UNCHANGED <<handle, restartCount, restartStop, kernel>>,
         state' \in States, frozen' \in {"no", "cgroup", "signal"},
         caps' \in BOOLEAN, stopped' \subseteq Workers, TargetMove(t, to)
  PROVE  LifecycleInv'
<1> USE DEF handle, kernel
<1>1. /\ pc \in [Threads -> CallerPcs \cup WorkerPcs]
      /\ \A u \in Threads : pc'[u] = IF u = t THEN to ELSE pc[u]
  BY DEF LifecycleInv, LifecycleTypeOK
<1>2. LifecycleTypeOK'
  <2>1. to \in CallerPcs \cup WorkerPcs
    BY ThreadFacts
  <2>2. pc' \in [Threads -> CallerPcs \cup WorkerPcs]
    BY <1>1, <2>1
  <2>3. /\ \A c \in Callers : pc'[c] \in CallerPcs
        /\ \A k \in Workers : pc'[k] \in WorkerPcs
    BY <1>1, ThreadFacts DEF LifecycleInv, LifecycleTypeOK
  <2> QED BY <2>2, <2>3 DEF LifecycleInv, LifecycleTypeOK, TargetMove
<1>3. \A u \in Threads : /\ pc'[u] \in HoldingPcs => pc[u] \in HoldingPcs
                         /\ pc'[u] \in LaunchingPcs => pc[u] \in LaunchingPcs
                         /\ pc'[u] \in SpawningPcs => pc[u] \in SpawningPcs
                         /\ pc'[u] = "delay" => pc[u] = "delay"
                         /\ pc'[u] = "poll" <=> pc[u] = "poll"
                         /\ pc[u] = "poll" => target'[u] = target[u]
  BY <1>1 DEF TargetMove
<1>4. OneBaton'
  BY <1>3 DEF LifecycleInv, OneBaton, Unreaped
<1>5. HandleInv'
  <2>1. \A i \in Pids : Polled(i) => Polled(i)'
    BY <1>3 DEF Polled
  <2> QED BY <2>1 DEF LifecycleInv, HandleInv, Unreaped
<1>5a. PollInv'
  <2>1. \A c \in Callers : pc'[c] = "wait_reap" =>
          \/ pc[c] = "wait_reap" /\ target'[c] = target[c]
          \/ target'[c] = launcher /\ launcher # None
    BY <1>1, ThreadFacts DEF TargetMove
  <2> QED BY <1>3, <2>1 DEF LifecycleInv, PollInv
<1>6. WorkerInv'
  <2>1. \A k \in Workers : pc'[k] = "none" <=> pc[k] = "none"
    BY <1>1, ThreadFacts
  <2> QED BY <1>3, <2>1, ThreadFacts DEF LifecycleInv, WorkerInv
<1>7. BudgetInv'
  BY <1>1, ThreadFacts DEF LifecycleInv, BudgetInv, RestartBudget, RetriesLeft
<1> QED BY <1>2, <1>4, <1>5, <1>5a, <1>6, <1>7 DEF LifecycleInv

LEMMA TypeFacts ==
  ASSUME LifecycleInv
  PROVE  /\ state \in States /\ frozen \in {"no", "cgroup", "signal"}
         /\ caps \in BOOLEAN /\ stopped \subseteq Workers
         /\ target \in [Threads -> Pids \cup {None}]
         /\ launcher \in Pids \cup {None} /\ pid \in Pids \cup {None}
         /\ restartStop \in Workers \cup {None}
BY DEF LifecycleInv, LifecycleTypeOK

\* The same, for a step whose label is left for one of two.
LEMMA GotoMove ==
  ASSUME LifecycleInv, NEW t \in Threads, NEW from, NEW to, Goto(t, from, to),
         t \in Callers => to \in CallerPcs,
         t \in Workers => to \in WorkerPcs \ {"none"},
         from \notin {"none", "poll"}, to \notin {"delay", "poll"},
         to \in HoldingPcs => from \in HoldingPcs,
         to \in LaunchingPcs => from \in LaunchingPcs,
         to \in SpawningPcs => from \in SpawningPcs,
         to = "restart_set" => RetriesLeft,
         UNCHANGED <<handle, restart, kernel>>,
         state' \in States, frozen' \in {"no", "cgroup", "signal"},
         caps' \in BOOLEAN, TargetMove(t, to)
  PROVE  LifecycleInv'
BY PcMove, TypeFacts DEF Goto, restart, handle, kernel

LEMMA SpawnMoves ==
  ASSUME LifecycleInv, NEW t \in Threads,
         \/ SpawnTest(t) \/ SpawnRunning(t) \/ LaunchFails(t) \/ Grant(t)
         \/ SpawnReturns(t) \/ FailTest(t) \/ FailAssign(t)
  PROVE  LifecycleInv'
<1> DEFINE Pairs == { <<"spawn_check", "spawn_set">>, <<"spawn_check", Rest(t)>>,
                      <<"spawn_set", "launch">>, <<"launch", "fail_check">>,
                      <<"grant", "finish">>, <<"finish", Rest(t)>>,
                      <<"finish", "fail_check">>, <<"fail_check", "fail_set">>,
                      <<"fail_check", Rest(t)>>, <<"fail_set", Rest(t)>> }
<1>1. PICK from, to : <<from, to>> \in Pairs /\ Goto(t, from, to)
  BY DEF SpawnTest, SpawnRunning, LaunchFails, Grant, SpawnReturns, FailTest, FailAssign,
         TransitionAssign, TransitionTest, TerminatedAssign
<1>2. /\ UNCHANGED <<handle, restart, kernel, frozen, target>>
      /\ state' \in States /\ caps' \in BOOLEAN
  BY TypeFacts DEF SpawnTest, SpawnRunning, LaunchFails, Grant, SpawnReturns, FailTest,
         FailAssign, TransitionAssign, TransitionTest, TerminatedAssign, States
<1>3. /\ t \in Callers => to \in CallerPcs
      /\ t \in Workers => to \in WorkerPcs \ {"none"}
      /\ from \notin {"none", "poll"} /\ to \notin {"delay", "poll", "restart_set", "wait_reap"}
      /\ to \in HoldingPcs => from \in HoldingPcs
      /\ to \in LaunchingPcs => from \in LaunchingPcs
      /\ to \in SpawningPcs => from \in SpawningPcs
  BY <1>1, ThreadFacts
     DEF CallerPcs, WorkerPcs, HoldingPcs, LaunchingPcs, SpawningPcs, SpawnPcs, LaunchedPcs,
         ReapedPcs, Rest
<1>4. TargetMove(t, to)
  BY <1>2, <1>3, TypeFacts DEF TargetMove
<1> HIDE DEF Pairs
<1> QED BY <1>1, <1>2, <1>3, <1>4, GotoMove, TypeFacts

LEMMA WaitMoves ==
  ASSUME LifecycleInv, NEW c \in Callers,
         \/ WaitBegin(c) \/ WaitRaises(c) \/ WaitTest(c) \/ WaitAssign(c)
         \/ RestartTest(c)
  PROVE  LifecycleInv'
<1> DEFINE Pairs == { <<"idle", "wait_reap">>, <<"wait_reap", "idle">>,
                      <<"wait_check", "wait_set">>, <<"wait_check", "idle">>,
                      <<"wait_set", "restart_check">>,
                      <<"restart_check", "restart_set">>, <<"restart_check", "idle">> }
<1>1. PICK from, to : <<from, to>> \in Pairs /\ Goto(c, from, to)
  BY DEF WaitBegin, WaitRaises, WaitTest, WaitAssign, RestartTest,
         TransitionTest, TerminatedAssign
<1>2. /\ UNCHANGED <<handle, restart, kernel, frozen>>
      /\ state' \in States /\ caps' \in BOOLEAN
  BY TypeFacts DEF WaitBegin, WaitRaises, WaitTest, WaitAssign, RestartTest,
         TransitionTest, TerminatedAssign, States
<1>3. TargetMove(c, to)
  <2>1. CASE WaitBegin(c)
    BY <2>1, TypeFacts, ThreadFacts DEF WaitBegin, TargetMove
  <2>2. CASE ~WaitBegin(c)
    <3>1. pc[c] # "idle" /\ pc[c] = from
      BY <1>1, <2>2 DEF WaitRaises, WaitTest, WaitAssign, RestartTest, TransitionTest,
         TerminatedAssign, Goto
    <3>2. to # "wait_reap"
      BY <1>1, <3>1
    <3>3. target' = target \/ target' = [target EXCEPT ![c] = None]
      BY <2>2 DEF WaitRaises, WaitTest, WaitAssign, RestartTest, TransitionTest,
         TerminatedAssign
    <3> QED BY <3>2, <3>3, TypeFacts DEF TargetMove
  <2> QED BY <2>1, <2>2
<1>4. /\ to \in CallerPcs /\ from \notin {"none", "poll"} /\ to \notin {"delay", "poll"}
      /\ to \in HoldingPcs => from \in HoldingPcs
      /\ to \notin LaunchingPcs /\ to \notin SpawningPcs
  BY <1>1 DEF CallerPcs, HoldingPcs, LaunchingPcs, SpawningPcs, ReapedPcs
<1>5. to = "restart_set" => RetriesLeft
  <2> SUFFICES ASSUME to = "restart_set" PROVE RetriesLeft
    OBVIOUS
  <2>1. pc[c] = "restart_check"
    BY <1>1 DEF Goto
  <2>2. RestartTest(c)
    BY <2>1 DEF WaitBegin, WaitRaises, WaitTest, WaitAssign, TransitionTest,
         TerminatedAssign, Goto
  <2>3. pc'[c] = "restart_set"
    BY <1>1, ThreadFacts DEF Goto, LifecycleInv, LifecycleTypeOK
  <2> QED BY <2>2, <2>3 DEF RestartTest
<1> HIDE DEF Pairs
<1> QED BY <1>1, <1>2, <1>3, <1>4, <1>5, GotoMove, TypeFacts, ThreadFacts

LEMMA TerminateMoves ==
  ASSUME LifecycleInv, NEW c \in Callers,
         \/ TerminateBegin(c) \/ NoPidTest(c) \/ NoPidAssign(c) \/ TerminateThaws(c)
         \/ TerminateSignals(c) \/ TerminateTest(c) \/ TerminateAssign(c)
  PROVE  LifecycleInv'
<1> DEFINE Pairs == { <<"idle", "term_stop">>, <<"none_check", "none_set">>,
                      <<"none_check", "idle">>, <<"none_set", "idle">>,
                      <<"term_pid", "none_check">>, <<"term_pid", "term_kill">>,
                      <<"term_kill", "term_reap">>, <<"term_kill", "term_poll">>,
                      <<"term_kill", "term_check">>, <<"term_check", "term_set">>,
                      <<"term_check", "term_reap">>, <<"term_set", "term_reap">> }
<1>1. PICK from, to : <<from, to>> \in Pairs /\ Goto(c, from, to)
  BY DEF TerminateBegin, NoPidTest, NoPidAssign, TerminateThaws, TerminateSignals,
         TerminateTest, TerminateAssign, TransitionTest, TerminatedAssign
<1>2. /\ UNCHANGED <<handle, restart, kernel, target>>
      /\ state' \in States /\ caps' \in BOOLEAN
      /\ frozen' \in {"no", "cgroup", "signal"}
  BY TypeFacts DEF TerminateBegin, NoPidTest, NoPidAssign, TerminateThaws, TerminateSignals,
         TerminateTest, TerminateAssign, TransitionTest, TerminatedAssign, States
<1>3. /\ to \in CallerPcs /\ from \notin {"none", "poll"}
      /\ to \notin {"delay", "poll", "restart_set", "wait_reap"}
      /\ to \notin HoldingPcs /\ to \notin LaunchingPcs /\ to \notin SpawningPcs
  BY <1>1 DEF CallerPcs, TerminatePcs, HoldingPcs, LaunchingPcs, SpawningPcs, ReapedPcs
<1>4. TargetMove(c, to)
  BY <1>2, <1>3, TypeFacts DEF TargetMove
<1> HIDE DEF Pairs
<1> QED BY <1>1, <1>2, <1>3, <1>4, GotoMove, TypeFacts, ThreadFacts

LEMMA SuspendResumeMoves ==
  ASSUME LifecycleInv, NEW c \in Callers,
         SuspendBegin(c) \/ ResumeBegin(c) \/ SuspendResume(c)
  PROVE  LifecycleInv'
<1> DEFINE Pairs == { <<"idle", "susp_freeze">>, <<"susp_freeze", "susp_check">>,
                      <<"susp_freeze", "idle">>, <<"susp_check", "susp_set">>,
                      <<"susp_check", "idle">>, <<"susp_set", "idle">>,
                      <<"idle", "res_thaw">>, <<"res_thaw", "res_check">>,
                      <<"res_thaw", "idle">>, <<"res_check", "res_set">>,
                      <<"res_check", "idle">>, <<"res_set", "idle">> }
<1>1. PICK from, to : <<from, to>> \in Pairs /\ Goto(c, from, to)
  BY DEF SuspendBegin, ResumeBegin, SuspendResume, SuspendFreezes, SuspendTest,
         SuspendAssign, ResumeThaws, ResumeTest, ResumeAssign, TransitionTest,
         TransitionAssign
<1>2. /\ UNCHANGED <<handle, restart, kernel, target>>
      /\ state' \in States /\ caps' \in BOOLEAN
      /\ frozen' \in {"no", "cgroup", "signal"}
  BY TypeFacts DEF SuspendBegin, ResumeBegin, SuspendResume, SuspendFreezes, SuspendTest,
         SuspendAssign, ResumeThaws, ResumeTest, ResumeAssign, TransitionTest,
         TransitionAssign, States
<1>3. /\ to \in CallerPcs /\ from \notin {"none", "poll"}
      /\ to \notin {"delay", "poll", "restart_set", "wait_reap"}
      /\ to \notin HoldingPcs /\ to \notin LaunchingPcs /\ to \notin SpawningPcs
  BY <1>1 DEF CallerPcs, HoldingPcs, LaunchingPcs, SpawningPcs, ReapedPcs
<1>4. TargetMove(c, to)
  BY <1>2, <1>3, TypeFacts DEF TargetMove
<1> HIDE DEF Pairs
<1> QED BY <1>1, <1>2, <1>3, <1>4, GotoMove, TypeFacts, ThreadFacts

LEMMA StopMoves ==
  ASSUME LifecycleInv, NEW c \in Callers, TerminateStopsRestart(c) \/ StopRestart(c)
  PROVE  LifecycleInv'
<1>1. stopped' \subseteq Workers
  BY TypeFacts DEF TerminateStopsRestart, StopRestart, SetStopEvent
<1>2. \E to \in {"term_pid", "idle"} : pc' = [pc EXCEPT ![c] = to]
  <2>1. CASE TerminateStopsRestart(c)
    BY <2>1 DEF TerminateStopsRestart, Goto
  <2>2. CASE StopRestart(c)
    BY <2>2, ThreadFacts DEF StopRestart, LifecycleInv, LifecycleTypeOK
  <2> QED BY <2>1, <2>2
<1>3. PICK to \in {"term_pid", "idle"} : pc' = [pc EXCEPT ![c] = to]
  BY <1>2
<1>4. /\ to \in CallerPcs /\ to \notin HoldingPcs /\ to \notin LaunchingPcs
      /\ to \notin SpawningPcs
      /\ to \notin {"delay", "poll", "restart_set", "wait_reap"} /\ pc[c] # "poll"
  BY DEF CallerPcs, TerminatePcs, HoldingPcs, LaunchingPcs, SpawningPcs, ReapedPcs,
         TerminateStopsRestart, StopRestart, Goto
<1>5. UNCHANGED <<handle, restartCount, restartStop, kernel, state, frozen, caps, target>>
  BY DEF TerminateStopsRestart, StopRestart
<1>6. TargetMove(c, to)
  BY <1>4, <1>5, TypeFacts DEF TargetMove
<1> QED BY <1>1, <1>3, <1>4, <1>5, <1>6, PcMove, TypeFacts, ThreadFacts

-----------------------------------------------------------------------------
(* Steps that pass the baton on, or change a process.                         *)

ProcStates == {"none", "live", "zombie", "reaped", "stray"}

\* clone hands the baton to the process, which keeps it with the poll.
LEMMA CloneStep ==
  ASSUME LifecycleInv, NEW t \in Threads, Clone(t)
  PROVE  LifecycleInv'
<1> USE DEF handle, restart, kernel
<1> DEFINE new == launched + 1
<1>1. /\ pc[t] = "launch" /\ pc' = [pc EXCEPT ![t] = "poll"]
      /\ proc' = [proc EXCEPT ![new] = "live"] /\ launched' = new
      /\ target' = [target EXCEPT ![t] = new]
      /\ frozen' = IF frozen = "cgroup" THEN "cgroup" ELSE "no"
      /\ UNCHANGED <<state, handle, restart, caps>>
  BY DEF Clone, Goto
<1>2. /\ \A u \in Threads : pc'[u] = IF u = t THEN "poll" ELSE pc[u]
      /\ \A i \in Pids : ~Unreaped(i)
      /\ \A u \in Threads \ {t} : pc[u] \notin HoldingPcs \cup {"poll"}
      /\ launched <= restartCount
  BY <1>1 DEF LifecycleInv, LifecycleTypeOK, OneBaton, WorkerInv, HoldingPcs,
         LaunchingPcs, SpawningPcs
<1>3. restartCount \in 0 .. MaxRestarts /\ launched \in 0 .. (MaxRestarts + 1)
      /\ MaxRestarts \in Nat
  BY RestartsAssumption DEF LifecycleInv, LifecycleTypeOK
<1>4. /\ new \in Pids /\ new \in 0 .. (MaxRestarts + 1) /\ new # 0
      /\ new <= restartCount + 1 /\ launched < new
  BY <1>2, <1>3 DEF Pids
<1>5. \A u \in Threads : pc'[u] \notin HoldingPcs /\ (pc'[u] = "poll" <=> u = t)
  BY <1>2 DEF HoldingPcs, LaunchingPcs, SpawningPcs, ReapedPcs
<1>6. /\ proc \in [Pids -> ProcStates]
      /\ \A i \in Pids : proc'[i] = IF i = new THEN "live" ELSE proc[i]
      /\ \A u \in Threads : target'[u] = IF u = t THEN new ELSE target[u]
  BY <1>1, <1>4 DEF LifecycleInv, LifecycleTypeOK, ProcStates
<1>7. LifecycleTypeOK'
  <2>1. "poll" \in CallerPcs /\ "poll" \in WorkerPcs
    BY DEF CallerPcs, WorkerPcs, SpawnPcs
  <2>2. /\ pc' \in [Threads -> CallerPcs \cup WorkerPcs]
        /\ \A c \in Callers : pc'[c] \in CallerPcs
        /\ \A k \in Workers : pc'[k] \in WorkerPcs
    BY <1>1, <1>2, <2>1, ThreadFacts DEF LifecycleInv, LifecycleTypeOK
  <2>3. /\ proc' \in [Pids -> ProcStates]
        /\ target' \in [Threads -> Pids \cup {None}]
        /\ frozen' \in {"no", "cgroup", "signal"}
    BY <1>1, <1>4, <1>6, TypeFacts DEF ProcStates
  <2> QED BY <1>1, <1>4, <2>2, <2>3 DEF LifecycleInv, LifecycleTypeOK, ProcStates
<1>8. OneBaton'
  BY <1>5 DEF OneBaton
<1>9. HandleInv'
  <2>1. \A i \in Pids : i = new => Polled(i)'
    BY <1>5, <1>6 DEF Polled
  <2> QED BY <1>1, <1>2, <1>6, <2>1 DEF HandleInv, Unreaped
<1>10. PollInv'
  <2>1. /\ launcher = None /\ launcher' = None /\ None <= new
        /\ \A u \in Threads : pc'[u] \notin SpawningPcs
    BY <1>1, <1>3, <1>4, <1>5 DEF LifecycleInv, PollInv, SpawningPcs, HoldingPcs,
       LaunchingPcs, None
  <2>2. \A c \in Callers : pc'[c] = "wait_reap" => target'[c] <= new /\ target'[c] # new
    <3> SUFFICES ASSUME NEW c \in Callers, pc'[c] = "wait_reap"
                 PROVE  target'[c] <= new /\ target'[c] # new
      OBVIOUS
    <3>1. c # t /\ pc[c] = "wait_reap" /\ target'[c] = target[c] /\ target[c] \in Nat
      BY <1>2, <1>6, ThreadFacts, TypeFacts DEF Pids, None
    <3>2. target[c] <= launched
      BY <3>1 DEF LifecycleInv, PollInv
    <3> QED BY <1>3, <3>1, <3>2
  <2> QED BY <1>1, <1>4, <1>5, <1>6, <2>1, <2>2 DEF PollInv
<1>11. WorkerInv'
  <2>1. \A k \in Workers : /\ pc'[k] = "none" <=> pc[k] = "none"
                           /\ pc'[k] = "delay" => pc[k] = "delay"
    BY <1>1, <1>2, ThreadFacts
  <2>2. \A u \in Threads : pc'[u] \notin LaunchingPcs
    BY <1>5 DEF HoldingPcs
  <2> QED BY <1>1, <1>4, <2>1, <2>2 DEF LifecycleInv, WorkerInv
<1>12. BudgetInv'
  BY <1>1, <1>2, ThreadFacts DEF LifecycleInv, BudgetInv, RestartBudget, RetriesLeft
<1> QED BY <1>7, <1>8, <1>9, <1>10, <1>11, <1>12 DEF LifecycleInv

\* The poll either names the process it shared the baton with or kills it.
LEMMA PollStep ==
  ASSUME LifecycleInv, NEW t \in Threads,
         EntryFails(t) \/ PollTimesOut(t) \/ PollResolves(t)
  PROVE  LifecycleInv'
<1> USE DEF handle, restart, kernel
<1>1. PICK to \in {"fail_check", "grant"} : PollEnds(t, to)
  BY DEF EntryFails, PollTimesOut, PollResolves
<1>2. /\ pc[t] = "poll" /\ pc' = [pc EXCEPT ![t] = to]
      /\ target' = [target EXCEPT ![t] = None]
      /\ UNCHANGED <<state, restart, frozen, caps, launched>>
  BY <1>1 DEF PollEnds, Goto
<1>3. /\ \A u \in Threads : pc'[u] = IF u = t THEN to ELSE pc[u]
      /\ \A u \in Threads \ {t} : pc[u] \notin HoldingPcs \cup {"poll"}
      /\ \A u \in Threads : target'[u] = IF u = t THEN None ELSE target[u]
  BY <1>2 DEF LifecycleInv, LifecycleTypeOK, OneBaton
<1>4. /\ target[t] = launched /\ launched \in Pids /\ launched \in Nat
      /\ launcher = None
      /\ \A i \in Pids : Unreaped(i) => i = launched
  BY <1>2, RestartsAssumption
     DEF LifecycleInv, LifecycleTypeOK, PollInv, HandleInv, Pids
<1>5. PICK p \in ProcStates : /\ proc' = [proc EXCEPT ![launched] = p]
                              /\ \/ UNCHANGED handle /\ p \in {"reaped", "stray"}
                                 \/ /\ p = proc[launched] /\ launcher' = launched
                                    /\ pid' \in {launched, None}
                                    /\ p = "live" => pid' = launched
  <2>1. proc \in [Pids -> ProcStates]
    BY DEF LifecycleInv, LifecycleTypeOK, ProcStates
  <2>2. CASE EntryFails(t)
    BY <1>4, <2>2 DEF EntryFails, ProcStates
  <2>3. CASE PollTimesOut(t)
    BY <1>4, <2>3 DEF PollTimesOut, ProcStates
  <2>4. CASE PollResolves(t)
    <3>1. proc' = [proc EXCEPT ![launched] = proc[launched]]
      BY <2>1, <2>4 DEF PollResolves
    <3> QED BY <1>4, <2>1, <2>4, <3>1 DEF PollResolves, Running, None, Pids
  <2> QED BY <2>2, <2>3, <2>4
<1>6. /\ proc \in [Pids -> ProcStates]
      /\ \A i \in Pids : proc'[i] = IF i = launched THEN p ELSE proc[i]
  BY <1>5 DEF LifecycleInv, LifecycleTypeOK, ProcStates
<1>7. \A u \in Threads : pc'[u] \notin HoldingPcs \cup {"poll"}
  BY <1>3 DEF HoldingPcs, LaunchingPcs, SpawningPcs, ReapedPcs
<1>8. LifecycleTypeOK'
  <2>1. to \in CallerPcs /\ to \in WorkerPcs
    BY DEF CallerPcs, WorkerPcs, LaunchedPcs
  <2>2. /\ pc' \in [Threads -> CallerPcs \cup WorkerPcs]
        /\ \A c \in Callers : pc'[c] \in CallerPcs
        /\ \A k \in Workers : pc'[k] \in WorkerPcs
    BY <1>2, <1>3, <2>1, ThreadFacts DEF LifecycleInv, LifecycleTypeOK
  <2>3. /\ proc' \in [Pids -> ProcStates]
        /\ pid' \in Pids \cup {None} /\ launcher' \in Pids \cup {None}
        /\ target' \in [Threads -> Pids \cup {None}]
    BY <1>2, <1>4, <1>5, <1>6, TypeFacts
  <2> QED BY <1>2, <2>2, <2>3 DEF LifecycleInv, LifecycleTypeOK, ProcStates
<1>9. OneBaton'
  BY <1>7 DEF OneBaton
<1>10. HandleInv'
  <2> SUFFICES ASSUME NEW i \in Pids, Unreaped(i)'
               PROVE  /\ i = launched' /\ i = launcher'
                      /\ proc'[i] = "live" => i = pid'
    BY DEF HandleInv, Unreaped
  <2>1. Unreaped(i) /\ i = launched /\ p \in {"live", "zombie"}
    BY <1>4, <1>5, <1>6 DEF Unreaped
  <2> QED BY <1>2, <1>5, <1>6, <2>1
<1>11. PollInv'
  <2>1. launcher' <= launched /\ launched' = launched
    BY <1>2, <1>4, <1>5 DEF None
  <2>2. \A u \in Threads : pc'[u] \notin SpawningPcs \cup {"poll"}
    BY <1>7 DEF HoldingPcs, LaunchingPcs
  <2>3. \A c \in Callers : pc'[c] = "wait_reap" => target'[c] <= launched
    BY <1>3, ThreadFacts DEF LifecycleInv, PollInv
  <2> QED BY <2>1, <2>2, <2>3 DEF PollInv
<1>12. WorkerInv'
  <2>1. \A k \in Workers : /\ pc'[k] = "none" <=> pc[k] = "none"
                           /\ pc'[k] = "delay" => pc[k] = "delay"
    BY <1>2, <1>3, ThreadFacts
  <2>2. \A u \in Threads : pc'[u] \notin LaunchingPcs
    BY <1>7 DEF HoldingPcs
  <2> QED BY <1>2, <2>1, <2>2 DEF LifecycleInv, WorkerInv
<1>13. BudgetInv'
  BY <1>2, <1>3, ThreadFacts DEF LifecycleInv, BudgetInv, RestartBudget, RetriesLeft
<1> QED BY <1>8, <1>9, <1>10, <1>11, <1>12, <1>13 DEF LifecycleInv

\* A process that ends is not yet reaped; one that is reaped cannot be live.
LEMMA ProcessStep ==
  ASSUME LifecycleInv, NEW i \in Pids, NEW p \in {"zombie", "reaped"},
         proc[i] \in {"live", "zombie"},
         p = "reaped" => ~Polled(i),
         proc' = [proc EXCEPT ![i] = p],
         UNCHANGED <<state, handle, restart, frozen, caps, launched>>,
         NEW t \in Threads, NEW to,
         pc' = [pc EXCEPT ![t] = to],
         t \in Callers => to \in CallerPcs,
         t \in Workers => to = pc[t],
         to \in HoldingPcs => pc[t] \in HoldingPcs \/ p = "reaped",
         to \in LaunchingPcs => pc[t] \in LaunchingPcs,
         to \in SpawningPcs => pc[t] \in SpawningPcs,
         to \notin {"delay", "restart_set", "wait_reap"} \/ to = pc[t],
         to = "poll" <=> pc[t] = "poll",
         target' \in [Threads -> Pids \cup {None}],
         \A u \in Threads : target'[u] = target[u]
                            \/ (u = t /\ to \notin {"poll", "wait_reap"})
  PROVE  LifecycleInv'
<1> USE DEF handle, restart
<1>1. /\ pc \in [Threads -> CallerPcs \cup WorkerPcs]
      /\ \A u \in Threads : pc'[u] = IF u = t THEN to ELSE pc[u]
      /\ proc \in [Pids -> ProcStates]
      /\ \A j \in Pids : proc'[j] = IF j = i THEN p ELSE proc[j]
  BY DEF LifecycleInv, LifecycleTypeOK, ProcStates
<1>2. /\ \A j \in Pids : Unreaped(j) => j = launched
      /\ Unreaped(i) /\ i = launched
  BY DEF LifecycleInv, HandleInv, Unreaped
<1>3. \A u \in Threads : pc[u] \notin HoldingPcs
  BY <1>2 DEF LifecycleInv, OneBaton
<1>4. LifecycleTypeOK'
  <2>1. to \in CallerPcs \cup WorkerPcs
    BY <1>1, ThreadFacts
  <2>2. /\ pc' \in [Threads -> CallerPcs \cup WorkerPcs]
        /\ \A c \in Callers : pc'[c] \in CallerPcs
        /\ \A k \in Workers : pc'[k] \in WorkerPcs
    BY <1>1, <2>1, ThreadFacts DEF LifecycleInv, LifecycleTypeOK
  <2>3. proc' \in [Pids -> ProcStates]
    BY <1>1 DEF ProcStates
  <2> QED BY <2>2, <2>3 DEF LifecycleInv, LifecycleTypeOK, ProcStates
<1>5. \A u \in Threads : /\ pc'[u] = "poll" <=> pc[u] = "poll"
                         /\ pc[u] = "poll" => target'[u] = target[u]
  BY <1>1
<1>6. p = "reaped" => \A u \in Threads : pc[u] # "poll"
  <2> SUFFICES ASSUME p = "reaped", NEW u \in Threads, pc[u] = "poll" PROVE FALSE
    OBVIOUS
  <2>1. target[u] = launched
    BY DEF LifecycleInv, PollInv
  <2> QED BY <1>2, <2>1 DEF Polled
<1>7. OneBaton'
  <2>1. \A u \in Threads : pc'[u] \in HoldingPcs => u = t /\ p = "reaped"
    BY <1>1, <1>3
  <2>2. p = "reaped" => \A j \in Pids : ~Unreaped(j)'
    BY <1>1, <1>2 DEF Unreaped
  <2>3. \A u, v \in Threads : pc'[u] \in HoldingPcs \cup {"poll"}
                              /\ pc'[v] \in HoldingPcs \cup {"poll"} => u = v
    BY <1>5, <1>6, <2>1 DEF LifecycleInv, OneBaton
  <2> QED BY <2>1, <2>2, <2>3 DEF OneBaton
<1>8. HandleInv'
  <2>1. \A j \in Pids : Polled(j) => Polled(j)'
    BY <1>5 DEF Polled
  <2> QED BY <1>1, <1>2, <2>1 DEF LifecycleInv, HandleInv, Unreaped
<1>9. PollInv'
  <2>1. \A u \in Threads : pc'[u] \in SpawningPcs => pc[u] \in SpawningPcs
    BY <1>1
  <2>2. \A c \in Callers : pc'[c] = "wait_reap" => pc[c] = "wait_reap" /\ target'[c] = target[c]
    BY <1>1, ThreadFacts
  <2> QED BY <1>5, <2>1, <2>2 DEF LifecycleInv, PollInv
<1>10. WorkerInv'
  <2>1. \A k \in Workers : pc'[k] = pc[k]
    BY <1>1, ThreadFacts
  <2>2. \A u \in Threads : pc'[u] \in LaunchingPcs => pc[u] \in LaunchingPcs
    BY <1>1
  <2> QED BY <2>1, <2>2 DEF LifecycleInv, WorkerInv
<1>11. BudgetInv'
  BY <1>1 DEF LifecycleInv, BudgetInv, RestartBudget, RetriesLeft
<1> QED BY <1>4, <1>7, <1>8, <1>9, <1>10, <1>11 DEF LifecycleInv

LEMMA WaitReapsStep ==
  ASSUME LifecycleInv, NEW c \in Callers, WaitReaps(c)
  PROVE  LifecycleInv'
<1>1. target[c] \in Pids /\ proc[target[c]] = "zombie"
  BY TypeFacts, ThreadFacts DEF WaitReaps, Zombie
<1>2. /\ "wait_check" \in CallerPcs /\ "wait_check" \notin LaunchingPcs
      /\ "wait_check" \notin SpawningPcs /\ pc[c] = "wait_reap"
  BY DEF CallerPcs, LaunchingPcs, SpawningPcs, ReapedPcs, WaitReaps, Goto
<1>3. /\ target' \in [Threads -> Pids \cup {None}]
      /\ \A u \in Threads :
           target'[u] = target[u] \/ (u = c /\ "wait_check" \notin {"poll", "wait_reap"})
  BY TypeFacts DEF WaitReaps
<1>4. ~Polled(target[c])
  <2>1. target[c] = launched
    BY <1>1 DEF LifecycleInv, HandleInv, Unreaped
  <2> QED BY <1>2, <2>1 DEF Polled, LifecycleInv, PollInv
<1>5. /\ proc' = [proc EXCEPT ![target[c]] = "reaped"]
      /\ pc' = [pc EXCEPT ![c] = "wait_check"]
      /\ UNCHANGED <<state, handle, restart, frozen, caps, launched>>
  BY DEF WaitReaps, Goto
<1>6. c \in Threads /\ c \notin Workers
  BY ThreadFacts
<1>7. \A i \in Pids : i = target[c] => LifecycleInv'
  <2> SUFFICES ASSUME NEW i \in Pids, i = target[c] PROVE LifecycleInv'
    OBVIOUS
  <2>1. /\ proc[i] = "zombie" /\ ~Polled(i)
        /\ proc' = [proc EXCEPT ![i] = "reaped"]
    BY <1>1, <1>4, <1>5
  <2> QED BY <1>2, <1>3, <1>5, <1>6, <2>1, ProcessStep
<1> QED BY <1>1, <1>7

LEMMA TerminateProcessSteps ==
  ASSUME LifecycleInv, NEW c \in Callers, TerminateKills(c) \/ TerminateReaps(c)
  PROVE  LifecycleInv'
<1>1. PICK from, to : /\ <<from, to>> \in {<<"term_poll", "term_check">>, <<"term_reap", "idle">>}
                      /\ Goto(c, from, to)
  BY DEF TerminateKills, TerminateReaps
<1>2. /\ to \in CallerPcs /\ to \notin HoldingPcs /\ to \notin LaunchingPcs
      /\ to \notin SpawningPcs
      /\ to \notin {"delay", "poll", "restart_set", "wait_reap"}
      /\ from \notin {"none", "poll"}
  BY <1>1 DEF CallerPcs, TerminatePcs, HoldingPcs, LaunchingPcs, SpawningPcs, ReapedPcs
<1>3. UNCHANGED <<state, handle, restart, frozen, caps, launched, target>>
  BY DEF TerminateKills, TerminateReaps
<1>4. CASE UNCHANGED proc
  <2>1. TargetMove(c, to)
    BY <1>2, <1>3, TypeFacts DEF TargetMove
  <2> QED BY <1>1, <1>2, <1>3, <1>4, <2>1, GotoMove, TypeFacts, ThreadFacts DEF kernel
<1>5. CASE proc' # proc
  <2>1. PICK i \in Pids, p \in {"zombie", "reaped"} :
          /\ proc[i] \in {"live", "zombie"} /\ proc' = [proc EXCEPT ![i] = p]
          /\ p = "reaped" => i = launcher
    BY <1>5, TypeFacts DEF TerminateKills, TerminateReaps, Running, Zombie
  <2>2. p = "reaped" => ~Polled(i)
    BY <2>1, ThreadFacts DEF Polled, LifecycleInv, PollInv
  <2>3. pc' = [pc EXCEPT ![c] = to] /\ pc[c] # "poll"
    BY <1>1, <1>2 DEF Goto
  <2>4. target' \in [Threads -> Pids \cup {None}] /\ target' = target
    BY <1>3, TypeFacts
  <2> QED BY <1>2, <1>3, <2>1, <2>2, <2>3, <2>4, ProcessStep, ThreadFacts
<1> QED BY <1>4, <1>5

LEMMA ExitStep ==
  ASSUME LifecycleInv, NEW i \in Pids, Exit(i)
  PROVE  LifecycleInv'
<1>1. Owner \in Callers /\ Owner \in Threads
  BY CallersAssumption, ThreadFacts
<1>2. pc' = [pc EXCEPT ![Owner] = pc[Owner]] /\ pc[Owner] \in CallerPcs
  BY <1>1 DEF Exit, LifecycleInv, LifecycleTypeOK
<1>3. /\ proc[i] \in {"live", "zombie"} /\ proc' = [proc EXCEPT ![i] = "zombie"]
      /\ UNCHANGED <<state, handle, restart, frozen, caps, launched, target>>
  BY DEF Exit
<1>4. target' \in [Threads -> Pids \cup {None}] /\ target' = target
  BY <1>3, TypeFacts
<1>5. \A p \in {"zombie"} : p \in {"zombie", "reaped"} /\ p # "reaped"
  OBVIOUS
<1> DEFINE to == pc[Owner]
<1>6. to = pc[Owner] /\ pc' = [pc EXCEPT ![Owner] = to] /\ to \in CallerPcs
  BY <1>2
<1> HIDE DEF to
<1> QED BY <1>1, <1>3, <1>4, <1>5, <1>6, ProcessStep, ThreadFacts

\* The wait() that reaped the process hands the baton to the new worker.
LEMMA ScheduleStep ==
  ASSUME LifecycleInv, NEW c \in Callers, RestartSchedule(c)
  PROVE  LifecycleInv'
<1> DEFINE k == restartCount + 1
<1>1. /\ pc[c] = "restart_set" /\ restartCount < MaxRestarts
      /\ restartCount' = k /\ restartStop' = k
      /\ pc' = [pc EXCEPT ![c] = "idle", ![k] = "delay"]
      /\ UNCHANGED <<state, handle, stopped, frozen, caps, kernel, target>>
  BY DEF RestartSchedule
<1>2. restartCount \in Nat /\ MaxRestarts \in Nat /\ k \in Workers /\ k \in Threads
  BY <1>1, RestartsAssumption, ThreadFacts DEF LifecycleInv, LifecycleTypeOK, Workers
<1>3. /\ pc \in [Threads -> CallerPcs \cup WorkerPcs]
      /\ \A u \in Threads : pc'[u] = IF u = k THEN "delay" ELSE IF u = c THEN "idle" ELSE pc[u]
  BY <1>1, <1>2 DEF LifecycleInv, LifecycleTypeOK
<1>4. /\ "idle" \in CallerPcs /\ "delay" \in WorkerPcs
      /\ "idle" \notin HoldingPcs /\ "idle" \notin LaunchingPcs
      /\ "delay" \in HoldingPcs /\ "delay" \in LaunchingPcs
      /\ "restart_set" \in HoldingPcs /\ "restart_set" \notin LaunchingPcs
  BY DEF CallerPcs, WorkerPcs, HoldingPcs, LaunchingPcs, SpawningPcs, ReapedPcs
<1>5. \A u \in Threads : /\ pc'[u] \in HoldingPcs <=> u = k
                         /\ pc'[u] # "poll" /\ pc[u] # "poll"
  BY <1>1, <1>3, <1>4, ThreadFacts DEF LifecycleInv, OneBaton
<1>6. LifecycleTypeOK'
  <2>1. /\ pc' \in [Threads -> CallerPcs \cup WorkerPcs]
        /\ \A u \in Callers : pc'[u] \in CallerPcs
        /\ \A u \in Workers : pc'[u] \in WorkerPcs
    <3>1. \A u \in Threads : pc'[u] \in CallerPcs \cup WorkerPcs
      BY <1>3, <1>4
    <3>2. pc' \in [Threads -> CallerPcs \cup WorkerPcs]
      BY <1>1, <1>3, <3>1
    <3>3. \A u \in Callers : pc'[u] \in CallerPcs
      BY <1>2, <1>3, <1>4, ThreadFacts DEF LifecycleInv, LifecycleTypeOK
    <3>4. \A u \in Workers : pc'[u] \in WorkerPcs
      BY <1>2, <1>3, <1>4, ThreadFacts DEF LifecycleInv, LifecycleTypeOK
    <3> QED BY <3>2, <3>3, <3>4
  <2>2. restartCount' \in 0 .. MaxRestarts /\ restartStop' \in Workers \cup {None}
    BY <1>1, <1>2
  <2> QED BY <1>1, <2>1, <2>2 DEF LifecycleInv, LifecycleTypeOK, handle, kernel
<1>7. OneBaton'
  <2>1. \A i \in Pids : ~Unreaped(i)
    BY <1>1, <1>4, ThreadFacts DEF LifecycleInv, OneBaton
  <2> QED BY <1>1, <1>5, <2>1 DEF OneBaton, Unreaped, kernel
<1>8. HandleInv' /\ PollInv'
  <2>1. HandleInv'
    BY <1>1, <1>5 DEF LifecycleInv, HandleInv, Polled, Unreaped, handle, kernel
  <2>2. \A u \in Threads : pc'[u] \notin SpawningPcs
    BY <1>1, <1>3, <1>4, <1>5 DEF HoldingPcs, LaunchingPcs, SpawningPcs
  <2>3. \A u \in Callers : pc'[u] = "wait_reap" => pc[u] = "wait_reap"
    BY <1>3, ThreadFacts
  <2> QED BY <1>1, <1>5, <2>1, <2>2, <2>3 DEF LifecycleInv, PollInv, handle, kernel
<1>9. WorkerInv'
  <2>1. launched \in Nat /\ launched <= k /\ launched' = launched
    BY <1>1, <1>2 DEF LifecycleInv, LifecycleTypeOK, WorkerInv, kernel
  <2>2. \A u \in Workers : pc'[u] = "none" <=> u > restartCount'
    <3> TAKE u \in Workers
    <3>1. u \in Nat /\ (pc[u] = "none" <=> u > restartCount) /\ u \in Threads /\ u # c
      BY ThreadFacts DEF LifecycleInv, WorkerInv, Workers
    <3> QED BY <1>1, <1>2, <1>3, <3>1
  <2>3. \A u \in Workers : pc'[u] = "delay" => u = k
    BY <1>4, <1>5, ThreadFacts
  <2>4. restartStop' = k /\ launched' <= restartCount' /\ launched' <= restartCount' + 1
    BY <1>1, <1>2, <2>1
  <2> QED BY <2>2, <2>3, <2>4 DEF WorkerInv
<1>10. BudgetInv'
  <2>1. MaxRetries > 0 => restartCount < MaxRetries
    BY <1>1 DEF LifecycleInv, BudgetInv, RetriesLeft
  <2>2. \A u \in Callers : pc'[u] # "restart_set"
    BY <1>4, <1>5, <1>2, ThreadFacts
  <2>3. MaxRetries > 0 => restartCount' <= MaxRetries
    BY <1>1, <1>2, <2>1, RestartsAssumption
  <2> QED BY <2>2, <2>3 DEF BudgetInv, RestartBudget
<1> QED BY <1>6, <1>7, <1>8, <1>9, <1>10 DEF LifecycleInv

LEMMA WorkerMoves ==
  ASSUME LifecycleInv, NEW k \in Workers, WorkerCancelled(k) \/ WorkerDelayOver(k)
  PROVE  LifecycleInv'
<1>1. PICK to \in {"done", "reset"} : Goto(k, "delay", to)
  BY DEF WorkerCancelled, WorkerDelayOver
<1>2. /\ to \in WorkerPcs \ {"none"}
      /\ to \notin {"delay", "poll", "restart_set", "wait_reap"} /\ to \notin SpawningPcs
      /\ "delay" \in HoldingPcs /\ "delay" \in LaunchingPcs
  BY <1>1 DEF WorkerPcs, HoldingPcs, LaunchingPcs, SpawningPcs
<1>3. UNCHANGED <<state, handle, restart, frozen, caps, kernel, target>>
  BY DEF WorkerCancelled, WorkerDelayOver
<1>4. TargetMove(k, to)
  BY <1>2, <1>3, TypeFacts DEF TargetMove
<1> QED BY <1>1, <1>2, <1>3, <1>4, GotoMove, TypeFacts, ThreadFacts

\* The worker holds the baton: no process is left to lose the handle of.
LEMMA ResetStep ==
  ASSUME LifecycleInv, NEW k \in Workers, WorkerReset(k)
  PROVE  LifecycleInv'
<1> USE DEF handle, restart, kernel
<1>1. /\ pc[k] = "reset" /\ pc' = [pc EXCEPT ![k] = "spawn_check"]
      /\ UNCHANGED <<restart, frozen, caps, kernel, target>>
      /\ state' = "created" /\ pid' = None /\ launcher' = None /\ k \in Threads
  BY ThreadFacts DEF WorkerReset, Goto
<1>2. \A u \in Threads : pc'[u] = IF u = k THEN "spawn_check" ELSE pc[u]
  BY <1>1 DEF LifecycleInv, LifecycleTypeOK
<1>3. /\ {"reset", "spawn_check"} \subseteq HoldingPcs
      /\ {"reset", "spawn_check"} \subseteq LaunchingPcs
      /\ "spawn_check" \in WorkerPcs
  BY DEF WorkerPcs, HoldingPcs, LaunchingPcs, SpawningPcs, SpawnPcs
<1>4. \A u \in Threads : /\ pc'[u] \in HoldingPcs => pc[u] \in HoldingPcs
                         /\ pc[u] # "poll" /\ pc'[u] # "poll"
                         /\ pc'[u] \in LaunchingPcs => pc[u] \in LaunchingPcs
                         /\ pc'[u] = "delay" => pc[u] = "delay"
                         /\ pc'[u] = "none" <=> pc[u] = "none"
                         /\ pc'[u] = "wait_reap" => pc[u] = "wait_reap"
  BY <1>1, <1>2, <1>3 DEF LifecycleInv, OneBaton
<1>5. \A i \in Pids : ~Unreaped(i)
  BY <1>1, <1>3 DEF LifecycleInv, OneBaton
<1>6. LifecycleTypeOK'
  <2>1. /\ pc' \in [Threads -> CallerPcs \cup WorkerPcs]
        /\ \A c \in Callers : pc'[c] \in CallerPcs
        /\ \A j \in Workers : pc'[j] \in WorkerPcs
    BY <1>1, <1>2, <1>3, ThreadFacts DEF LifecycleInv, LifecycleTypeOK
  <2> QED BY <1>1, <2>1 DEF LifecycleInv, LifecycleTypeOK, States
<1>7. OneBaton' /\ HandleInv' /\ PollInv'
  <2>1. OneBaton' /\ HandleInv'
    BY <1>1, <1>4, <1>5 DEF LifecycleInv, OneBaton, HandleInv, Unreaped
  <2>2. launched \in Nat
    BY DEF LifecycleInv, LifecycleTypeOK
  <2>3. PollInv'
    BY <1>1, <1>4, <2>2, ThreadFacts DEF LifecycleInv, PollInv, None
  <2> QED BY <2>1, <2>3
<1>8. WorkerInv'
  BY <1>1, <1>4, ThreadFacts DEF LifecycleInv, WorkerInv
<1>9. BudgetInv'
  BY <1>1, <1>2, ThreadFacts DEF LifecycleInv, BudgetInv, RestartBudget, RetriesLeft
<1> QED BY <1>6, <1>7, <1>8, <1>9 DEF LifecycleInv

-----------------------------------------------------------------------------
(* The invariant, and what it says.                                           *)

LEMMA LifecycleInit == Init => LifecycleInv
<1> SUFFICES ASSUME Init PROVE LifecycleInv
  OBVIOUS
<1>1. \A t \in Threads : pc[t] = IF t = Owner THEN "spawn_check"
                                 ELSE IF t \in Callers THEN "idle" ELSE "none"
  BY DEF Init
<1>2. /\ {"spawn_check", "idle"} \subseteq CallerPcs /\ "none" \in WorkerPcs
      /\ "idle" \notin HoldingPcs /\ "none" \notin HoldingPcs
      /\ LaunchingPcs \subseteq HoldingPcs
  BY DEF CallerPcs, WorkerPcs, HoldingPcs, LaunchingPcs, SpawningPcs, SpawnPcs, ReapedPcs
<1>3. MaxRestarts \in Nat /\ MaxRetries \in Nat /\ Owner \in Callers
  BY RestartsAssumption, CallersAssumption
<1>4. LifecycleTypeOK
  <2>1. \A t \in Threads : pc[t] \in CallerPcs \cup WorkerPcs
    BY <1>1, <1>2
  <2>2. pc \in [Threads -> CallerPcs \cup WorkerPcs]
    BY <2>1 DEF Init
  <2>3. /\ \A c \in Callers : pc[c] \in CallerPcs
        /\ \A k \in Workers : pc[k] \in WorkerPcs
    BY <1>1, <1>2, <1>3, ThreadFacts
  <2>4. 0 \in 0 .. MaxRestarts /\ 0 \in 0 .. (MaxRestarts + 1)
    BY <1>3
  <2> QED BY <2>2, <2>3, <2>4 DEF Init, LifecycleTypeOK, States
<1>5. OneBaton /\ HandleInv /\ PollInv
  <2>1. \A t \in Threads : pc[t] \notin {"poll", "wait_reap"}
    BY <1>1
  <2>2. launcher = 0 /\ launched = 0
    BY DEF Init, None
  <2>3. \A i \in Pids : ~Unreaped(i)
    BY DEF Init, Unreaped
  <2>4. OneBaton
    BY <1>1, <1>2, <2>1, <2>3 DEF OneBaton
  <2>5. HandleInv
    BY <2>3 DEF HandleInv, Unreaped
  <2>6. PollInv
    BY <2>1, <2>2, ThreadFacts DEF PollInv, None
  <2> QED BY <2>4, <2>5, <2>6
<1>6. WorkerInv
  <2>1. \A k \in Workers : k \in Nat /\ k > 0 /\ k # Owner /\ pc[k] = "none"
    BY <1>1, <1>3, ThreadFacts DEF Workers
  <2>2. restartCount = 0 /\ launched = 0 /\ \A k \in Workers : pc[k] # "delay"
    BY <2>1 DEF Init
  <2> QED BY <2>1, <2>2 DEF WorkerInv
<1>7. BudgetInv
  <2>1. restartCount = 0 /\ \A c \in Callers : pc[c] # "restart_set"
    BY <1>1, ThreadFacts DEF Init
  <2> QED BY <1>3, <2>1 DEF BudgetInv, RestartBudget
<1> QED BY <1>4, <1>5, <1>6, <1>7 DEF LifecycleInv

LEMMA LifecycleStep == LifecycleInv /\ [Next]_vars => LifecycleInv'
<1> SUFFICES ASSUME LifecycleInv, [Next]_vars PROVE LifecycleInv'
  OBVIOUS
<1>1. ASSUME NEW t \in Threads, Spawn(t) PROVE LifecycleInv'
  BY <1>1, SpawnMoves, CloneStep, PollStep DEF Spawn
<1>2. ASSUME NEW c \in Callers, Begin(c) PROVE LifecycleInv'
  BY <1>2, WaitMoves, TerminateMoves, SuspendResumeMoves, StopMoves DEF Begin
<1>3. ASSUME NEW c \in Callers, Wait(c) PROVE LifecycleInv'
  BY <1>3, WaitMoves, WaitReapsStep, ScheduleStep DEF Wait
<1>4. ASSUME NEW c \in Callers, Terminate(c) PROVE LifecycleInv'
  BY <1>4, TerminateMoves, StopMoves, TerminateProcessSteps DEF Terminate
<1>5. ASSUME NEW c \in Callers, SuspendResume(c) PROVE LifecycleInv'
  BY <1>5, SuspendResumeMoves
<1>6. ASSUME NEW k \in Workers, Worker(k) PROVE LifecycleInv'
  BY <1>6, WorkerMoves, ResetStep DEF Worker
<1>7. ASSUME NEW i \in Pids, Exit(i) PROVE LifecycleInv'
  BY <1>7, ExitStep
<1>8. CASE UNCHANGED vars
  BY <1>8 DEF vars, handle, restart, kernel, LifecycleInv, LifecycleTypeOK, OneBaton,
     HandleInv, PollInv, Polled, Unreaped, WorkerInv, BudgetInv, RestartBudget, RetriesLeft
<1> QED BY <1>1, <1>2, <1>3, <1>4, <1>5, <1>6, <1>7, <1>8, ThreadFacts DEF Next, CallerStep

\* The strengthening holds in every reachable state.
THEOREM ContainerInvariant == Spec => []LifecycleInv
<1> QED BY LifecycleInit, LifecycleStep, PTL DEF Spec

\* The fields, the process table and every thread keep their types, whatever
\* the number of callers and restarts (backend/container.py).
THEOREM ContainerTypes == Spec => []LifecycleTypeOK
<1>1. LifecycleInv => LifecycleTypeOK
  BY DEF LifecycleInv
<1> QED BY <1>1, ContainerInvariant, PTL

\* No interleaving of spawn, its launch poll, wait, terminate and automatic
\* restart makes the manager lose a process that runs or one to be reaped, or
\* makes two exist; only a poll that times out leaves a killed one unreaped
\* (container.py, _spawn_direct, _maybe_restart).
THEOREM ContainerHasNoOrphan == Spec => []NoOrphan
<1>1. LifecycleInv => NoOrphan
  BY DEF LifecycleInv, HandleInv, NoOrphan, Running, Zombie, Unreaped
<1> QED BY <1>1, ContainerInvariant, PTL

\* However many threads wait, restart_max_retries is never exceeded
\* (container.py, _should_restart).
THEOREM ContainerKeepsRestartBudget == Spec => []RestartBudget
<1>1. LifecycleInv => RestartBudget
  BY DEF LifecycleInv, BudgetInv
<1> QED BY <1>1, ContainerInvariant, PTL

\* A restart whose event was set during its delay never goes on to reset the
\* container (container.py, _restart_worker).
THEOREM ContainerCancelsRestarts == Spec => CancelledRestartNeverRuns
<1>1. LifecycleInv /\ [Next]_vars
        => [\A k \in Workers : pc[k] = "delay" /\ pc'[k] = "reset" => k \notin stopped]_vars
  <2> SUFFICES ASSUME LifecycleInv, Next, NEW k \in Workers, pc[k] = "delay", pc'[k] = "reset"
               PROVE  k \notin stopped
    BY DEF vars
  <2>1. restartStop = k /\ k \in Threads /\ pc \in [Threads -> CallerPcs \cup WorkerPcs]
    BY ThreadFacts DEF LifecycleInv, LifecycleTypeOK, WorkerInv
  <2>2. ASSUME NEW t \in Threads, t # k, NEW to, pc' = [pc EXCEPT ![t] = to] PROVE FALSE
    BY <2>1, <2>2
  <2>3. ASSUME NEW t \in Threads, NEW from, NEW to, Goto(t, from, to), from # "delay"
        PROVE  FALSE
    BY <2>2, <2>3 DEF Goto
  <2>4. ASSUME NEW c \in Callers, Begin(c) PROVE FALSE
    BY <2>4, <2>1, <2>3, ThreadFacts DEF Begin, WaitBegin, TerminateBegin, SuspendBegin,
       ResumeBegin, StopRestart
  <2>5. ASSUME NEW t \in Threads, Spawn(t) PROVE FALSE
    BY <2>5, <2>3 DEF Spawn, SpawnTest, SpawnRunning, LaunchFails, Clone, EntryFails,
       PollTimesOut, PollResolves, PollEnds, Grant,
       SpawnReturns, FailTest, FailAssign, TransitionTest, TransitionAssign, TerminatedAssign
  <2>6. ASSUME NEW c \in Callers, Wait(c) PROVE FALSE
    <3>1. CASE RestartSchedule(c)
      BY <3>1, <2>1, <2>6, ThreadFacts DEF RestartSchedule
    <3>2. CASE ~RestartSchedule(c)
      BY <3>2, <2>3, <2>6, ThreadFacts DEF Wait, WaitReaps, WaitRaises, WaitTest, WaitAssign,
         RestartTest, TransitionTest, TerminatedAssign
    <3> QED BY <3>1, <3>2
  <2>7. ASSUME NEW c \in Callers, Terminate(c) PROVE FALSE
    BY <2>7, <2>3, ThreadFacts DEF Terminate, TerminateStopsRestart, NoPidTest, NoPidAssign,
       TerminateThaws, TerminateSignals, TerminateKills, TerminateTest, TerminateAssign,
       TerminateReaps, TransitionTest, TerminatedAssign
  <2>8. ASSUME NEW c \in Callers, SuspendResume(c) PROVE FALSE
    BY <2>8, <2>3, ThreadFacts DEF SuspendResume, SuspendFreezes, SuspendTest, SuspendAssign,
       ResumeThaws, ResumeTest, ResumeAssign, TransitionTest, TransitionAssign
  <2>9. ASSUME NEW i \in Pids, Exit(i) PROVE FALSE
    BY <2>9 DEF Exit
  <2>10. PICK j \in Workers : Worker(j)
    BY <2>4, <2>5, <2>6, <2>7, <2>8, <2>9, ThreadFacts DEF Next, CallerStep
  <2>11. WorkerDelayOver(j)
    BY <2>1, <2>3, <2>10, ThreadFacts DEF Worker, WorkerCancelled, WorkerReset, Goto
  <2> QED BY <2>1, <2>11 DEF WorkerDelayOver
<1> QED BY <1>1, ContainerInvariant, PTL DEF CancelledRestartNeverRuns, Spec

=============================================================================
