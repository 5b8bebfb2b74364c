------------------------------ MODULE Mailboxes ------------------------------
(***************************************************************************)
(* The in-kernel mailbox IPC of NyKernel, nykernel/src/experimental/ipc.rs,*)
(* composed with the scheduler its blocking receive parks on.              *)
(*                                                                         *)
(* Every action is a call made by the running task, up to its return or to *)
(* its next scheduling point.  A task inside receive() that has called     *)
(* block_current is "parked" and continues with Resume when its code runs  *)
(* again.  A refused call (NotRunningTask, NoSuchMailbox, Revoked,         *)
(* MailboxFull, an empty try_receive, a repeated revocation) changes       *)
(* nothing: it is a stuttering step.                                       *)
(***************************************************************************)
EXTENDS Scheduler, Sequences

CONSTANTS
  Dest,          \* the mailbox indices that callers name, in range or not
  Revocable,     \* the sender ids that callers revoke
  Limit,         \* the max_wakes budgets that callers pass
  NoLimit,       \* max_wakes = None
  Capacity,      \* DEFAULT_CAPACITY
  MaxMessages    \* bound: how many messages are ever accepted

ASSUME MailboxAssumption ==
  /\ Dest \subseteq Nat
  /\ Revocable \subseteq Nat
  /\ Limit \subseteq Nat \cup {NoLimit}
  /\ NoLimit \notin Nat
  /\ Capacity \in Nat \ {0}
  /\ MaxMessages \in Nat

Box == Task      \* an index of MAILBOXES: one mailbox per task id

Message == [sender : Task, seq : 1 .. MaxMessages]

VARIABLES
  boxes,       \* MAILBOXES.len()
  queue,       \* Mailbox.queue
  revoked,     \* Mailbox.revoked
  waiters,     \* Mailbox.waiters: only membership matters, all are woken at once
  pc,          \* where a task stands: "run" outside receive(), or "parked" in it
  call,        \* receive()'s dest, max_wakes and wakes, for a parked task
  sent,        \* history: how many messages were ever accepted
  accepted,    \* history: every message a send put in the mailbox
  taken        \* history: how many of them have been popped

history == <<sent, accepted, taken>>
boxVars == <<boxes, queue, revoked, waiters, pc, call, history>>
vars    == <<schedVars, boxVars>>

NoCall == [dest |-> 0, limit |-> NoLimit, wakes |-> 0]

Calling == halt = "no" /\ pc[current] = "run"

----------------------------------------------------------------------------
\* ipc::init, by kernel_main, once the boot's tasks are spawned.
IpcInit ==
  /\ Calling
  /\ current = 0
  /\ boxes = 0
  /\ boxes' = tasks
  /\ UNCHANGED <<schedVars, queue, revoked, waiters, pc, call, history>>

\* Mutant of WakeAll: drains the list and wakes one of its tasks.
WakeOne(d) ==
  /\ UnblockTasks({ t \in waiters[d] : \A u \in waiters[d] : t <= u })
  /\ waiters' = [waiters EXCEPT ![d] = {}]

\* Mutant of WakeAll: the woken stay registered.
WakeAllKeeping(d) == UnblockTasks(waiters[d]) /\ UNCHANGED waiters

\* Mutant of WakeAll: drains the list and wakes nobody.
WakeNobody(d) ==
  /\ waiters' = [waiters EXCEPT ![d] = {}]
  /\ UNCHANGED schedVars

\* Every waiter of d is unblocked; a registration outlives a refused edge.
WakeAll(d) ==
  /\ UnblockTasks(waiters[d])
  /\ waiters' = [waiters EXCEPT
                   ![d] = { t \in @ : ~ LegalTransition(state[t], "Ready") }]

\* Mutant of Send: one message above the capacity.
SendOverfull(d, claimed) ==
  /\ Calling
  /\ sent < MaxMessages
  /\ claimed = current
  /\ d < boxes
  /\ claimed \notin revoked[d]
  /\ Len(queue[d]) <= Capacity
  /\ sent' = sent + 1
  /\ LET msg == [sender |-> claimed, seq |-> sent + 1]
     IN  /\ queue' = [queue EXCEPT ![d] = Append(@, msg)]
         /\ accepted' = [accepted EXCEPT ![d] = Append(@, msg)]
  /\ WakeAll(d)
  /\ UNCHANGED <<boxes, revoked, pc, call, taken>>

\* Mutant of Send: revocations are not looked up.
SendUnarbitrated(d, claimed) ==
  /\ Calling
  /\ sent < MaxMessages
  /\ claimed = current
  /\ d < boxes
  /\ Len(queue[d]) < Capacity
  /\ sent' = sent + 1
  /\ LET msg == [sender |-> claimed, seq |-> sent + 1]
     IN  /\ queue' = [queue EXCEPT ![d] = Append(@, msg)]
         /\ accepted' = [accepted EXCEPT ![d] = Append(@, msg)]
  /\ WakeAll(d)
  /\ UNCHANGED <<boxes, revoked, pc, call, taken>>

\* The seq field is the sender's business: here it numbers the messages.
Send(d, claimed) ==
  /\ Calling
  /\ sent < MaxMessages
  /\ claimed = current
  /\ d < boxes
  /\ claimed \notin revoked[d]
  /\ Len(queue[d]) < Capacity
  /\ sent' = sent + 1
  /\ LET msg == [sender |-> claimed, seq |-> sent + 1]
     IN  /\ queue' = [queue EXCEPT ![d] = Append(@, msg)]
         /\ accepted' = [accepted EXCEPT ![d] = Append(@, msg)]
  /\ WakeAll(d)
  /\ UNCHANGED <<boxes, revoked, pc, call, taken>>

\* Mutant of PopFront: takes the youngest message.
PopBack(d) ==
  /\ queue[d] # <<>>
  /\ queue' = [queue EXCEPT ![d] = SubSeq(@, 1, Len(@) - 1)]
  /\ taken' = [taken EXCEPT ![d] = @ + 1]

PopFront(d) ==
  /\ queue[d] # <<>>
  /\ queue' = [queue EXCEPT ![d] = Tail(@)]
  /\ taken' = [taken EXCEPT ![d] = @ + 1]

\* try_receive, and a receive() whose first probe finds a message.
TryReceive(d) ==
  /\ Calling
  /\ d < boxes
  /\ PopFront(d)
  /\ UNCHANGED <<schedVars, boxes, revoked, waiters, pc, call, sent, accepted>>

\* Mutant of ReceiveParks: marks the task Blocked and does not give up the core.
ParksUnswitched(d, limit) ==
  /\ Calling
  /\ d < boxes
  /\ queue[d] = <<>>
  /\ waiters' = [waiters EXCEPT ![d] = @ \cup {current}]
  /\ pc' = [pc EXCEPT ![current] = "parked"]
  /\ call' = [call EXCEPT ![current] = [dest |-> d, limit |-> limit, wakes |-> 0]]
  /\ current \notin Perpetual
  /\ state' = SetState(state, current, "Blocked")
  /\ UNCHANGED <<tasks, current, saved, rejected, halt>>
  /\ UNCHANGED <<boxes, queue, revoked, history>>

\* receive(), first probe of an empty mailbox: register, then block_current.
ReceiveParks(d, limit) ==
  /\ Calling
  /\ d < boxes
  /\ queue[d] = <<>>
  /\ waiters' = [waiters EXCEPT ![d] = @ \cup {current}]
  /\ pc' = [pc EXCEPT ![current] = "parked"]
  /\ call' = [call EXCEPT ![current] = [dest |-> d, limit |-> limit, wakes |-> 0]]
  /\ BlockCurrent
  /\ UNCHANGED <<boxes, queue, revoked, history>>

----------------------------------------------------------------------------
(* receive() after block_current: drop the registration, charge an empty    *)
(* wake to the budget, then probe again.                                    *)

Deregistered == [waiters EXCEPT ![call[current].dest] = @ \ {current}]

Spent(c) == c.limit # NoLimit /\ c.wakes + 1 >= c.limit

ReturnsToCaller ==
  /\ pc' = [pc EXCEPT ![current] = "run"]
  /\ call' = [call EXCEPT ![current] = NoCall]
  /\ waiters' = Deregistered

ResumeDelivers ==
  /\ PopFront(call[current].dest)
  /\ ReturnsToCaller
  /\ UNCHANGED schedVars

ResumeTimesOut ==
  /\ queue[call[current].dest] = <<>>
  /\ Spent(call[current])
  /\ ReturnsToCaller
  /\ UNCHANGED <<schedVars, queue, taken>>

\* `wakes` is only ever compared with a budget: without one it is not counted.
ResumeParksAgain ==
  LET c == call[current]
  IN  /\ queue[c.dest] = <<>>
      /\ ~ Spent(c)
      /\ waiters' = [Deregistered EXCEPT ![c.dest] = @ \cup {current}]
      /\ call' = [call EXCEPT ![current].wakes = IF c.limit = NoLimit THEN 0 ELSE @ + 1]
      /\ BlockCurrent
      /\ UNCHANGED <<pc, queue, taken>>

Resume ==
  /\ halt = "no"
  /\ pc[current] = "parked"
  /\ ResumeDelivers \/ ResumeTimesOut \/ ResumeParksAgain
  /\ UNCHANGED <<boxes, revoked, sent, accepted>>

----------------------------------------------------------------------------
\* The explicit kick: wakes nothing while a message is queued.
WakeWaiters(d) ==
  /\ Calling
  /\ d < boxes
  /\ queue[d] = <<>>
  /\ WakeAll(d)
  /\ UNCHANGED <<boxes, queue, revoked, pc, call, history>>

RevokeSender(d, sender) ==
  /\ Calling
  /\ d < boxes
  /\ revoked' = [revoked EXCEPT ![d] = @ \cup {sender}]
  /\ UNCHANGED <<schedVars, boxes, queue, waiters, pc, call, history>>

\* The scheduler calls a task makes outside receive().
Yields     == Calling /\ YieldTask /\ UNCHANGED boxVars
Terminates == Calling /\ TerminateCurrent /\ UNCHANGED boxVars
Spawns     == Calling /\ Spawn /\ UNCHANGED boxVars

Init ==
  /\ SchedInit
  /\ boxes = 0
  /\ queue = [d \in Box |-> <<>>]
  /\ revoked = [d \in Box |-> {}]
  /\ waiters = [d \in Box |-> {}]
  /\ pc = [t \in Task |-> "run"]
  /\ call = [t \in Task |-> NoCall]
  /\ sent = 0
  /\ accepted = [d \in Box |-> <<>>]
  /\ taken = [d \in Box |-> 0]

Next ==
  \/ IpcInit
  \/ \E d \in Dest, claimed \in Task : Send(d, claimed)
  \/ \E d \in Dest : TryReceive(d)
  \/ \E d \in Dest, limit \in Limit : ReceiveParks(d, limit)
  \/ Resume
  \/ \E d \in Dest : WakeWaiters(d)
  \/ \E d \in Dest, sender \in Revocable : RevokeSender(d, sender)
  \/ Yields
  \/ Terminates
  \/ Spawns

\* Cooperative code: the task on the core reaches its next scheduling point.
Fairness == WF_vars(Yields) /\ WF_vars(Resume)

Spec == Init /\ [][Next]_vars /\ Fairness

----------------------------------------------------------------------------
(* Properties.                                                               *)

MailboxTypeOK ==
  /\ SchedTypeOK
  /\ boxes \in 0 .. tasks
  /\ queue \in [Box -> Seq(Message)]
  /\ revoked \in [Box -> SUBSET Nat]
  /\ waiters \in [Box -> SUBSET Task]
  /\ pc \in [Task -> {"run", "parked"}]
  /\ call \in [Task -> [dest : Nat, limit : Nat \cup {NoLimit}, wakes : Nat]]
  /\ sent \in 0 .. MaxMessages
  /\ accepted \in [Box -> Seq(Message)]
  /\ taken \in [Box -> Nat]
  /\ \A d \in Box : Len(queue[d]) <= Capacity

\* No lost wake (ipc.rs, receive): a task parked in receive() that is Blocked
\* is registered on its mailbox and that mailbox is empty, so the next send
\* or kick finds it, and no message ever waits behind a sleeping receiver.
NoLostWake ==
  \A t \in Task :
    pc[t] = "parked" /\ state[t] = "Blocked" =>
      /\ t \in waiters[call[t].dest]
      /\ queue[call[t].dest] = <<>>

\* Only parked tasks are registered, each on the one mailbox it waits for and
\* Blocked: "every unblock below is a legal BLOCKED -> READY edge" (ipc.rs,
\* Mailbox.waiters).
WaitersAreParked ==
  \A d \in Box : \A t \in waiters[d] :
    pc[t] = "parked" /\ call[t].dest = d /\ state[t] = "Blocked"

\* While two tasks stay in the rotation no caller of set_state is ever refused:
\* no registration goes stale and no task blocks twice (ipc.rs, send's re-push
\* and receive's retain; scheduler.rs, lifecycle_rejections).
NoEdgeRefused == ~ rejected

\* A wake finds its receiver Blocked: nobody else is registered, and so no edge
\* is refused.
WakesAreLegal == WaitersAreParked /\ NoEdgeRefused

\* Each mailbox is a FIFO: what it holds is exactly what was accepted and not
\* yet popped, in order, whoever popped it and whether or not it was parked.
FifoExactlyOnce ==
  \A d \in Box : queue[d] = SubSeq(accepted[d], taken[d] + 1, Len(accepted[d]))

\* A message enters a mailbox only under the running task's own name, and never
\* from a sender revoked there; a revocation leaves what is queued alone
\* (ipc.rs, send's arbiter check and revoke_sender).
ArbiterDecides ==
  [][ \A d \in Box :
        /\ Len(queue'[d]) > Len(queue[d]) =>
             LET msg == queue'[d][Len(queue'[d])]
             IN  msg.sender = current /\ msg.sender \notin revoked[d]
        /\ revoked'[d] # revoked[d] =>
             queue' = queue /\ revoked[d] \subseteq revoked'[d] ]_vars

\* A message queued for a parked receiver is eventually taken by somebody, or
\* every receiver of that mailbox has gone (ipc.rs, receive with its wakes).
QueuedIsTaken ==
  \A d \in Box :
    queue[d] # <<>> /\ (\E t \in Task : pc[t] = "parked" /\ call[t].dest = d)
      ~> queue[d] = <<>> \/ ~ \E t \in Task : pc[t] = "parked" /\ call[t].dest = d

=============================================================================
