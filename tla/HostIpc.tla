------------------------------- MODULE HostIpc -------------------------------
(***************************************************************************)
(* The host backend's IPC manager (ipc/core.py, IPCManager and              *)
(* IPCEndpoint): endpoints that come and go with their containers, and any  *)
(* number of threads that send, receive, call and reply through them.       *)
(*                                                                          *)
(* The manager's lock covers the tables only: an operation looks its        *)
(* endpoint up without it and goes on with the object it found, whatever    *)
(* happens to the table meanwhile.  An action is what the code does between *)
(* two points where another thread may run: a block under a lock, an        *)
(* operation of a queue or of an event, a lookup.                           *)
(*                                                                          *)
(* A message is its id, with the operation it belongs to; notify() is       *)
(* send() without a capability check.  The capability manager and the rate  *)
(* limiter may refuse at any time.                                          *)
(***************************************************************************)
EXTENDS Naturals, SequencesExt

CONSTANTS
  Threads,      \* the threads that use the manager
  Containers,   \* containers with endpoints
  Names,        \* endpoint ids
  MaxObjects,   \* bound on the endpoints ever created
  MaxMessages   \* bound on the messages ever sent

ASSUME BoundsAssumption == MaxObjects \in Nat /\ MaxMessages \in Nat

None == 0                          \* Python's None
Objects == 1 .. MaxObjects         \* IPCEndpoint instances
Ids == 1 .. MaxMessages            \* message ids, never used twice
Messages == [id : Ids, kind : {"send", "call"}]

VARIABLES
  endpoints,          \* endpoint id -> object, or None
  containerEndpoints, \* container -> list of endpoint ids
  container,          \* object -> the container it was created for
  created,            \* number of objects so far
  queue,              \* object -> its message_queue
  sent,               \* number of messages so far
  delivered,          \* history, read by no action: the calls ever received
  pendingCalls,       \* keys of pending_calls
  fired,              \* the pending calls whose event is set
  callReplies,        \* keys of call_replies
  pc, obj, msg        \* per thread: next step, endpoint object, message id

tables == <<endpoints, containerEndpoints, container, created>>
books  == <<pendingCalls, fired, callReplies>>
local  == <<pc, obj, msg>>
vars   == <<tables, queue, sent, delivered, books, local>>

\* Where a thread is between register and clean-up of a call.
CallPcs == {"put", "wait", "fetch", "cleanup"}
Pcs == CallPcs \cup {"idle", "get", "send", "register"}

HostIpcTypeOK ==
  /\ endpoints \in [Names -> Objects \cup {None}]
  /\ containerEndpoints \in [Containers -> Seq(Names)]
  /\ container \in [Objects -> Containers \cup {None}]
  /\ created \in 0 .. MaxObjects
  /\ queue \in [Objects -> Seq(Messages)]
  /\ sent \in 0 .. MaxMessages
  /\ delivered \subseteq Ids
  /\ pendingCalls \subseteq Ids
  /\ fired \subseteq Ids
  /\ callReplies \subseteq Ids
  /\ pc \in [Threads -> Pcs]
  /\ obj \in [Threads -> Objects \cup {None}]
  /\ msg \in [Threads -> Ids \cup {None}]

Init ==
  /\ endpoints = [n \in Names |-> None]
  /\ containerEndpoints = [k \in Containers |-> <<>>]
  /\ container = [o \in Objects |-> None]
  /\ created = 0
  /\ queue = [o \in Objects |-> <<>>]
  /\ sent = 0
  /\ delivered = {}
  /\ pendingCalls = {} /\ fired = {} /\ callReplies = {}
  /\ pc = [t \in Threads |-> "idle"]
  /\ obj = [t \in Threads |-> None]
  /\ msg = [t \in Threads |-> None]

Goto(t, from, to) == pc[t] = from /\ pc' = [pc EXCEPT ![t] = to]

\* An operation returns, its local variables with it.
Return(t, from) ==
  /\ pc[t] = from
  /\ pc' = [pc EXCEPT ![t] = "idle"]
  /\ obj' = [obj EXCEPT ![t] = None]
  /\ msg' = [msg EXCEPT ![t] = None]
-----------------------------------------------------------------------------
\* Mutant: an id already in the table is not listed again.
ListNewNames(k, n) ==
  IF endpoints[n] = None THEN Append(containerEndpoints[k], n)
                         ELSE containerEndpoints[k]

Listed(k, n) == Append(containerEndpoints[k], n)

\* create_endpoint: a name that is in use is taken over.
CreateEndpoint(k, n) ==
  /\ created < MaxObjects
  /\ created' = created + 1
  /\ container' = [container EXCEPT ![created + 1] = k]
  /\ endpoints' = [endpoints EXCEPT ![n] = created + 1]
  /\ containerEndpoints' = [containerEndpoints EXCEPT ![k] = Listed(k, n)]
  /\ UNCHANGED <<queue, sent, delivered, books, local>>

\* cleanup_container: pops the container's endpoints from the table and leaves
\* the objects, their queues and whoever waits on them alone.
CleanupContainer(k) ==
  /\ containerEndpoints[k] # <<>>
  /\ endpoints' = [n \in Names |-> IF n \in Range(containerEndpoints[k])
                                   THEN None ELSE endpoints[n]]
  /\ containerEndpoints' = [containerEndpoints EXCEPT ![k] = <<>>]
  /\ UNCHANGED <<container, created, queue, sent, delivered, books, local>>

\* The lookup send, notify, call and receive begin with; send and call make
\* their message of what they find.  Any refusal before it changes nothing.
Lookup(t, n, to) ==
  /\ endpoints[n] # None
  /\ Goto(t, "idle", to)
  /\ obj' = [obj EXCEPT ![t] = endpoints[n]]

\* Mutant: the message gets its id only when it is queued.
BeginsUnnamed(t, n, to) ==
  /\ sent < MaxMessages
  /\ Lookup(t, n, to)
  /\ sent' = sent + 1
  /\ UNCHANGED <<tables, queue, delivered, books, msg>>

BeginSend(t, n, to) ==
  /\ sent < MaxMessages
  /\ Lookup(t, n, to)
  /\ sent' = sent + 1
  /\ msg' = [msg EXCEPT ![t] = sent + 1]
  /\ UNCHANGED <<tables, queue, delivered, books>>

BeginReceive(t, n) ==
  /\ Lookup(t, n, "get")
  /\ UNCHANGED <<tables, queue, sent, delivered, books, msg>>

\* send_message, admitted by the rate limiter.
Enqueue(t, kind) ==
  queue' = [queue EXCEPT ![obj[t]] = Append(@, [id |-> msg[t], kind |-> kind])]

\* send, notify: queued, or refused by the limiter.
Send(t) ==
  /\ Return(t, "send")
  /\ Enqueue(t, "send") \/ UNCHANGED queue
  /\ UNCHANGED <<tables, sent, delivered, books>>

\* receive: the head of the queue, or the timeout.
ReceiveTakes(t) ==
  /\ Return(t, "get")
  /\ queue[obj[t]] # <<>>
  /\ queue' = [queue EXCEPT ![obj[t]] = Tail(@)]
  /\ delivered' = LET m == Head(queue[obj[t]])
                  IN IF m.kind = "call" THEN delivered \cup {m.id} ELSE delivered
  /\ UNCHANGED <<tables, sent, books>>

ReceiveTimesOut(t) ==
  /\ Return(t, "get")
  /\ queue[obj[t]] = <<>>
  /\ UNCHANGED <<tables, queue, sent, delivered, books>>
-----------------------------------------------------------------------------
(***************************************************************************)
(* call() and reply().                                                      *)
(***************************************************************************)

CallRegisters(t) ==
  /\ Goto(t, "register", "put")
  /\ pendingCalls' = pendingCalls \cup {msg[t]}
  /\ UNCHANGED <<tables, queue, sent, delivered, fired, callReplies, obj, msg>>

CallSends(t) ==
  /\ \/ Goto(t, "put", "wait") /\ Enqueue(t, "call")
     \/ Goto(t, "put", "cleanup") /\ UNCHANGED queue   \* refused by the limiter
  /\ UNCHANGED <<tables, sent, delivered, books, obj, msg>>

CallAnswered(t) ==
  /\ msg[t] \in fired
  /\ Goto(t, "wait", "fetch")
  /\ UNCHANGED <<tables, queue, sent, delivered, books, obj, msg>>

\* Mutant: event.wait() without a timeout.
WaitsForever(t) == CallAnswered(t)

CallTimesOut(t) ==
  /\ msg[t] \notin fired
  /\ Goto(t, "wait", "cleanup")
  /\ UNCHANGED <<tables, queue, sent, delivered, books, obj, msg>>

CallFetches(t) ==
  /\ Goto(t, "fetch", "cleanup")
  /\ callReplies' = callReplies \ {msg[t]}
  /\ UNCHANGED <<tables, queue, sent, delivered, pendingCalls, fired, obj, msg>>

Forget(t) ==
  /\ pendingCalls' = pendingCalls \ {msg[t]}
  /\ fired' = fired \ {msg[t]}
  /\ callReplies' = callReplies \ {msg[t]}

\* The finally clause of call().
CallCleansUp(t) ==
  /\ Return(t, "cleanup")
  /\ Forget(t)
  /\ UNCHANGED <<tables, queue, sent, delivered>>

\* Mutant: the event is set before the reply is stored, and without the lock.
SignalsFirst(i) ==
  /\ i \in pendingCalls
  /\ IF i \in fired THEN callReplies' = callReplies \cup {i} /\ UNCHANGED fired
                    ELSE fired' = fired \cup {i} /\ UNCHANGED callReplies
  /\ UNCHANGED <<tables, queue, sent, delivered, pendingCalls, local>>

\* reply() asks for the call's id and for nothing else: from whoever knows it,
\* before the call is received or after, any number of times.  It returns True;
\* for a call that is not, or no longer, pending it returns False.
Reply(i) ==
  /\ i \in pendingCalls
  /\ callReplies' = callReplies \cup {i}
  /\ fired' = fired \cup {i}
  /\ UNCHANGED <<tables, queue, sent, delivered, pendingCalls, local>>

Call(t) ==
  \/ CallRegisters(t) \/ CallSends(t) \/ CallAnswered(t) \/ CallTimesOut(t)
  \/ CallFetches(t) \/ CallCleansUp(t)

Step(t) == Send(t) \/ ReceiveTakes(t) \/ ReceiveTimesOut(t) \/ Call(t)

Begin(t, n) ==
  BeginSend(t, n, "send") \/ BeginSend(t, n, "register") \/ BeginReceive(t, n)

Next ==
  \/ \E k \in Containers : CleanupContainer(k) \/ \E n \in Names : CreateEndpoint(k, n)
  \/ \E t \in Threads : Step(t) \/ \E n \in Names : Begin(t, n)
  \/ \E i \in Ids : Reply(i)

\* A thread inside an operation is run; timeouts pass.  Nobody need begin an
\* operation or reply.
Fairness == \A t \in Threads : WF_vars(Step(t))

Spec == Init /\ [][Next]_vars /\ Fairness
-----------------------------------------------------------------------------
(***************************************************************************)
(* Properties.                                                              *)
(***************************************************************************)

\* The books hold the calls under way and nothing else, whenever a reply comes
\* in: before the call is queued, after its timeout, after it has fetched one, or
\* twice (core.py, call's finally clause and reply's test of pending_calls).
BooksAreCalls ==
  /\ pendingCalls = {msg[t] : t \in {u \in Threads : pc[u] \in CallPcs}}
  /\ fired \cup callReplies \subseteq pendingCalls

\* A caller whose event was set finds its reply in the table, whatever other
\* callers and repliers have done since (core.py, call and reply).
ReplyIsThere ==
  \A t \in Threads : pc[t] = "fetch" => msg[t] \in callReplies

\* The tables behind call and reply hold exactly what the callers still need.
RepliesReachCallers == BooksAreCalls /\ ReplyIsThere

\* Every endpoint in the table is on the list of the container it belongs to,
\* so that cleaning up a container leaves none of its endpoints, although a
\* name may have been taken over in between (core.py, create_endpoint and
\* cleanup_container).
EndpointIsListed ==
  \A n \in Names : endpoints[n] # None
    => n \in Range(containerEndpoints[container[endpoints[n]]])

\* Every operation returns, although a cleanup wakes nobody and a receiver may
\* never reply (core.py, the timeouts of receive_message and call).
OperationsReturn == \A t \in Threads : pc[t] # "idle" ~> pc[t] = "idle"
=============================================================================
