---------------------------- MODULE HostIpc_proofs ----------------------------
(***************************************************************************)
(* Proofs about HostIpc, for every set of threads, containers and endpoint  *)
(* names and however many endpoints and messages there are.                 *)
(*                                                                          *)
(* The books of calls are exact because a message id is in one thread's     *)
(* hands only, so that a caller's clean-up removes what is its own; the     *)
(* table of endpoints is covered by the containers' lists because both are  *)
(* written under one lock and a name that is taken over is listed again.    *)
(***************************************************************************)
EXTENDS HostIpc, TLAPS, SequenceTheorems

\* A thread that has made a message holds it, and nobody else does.
MessagesAreOwn ==
  /\ \A t \in Threads : msg[t] <= sent
  /\ \A t \in Threads : pc[t] \in CallPcs \cup {"send", "register"} => msg[t] # None
  /\ \A t, u \in Threads : t # u /\ msg[t] = msg[u] => msg[t] = None
  /\ \A t \in Threads : pc[t] # "idle" => obj[t] # None

\* An event is set only together with a reply, which stays until its caller
\* fetches it.
RepliesKept ==
  \A t \in Threads : pc[t] \in {"put", "wait", "fetch"} /\ msg[t] \in fired
                       => msg[t] \in callReplies
FetchIsFired == \A t \in Threads : pc[t] = "fetch" => msg[t] \in fired

TableInv ==
  /\ \A n \in Names : endpoints[n] <= created
  /\ \A o \in Objects : o <= created => container[o] \in Containers
  /\ EndpointIsListed

IpcInv == /\ HostIpcTypeOK /\ MessagesAreOwn /\ BooksAreCalls
          /\ RepliesKept /\ FetchIsFired /\ TableInv
-----------------------------------------------------------------------------
(* What the steps do to one thread and to one list.                          *)

LEMMA RangeOfAppend ==
  ASSUME NEW S, NEW seq \in Seq(S), NEW x \in S
  PROVE  Range(Append(seq, x)) = Range(seq) \cup {x}
<1>1. /\ Append(seq, x) \in Seq(S) /\ Len(seq) \in Nat
      /\ Len(Append(seq, x)) = Len(seq) + 1
      /\ \A i \in 1 .. Len(seq) : Append(seq, x)[i] = seq[i]
      /\ Append(seq, x)[Len(seq) + 1] = x
  OBVIOUS
<1>2. /\ DOMAIN seq = 1 .. Len(seq)
      /\ DOMAIN Append(seq, x) = 1 .. (Len(seq) + 1)
  BY <1>1
<1>3. ASSUME NEW y \in Range(Append(seq, x)) PROVE y \in Range(seq) \cup {x}
  <2>1. PICK i \in 1 .. (Len(seq) + 1) : y = Append(seq, x)[i]
    BY <1>2 DEF Range
  <2>2. CASE i = Len(seq) + 1
    BY <1>1, <2>1, <2>2
  <2>3. CASE i \in 1 .. Len(seq)
    BY <1>1, <1>2, <2>1, <2>3 DEF Range
  <2> QED BY <1>1, <2>2, <2>3
<1>4. ASSUME NEW y \in Range(seq) PROVE y \in Range(Append(seq, x))
  <2>1. PICK i \in 1 .. Len(seq) : y = seq[i]
    BY <1>2 DEF Range
  <2>2. i \in 1 .. (Len(seq) + 1) /\ y = Append(seq, x)[i]
    BY <1>1, <2>1
  <2> QED BY <1>2, <2>2 DEF Range
<1>5. x \in Range(Append(seq, x))
  <2>1. Len(seq) + 1 \in DOMAIN Append(seq, x)
    BY <1>1, <1>2
  <2> QED BY <1>1, <2>1 DEF Range
<1> QED BY <1>3, <1>4, <1>5

LEMMA IdFacts ==
  /\ None \notin Ids /\ None \notin Objects
  /\ Ids \subseteq Nat /\ Objects \subseteq Nat
BY BoundsAssumption DEF Ids, Objects, None

LEMMA GotoFacts ==
  ASSUME HostIpcTypeOK, NEW t \in Threads, NEW from, NEW to \in Pcs, Goto(t, from, to)
  PROVE  /\ pc' \in [Threads -> Pcs] /\ pc[t] = from /\ pc'[t] = to
         /\ \A u \in Threads : u # t => pc'[u] = pc[u]
BY DEF HostIpcTypeOK, Goto

LEMMA ReturnFacts ==
  ASSUME HostIpcTypeOK, NEW t \in Threads, NEW from, Return(t, from)
  PROVE  /\ pc' \in [Threads -> Pcs] /\ pc[t] = from /\ pc'[t] = "idle"
         /\ \A u \in Threads : u # t => pc'[u] = pc[u] /\ msg'[u] = msg[u] /\ obj'[u] = obj[u]
         /\ msg' \in [Threads -> Ids \cup {None}] /\ msg'[t] = None
         /\ obj' \in [Threads -> Objects \cup {None}]
BY DEF HostIpcTypeOK, Return, Pcs

\* send_message leaves queues of messages.
LEMMA EnqueueType ==
  ASSUME IpcInv, NEW t \in Threads, NEW kind \in {"send", "call"}, Enqueue(t, kind),
         pc[t] \in {"send", "put"}
  PROVE  queue' \in [Objects -> Seq(Messages)]
<1>1. obj[t] \in Objects /\ msg[t] \in Ids
  BY DEF IpcInv, HostIpcTypeOK, MessagesAreOwn, CallPcs
<1>2. [id |-> msg[t], kind |-> kind] \in Messages
  BY <1>1 DEF Messages
<1>3. Append(queue[obj[t]], [id |-> msg[t], kind |-> kind]) \in Seq(Messages)
  BY <1>1, <1>2 DEF IpcInv, HostIpcTypeOK
<1> QED BY <1>1, <1>3 DEF Enqueue, IpcInv, HostIpcTypeOK
-----------------------------------------------------------------------------
LEMMA IpcInit == Init => IpcInv
<1> SUFFICES ASSUME Init PROVE IpcInv
  OBVIOUS
<1> USE DEF Init
<1>1. HostIpcTypeOK
  BY BoundsAssumption DEF HostIpcTypeOK, Pcs, Ids, Objects
<1>2. MessagesAreOwn /\ RepliesKept /\ FetchIsFired
  BY DEF MessagesAreOwn, RepliesKept, FetchIsFired, CallPcs, None
<1>3. BooksAreCalls
  BY DEF BooksAreCalls, CallPcs
<1>4. TableInv
  BY BoundsAssumption DEF TableInv, EndpointIsListed, None, Objects
<1> QED BY <1>1, <1>2, <1>3, <1>4 DEF IpcInv

\* Everything but the table depends only on the threads and the books.
ThreadsAndBooks == <<sent, books, local>>

LEMMA ThreadsUntouched ==
  ASSUME IpcInv, UNCHANGED ThreadsAndBooks
  PROVE  MessagesAreOwn' /\ BooksAreCalls' /\ RepliesKept' /\ FetchIsFired'
BY DEF ThreadsAndBooks, books, local, IpcInv, MessagesAreOwn, BooksAreCalls,
       RepliesKept, FetchIsFired

LEMMA TablesUntouched ==
  ASSUME IpcInv, UNCHANGED tables
  PROVE  TableInv'
BY DEF tables, IpcInv, TableInv, EndpointIsListed

LEMMA CreateKeepsInv ==
  ASSUME IpcInv, NEW k \in Containers, NEW n \in Names, CreateEndpoint(k, n)
  PROVE  IpcInv'
<1> DEFINE lists == containerEndpoints
<1>1. /\ MessagesAreOwn' /\ BooksAreCalls' /\ RepliesKept' /\ FetchIsFired'
  BY ThreadsUntouched DEF CreateEndpoint, ThreadsAndBooks
<1>2. /\ created' = created + 1 /\ created' \in Objects /\ created \in Nat
      /\ container' = [container EXCEPT ![created + 1] = k]
      /\ endpoints' = [endpoints EXCEPT ![n] = created + 1]
      /\ lists' = [lists EXCEPT ![k] = Append(lists[k], n)]
      /\ lists[k] \in Seq(Names)
  BY BoundsAssumption DEF CreateEndpoint, Listed, IpcInv, HostIpcTypeOK, Objects
<1>3. HostIpcTypeOK'
  <2>1. Append(lists[k], n) \in Seq(Names)
    BY <1>2
  <2>2. lists' \in [Containers -> Seq(Names)]
    BY <1>2, <2>1 DEF IpcInv, HostIpcTypeOK
  <2>3. /\ endpoints' \in [Names -> Objects \cup {None}]
        /\ container' \in [Objects -> Containers \cup {None}]
        /\ created' \in 0 .. MaxObjects
    BY <1>2 DEF IpcInv, HostIpcTypeOK, Objects
  <2> QED BY <2>2, <2>3 DEF CreateEndpoint, books, local, IpcInv, HostIpcTypeOK
<1>4. \A c \in Containers : Range(lists[c]) \subseteq Range(lists'[c])
  <2>1. Range(Append(lists[k], n)) = Range(lists[k]) \cup {n}
    BY <1>2, RangeOfAppend
  <2> QED BY <1>2, <2>1 DEF IpcInv, HostIpcTypeOK
<1>5. EndpointIsListed'
  <2> SUFFICES ASSUME NEW m \in Names, endpoints'[m] # None
               PROVE  m \in Range(lists'[container'[endpoints'[m]]])
    BY DEF EndpointIsListed
  <2>1. CASE m = n
    <3>1. container'[endpoints'[m]] = k
      BY <1>2, <2>1 DEF IpcInv, HostIpcTypeOK
    <3>2. n \in Range(Append(lists[k], n))
      BY <1>2, RangeOfAppend
    <3> QED BY <1>2, <2>1, <3>1, <3>2 DEF IpcInv, HostIpcTypeOK
  <2>2. CASE m # n
    <3>1. endpoints'[m] = endpoints[m] /\ endpoints[m] \in Objects /\ endpoints[m] <= created
      BY <1>2, <2>2 DEF IpcInv, HostIpcTypeOK, TableInv
    <3>2. container'[endpoints[m]] = container[endpoints[m]]
      BY <1>2, <3>1, IdFacts DEF IpcInv, HostIpcTypeOK
    <3>3. m \in Range(lists[container[endpoints[m]]]) /\ container[endpoints[m]] \in Containers
      BY <3>1, <2>2 DEF IpcInv, TableInv, EndpointIsListed
    <3> QED BY <1>4, <3>1, <3>2, <3>3
  <2> QED BY <2>1, <2>2
<1>6. TableInv'
  <2>1. \A m \in Names : endpoints'[m] <= created'
    <3>1. \A m \in Names : endpoints[m] \in Nat /\ endpoints[m] <= created
      <4>1. endpoints \in [Names -> Objects \cup {None}] /\ Objects \cup {None} \subseteq Nat
        BY IdFacts DEF IpcInv, HostIpcTypeOK, None
      <4> QED BY <4>1 DEF IpcInv, TableInv
    <3>2. \A m \in Names : endpoints'[m] = IF m = n THEN created + 1 ELSE endpoints[m]
      BY <1>2 DEF IpcInv, HostIpcTypeOK
    <3> QED BY <1>2, <3>1, <3>2
  <2>2. \A o \in Objects : o <= created' => container'[o] \in Containers
    BY <1>2, IdFacts DEF IpcInv, HostIpcTypeOK, TableInv
  <2> QED BY <1>5, <2>1, <2>2 DEF TableInv
<1> QED BY <1>1, <1>3, <1>6 DEF IpcInv

LEMMA CleanupKeepsInv ==
  ASSUME IpcInv, NEW k \in Containers, CleanupContainer(k)
  PROVE  IpcInv'
<1>1. /\ MessagesAreOwn' /\ BooksAreCalls' /\ RepliesKept' /\ FetchIsFired'
  BY ThreadsUntouched DEF CleanupContainer, ThreadsAndBooks
<1>2. HostIpcTypeOK'
  BY DEF CleanupContainer, books, local, IpcInv, HostIpcTypeOK
<1>3. TableInv'
  BY DEF CleanupContainer, IpcInv, HostIpcTypeOK, TableInv, EndpointIsListed, None
<1> QED BY <1>1, <1>2, <1>3 DEF IpcInv

LEMMA BeginKeepsInv ==
  ASSUME IpcInv, NEW t \in Threads, NEW n \in Names, Begin(t, n)
  PROVE  IpcInv'
<1>1. /\ pc[t] = "idle" /\ UNCHANGED <<tables, queue, delivered, books>>
      /\ obj' = [obj EXCEPT ![t] = endpoints[n]] /\ endpoints[n] # None
  BY DEF Begin, BeginSend, BeginReceive, Lookup, Goto
<1>2. PICK to \in {"send", "register", "get"} :
        /\ pc' = [pc EXCEPT ![t] = to]
        /\ \/ to # "get" /\ sent < MaxMessages
              /\ sent' = sent + 1 /\ msg' = [msg EXCEPT ![t] = sent + 1]
           \/ to = "get" /\ UNCHANGED <<sent, msg>>
  BY DEF Begin, BeginSend, BeginReceive, Lookup, Goto
<1>3. HostIpcTypeOK'
  <2>1. /\ pc' \in [Threads -> Pcs] /\ obj' \in [Threads -> Objects \cup {None}]
        /\ UNCHANGED <<endpoints, containerEndpoints, container, created, queue,
                       delivered, pendingCalls, fired, callReplies>>
    BY <1>1, <1>2 DEF IpcInv, HostIpcTypeOK, Pcs, books, tables
  <2>2. /\ sent' \in 0 .. MaxMessages /\ msg' \in [Threads -> Ids \cup {None}]
    <3>1. sent < MaxMessages => sent + 1 \in Ids /\ sent + 1 \in 0 .. MaxMessages
      BY BoundsAssumption DEF IpcInv, HostIpcTypeOK, Ids
    <3> QED BY <1>2, <3>1 DEF IpcInv, HostIpcTypeOK
  <2> QED BY <2>1, <2>2 DEF IpcInv, HostIpcTypeOK
<1>4. MessagesAreOwn'
  BY <1>1, <1>2, IdFacts DEF IpcInv, HostIpcTypeOK, MessagesAreOwn, CallPcs, None, Ids
<1>5. \A u \in Threads : /\ pc'[u] \in CallPcs <=> pc[u] \in CallPcs
                         /\ pc[u] \in CallPcs => msg'[u] = msg[u] /\ pc'[u] = pc[u]
  BY <1>1, <1>2 DEF IpcInv, HostIpcTypeOK, CallPcs
<1>6. BooksAreCalls' /\ RepliesKept' /\ FetchIsFired'
  BY <1>1, <1>5 DEF IpcInv, BooksAreCalls, RepliesKept, FetchIsFired, CallPcs, books
<1> QED BY <1>1, <1>3, <1>4, <1>6, TablesUntouched DEF IpcInv

LEMMA SendReceiveKeepsInv ==
  ASSUME IpcInv, NEW t \in Threads, Send(t) \/ ReceiveTakes(t) \/ ReceiveTimesOut(t)
  PROVE  IpcInv'
<1>1. /\ Return(t, "send") \/ Return(t, "get")
      /\ UNCHANGED <<tables, sent, books>>
  BY DEF Send, ReceiveTakes, ReceiveTimesOut
<1>2. HostIpcTypeOK /\ HostIpcTypeOK => pc[t] \in {"send", "get"}
  BY <1>1 DEF Return, IpcInv
<1>3. /\ pc' \in [Threads -> Pcs] /\ pc'[t] = "idle"
      /\ \A u \in Threads : u # t => pc'[u] = pc[u] /\ msg'[u] = msg[u] /\ obj'[u] = obj[u]
      /\ msg' \in [Threads -> Ids \cup {None}] /\ msg'[t] = None
      /\ obj' \in [Threads -> Objects \cup {None}]
  BY <1>1, ReturnFacts DEF IpcInv
<1>4. queue' \in [Objects -> Seq(Messages)] /\ delivered' \subseteq Ids
  <2>1. CASE Send(t)
    BY <2>1, EnqueueType DEF Send, Return, IpcInv, HostIpcTypeOK
  <2>2. CASE ReceiveTakes(t)
    <3>1. obj[t] \in Objects /\ queue[obj[t]] \in Seq(Messages) /\ queue[obj[t]] # <<>>
      BY <2>2 DEF ReceiveTakes, Return, IpcInv, HostIpcTypeOK, MessagesAreOwn
    <3>2. Head(queue[obj[t]]) \in Messages /\ Tail(queue[obj[t]]) \in Seq(Messages)
      BY <3>1
    <3>3. Head(queue[obj[t]]).id \in Ids
      BY <3>2 DEF Messages
    <3> QED BY <2>2, <3>2, <3>3 DEF ReceiveTakes, IpcInv, HostIpcTypeOK
  <2>3. CASE ReceiveTimesOut(t)
    BY <2>3 DEF ReceiveTimesOut, IpcInv, HostIpcTypeOK
  <2> QED BY <2>1, <2>2, <2>3
<1>5. HostIpcTypeOK'
  BY <1>1, <1>3, <1>4 DEF IpcInv, HostIpcTypeOK, tables, books
<1>6. MessagesAreOwn'
  <2>1. /\ \A u \in Threads : msg'[u] = (IF u = t THEN None ELSE msg[u])
        /\ \A u \in Threads : pc'[u] = (IF u = t THEN "idle" ELSE pc[u])
        /\ \A u \in Threads : u # t => obj'[u] = obj[u]
        /\ sent' = sent /\ None <= sent
    BY <1>1, <1>3, BoundsAssumption DEF IpcInv, HostIpcTypeOK, None
  <2> QED BY <2>1 DEF IpcInv, MessagesAreOwn, CallPcs
<1>7. \A u \in Threads : /\ pc'[u] \in CallPcs <=> pc[u] \in CallPcs
                         /\ pc[u] \in CallPcs => msg'[u] = msg[u] /\ pc'[u] = pc[u]
  BY <1>2, <1>3 DEF IpcInv, CallPcs
<1>8. BooksAreCalls' /\ RepliesKept' /\ FetchIsFired'
  BY <1>1, <1>7 DEF IpcInv, BooksAreCalls, RepliesKept, FetchIsFired, CallPcs, books
<1> QED BY <1>1, <1>5, <1>6, <1>8, TablesUntouched DEF IpcInv
-----------------------------------------------------------------------------
(* Calls.                                                                    *)

\* Steps of a call before its clean-up, the registration apart.
LEMMA CallMovesKeepInv ==
  ASSUME IpcInv, NEW t \in Threads,
         CallSends(t) \/ CallAnswered(t) \/ CallTimesOut(t) \/ CallFetches(t)
  PROVE  IpcInv'
<1>1. PICK to \in {"wait", "cleanup", "fetch"} :
        /\ pc' = [pc EXCEPT ![t] = to] /\ pc[t] \in {"put", "wait", "fetch"}
        /\ to = "wait" => pc[t] = "put"
        /\ to = "fetch" => msg[t] \in fired
  BY DEF CallSends, CallAnswered, CallTimesOut, CallFetches, Goto
<1>2. /\ UNCHANGED <<tables, sent, delivered, pendingCalls, fired, obj, msg>>
      /\ \/ callReplies' = callReplies
         \/ /\ pc'[t] = "cleanup"
            /\ callReplies' = callReplies \ {msg[t]}
  <2>1. CASE CallFetches(t)
    BY <2>1 DEF CallFetches, Goto, IpcInv, HostIpcTypeOK
  <2>2. CASE CallSends(t)
    BY <2>2 DEF CallSends, books
  <2>3. CASE CallAnswered(t)
    BY <2>3 DEF CallAnswered, books
  <2>4. CASE CallTimesOut(t)
    BY <2>4 DEF CallTimesOut, books
  <2> QED BY <2>1, <2>2, <2>3, <2>4
<1>3. queue' \in [Objects -> Seq(Messages)]
  BY EnqueueType DEF CallSends, CallAnswered, CallTimesOut, CallFetches, Goto,
                     IpcInv, HostIpcTypeOK
<1>4. HostIpcTypeOK'
  BY <1>1, <1>2, <1>3 DEF IpcInv, HostIpcTypeOK, tables, Pcs, CallPcs
<1>5. MessagesAreOwn'
  BY <1>1, <1>2 DEF IpcInv, HostIpcTypeOK, MessagesAreOwn, CallPcs
<1>6. BooksAreCalls'
  <2>1. \A u \in Threads : pc'[u] \in CallPcs <=> pc[u] \in CallPcs
    BY <1>1 DEF IpcInv, HostIpcTypeOK, CallPcs
  <2> QED BY <1>2, <2>1 DEF IpcInv, BooksAreCalls
<1>7. RepliesKept' /\ FetchIsFired'
  <2>1. \A u \in Threads : u # t => pc'[u] = pc[u]
    BY <1>1 DEF IpcInv, HostIpcTypeOK
  <2>2. \A u \in Threads : u # t /\ pc[u] \in CallPcs => msg[u] # msg[t]
    BY DEF IpcInv, MessagesAreOwn
  <2>3. pc'[t] = to
    BY <1>1 DEF IpcInv, HostIpcTypeOK
  <2> QED BY <1>1, <1>2, <2>1, <2>2, <2>3 DEF IpcInv, RepliesKept, FetchIsFired, CallPcs
<1> QED BY <1>2, <1>4, <1>5, <1>6, <1>7, TablesUntouched DEF IpcInv

LEMMA RegisterKeepsInv ==
  ASSUME IpcInv, NEW t \in Threads, CallRegisters(t)
  PROVE  IpcInv'
<1>1. /\ pc[t] = "register" /\ pc' = [pc EXCEPT ![t] = "put"]
      /\ pendingCalls' = pendingCalls \cup {msg[t]}
      /\ UNCHANGED <<tables, queue, sent, delivered, fired, callReplies, obj, msg>>
  BY DEF CallRegisters, Goto
<1>2. msg[t] \in Ids
  BY <1>1 DEF IpcInv, HostIpcTypeOK, MessagesAreOwn
<1>3. HostIpcTypeOK'
  BY <1>1, <1>2 DEF IpcInv, HostIpcTypeOK, tables, Pcs, CallPcs
<1>4. MessagesAreOwn'
  BY <1>1 DEF IpcInv, HostIpcTypeOK, MessagesAreOwn, CallPcs
<1>5. \A u \in Threads : pc'[u] \in CallPcs <=> pc[u] \in CallPcs \/ u = t
  BY <1>1 DEF IpcInv, HostIpcTypeOK, CallPcs
<1>6. msg[t] \notin pendingCalls
  BY <1>1, <1>2, IdFacts DEF IpcInv, BooksAreCalls, MessagesAreOwn, CallPcs
<1>7. BooksAreCalls'
  BY <1>1, <1>5 DEF IpcInv, BooksAreCalls
<1>8. RepliesKept' /\ FetchIsFired'
  BY <1>1, <1>6 DEF IpcInv, HostIpcTypeOK, BooksAreCalls, RepliesKept, FetchIsFired
<1> QED BY <1>1, <1>3, <1>4, <1>7, <1>8, TablesUntouched DEF IpcInv

LEMMA CleansUpKeepsInv ==
  ASSUME IpcInv, NEW t \in Threads, CallCleansUp(t)
  PROVE  IpcInv'
<1>1. /\ Return(t, "cleanup") /\ UNCHANGED <<tables, queue, sent, delivered>>
      /\ pendingCalls' = pendingCalls \ {msg[t]}
      /\ fired' = fired \ {msg[t]} /\ callReplies' = callReplies \ {msg[t]}
  BY DEF CallCleansUp, Forget
<1>2. /\ pc' \in [Threads -> Pcs] /\ pc'[t] = "idle" /\ pc[t] = "cleanup"
      /\ \A u \in Threads : u # t => pc'[u] = pc[u] /\ msg'[u] = msg[u] /\ obj'[u] = obj[u]
      /\ msg' \in [Threads -> Ids \cup {None}] /\ msg'[t] = None
      /\ obj' \in [Threads -> Objects \cup {None}]
  BY <1>1, ReturnFacts DEF IpcInv
<1>3. HostIpcTypeOK'
  BY <1>1, <1>2 DEF IpcInv, HostIpcTypeOK, tables
<1>4. MessagesAreOwn'
  <2>1. /\ \A u \in Threads : msg'[u] = (IF u = t THEN None ELSE msg[u])
        /\ \A u \in Threads : pc'[u] = (IF u = t THEN "idle" ELSE pc[u])
        /\ \A u \in Threads : u # t => obj'[u] = obj[u]
        /\ sent' = sent /\ None <= sent
    BY <1>1, <1>2, BoundsAssumption DEF IpcInv, HostIpcTypeOK, None
  <2> QED BY <2>1 DEF IpcInv, MessagesAreOwn, CallPcs
<1>5. \A u \in Threads : u # t /\ pc[u] \in CallPcs => msg[u] # msg[t]
  BY DEF IpcInv, MessagesAreOwn
<1>6. \A u \in Threads : pc'[u] \in CallPcs <=> pc[u] \in CallPcs /\ u # t
  BY <1>2 DEF CallPcs
<1>7. BooksAreCalls'
  <2>1. {msg'[u] : u \in {v \in Threads : pc'[v] \in CallPcs}}
          = {msg[u] : u \in {v \in Threads : pc[v] \in CallPcs}} \ {msg[t]}
    BY <1>2, <1>5, <1>6
  <2> QED BY <1>1, <2>1 DEF IpcInv, BooksAreCalls
<1>8. RepliesKept' /\ FetchIsFired'
  BY <1>1, <1>2, <1>5 DEF IpcInv, RepliesKept, FetchIsFired, CallPcs
<1> QED BY <1>1, <1>3, <1>4, <1>7, <1>8, TablesUntouched DEF IpcInv

LEMMA ReplyKeepsInv ==
  ASSUME IpcInv, NEW i \in Ids, Reply(i)
  PROVE  IpcInv'
<1>1. HostIpcTypeOK'
  BY DEF Reply, tables, local, IpcInv, HostIpcTypeOK
<1>2. MessagesAreOwn' /\ BooksAreCalls' /\ RepliesKept' /\ FetchIsFired'
  BY DEF Reply, local, IpcInv, MessagesAreOwn, BooksAreCalls, RepliesKept, FetchIsFired
<1> QED BY <1>1, <1>2, TablesUntouched DEF Reply, IpcInv

LEMMA IpcStep == IpcInv /\ [Next]_vars => IpcInv'
<1> SUFFICES ASSUME IpcInv, [Next]_vars PROVE IpcInv'
  OBVIOUS
<1>1. CASE UNCHANGED vars
  <2>1. HostIpcTypeOK'
    BY <1>1 DEF vars, tables, books, local, IpcInv, HostIpcTypeOK
  <2> QED BY <1>1, <2>1, ThreadsUntouched, TablesUntouched
          DEF vars, ThreadsAndBooks, IpcInv
<1>2. CASE Next
  BY <1>2, CreateKeepsInv, CleanupKeepsInv, BeginKeepsInv, SendReceiveKeepsInv,
     CallMovesKeepInv, RegisterKeepsInv, CleansUpKeepsInv, ReplyKeepsInv
     DEF Next, Step, Call
<1> QED BY <1>1, <1>2
-----------------------------------------------------------------------------
\* The inductive invariant: the books, the tables and who holds which message
\* (ipc/core.py).
THEOREM IpcInvariant == Spec => []IpcInv
<1> QED BY IpcInit, IpcStep, PTL DEF Spec

\* Tables, queues, books and threads keep their types (ipc/core.py).
THEOREM HostIpcTypes == Spec => []HostIpcTypeOK
<1>1. IpcInv => HostIpcTypeOK
  BY DEF IpcInv
<1> QED BY <1>1, IpcInvariant, PTL

\* pending_calls and call_replies hold the calls under way and nothing else,
\* however many threads call and reply (core.py, call's finally clause).
THEOREM IpcBooksAreCalls == Spec => []BooksAreCalls
<1>1. IpcInv => BooksAreCalls
  BY DEF IpcInv
<1> QED BY <1>1, IpcInvariant, PTL

\* A caller that was woken finds its reply (core.py, call and reply).
THEOREM IpcReplyIsThere == Spec => []ReplyIsThere
<1>1. IpcInv => ReplyIsThere
  BY DEF IpcInv, RepliesKept, FetchIsFired, ReplyIsThere
<1> QED BY <1>1, IpcInvariant, PTL

\* The tables behind call and reply hold what the callers still need (core.py).
THEOREM IpcRepliesReachCallers == Spec => []RepliesReachCallers
<1> QED BY IpcBooksAreCalls, IpcReplyIsThere, PTL DEF RepliesReachCallers

\* No endpoint outlives the clean-up of its container (core.py,
\* create_endpoint and cleanup_container).
THEOREM IpcEndpointIsListed == Spec => []EndpointIsListed
<1>1. IpcInv => EndpointIsListed
  BY DEF IpcInv, TableInv
<1> QED BY <1>1, IpcInvariant, PTL
-----------------------------------------------------------------------------
(* Messages: where one may be, and how often it is handed over.              *)

\* Some thread has made message i and not queued it yet.
Unsent(i) == \E t \in Threads : pc[t] \in {"send", "register", "put"} /\ msg[t] = i

\* Message i lies at place a of the queue of o.
At(i, o, a) == o \in Objects /\ a \in 1 .. Len(queue[o]) /\ queue[o][a].id = i
Queued(i) == \E o \in Objects : \E a \in 1 .. Len(queue[o]) : At(i, o, a)

\* A message is in one place: with its sender, at one place of one queue, or
\* with whoever received it.
OnePlace ==
  /\ \A o, p \in Objects : \A a \in 1 .. Len(queue[o]), b \in 1 .. Len(queue[p]) :
       queue[o][a].id = queue[p][b].id => o = p /\ a = b
  /\ \A i \in Ids : Queued(i) => i <= sent /\ ~ Unsent(i) /\ i \notin delivered
  /\ \A i \in delivered : i <= sent /\ ~ Unsent(i)

\* Message i will not be handed to anybody (any more).
Gone(i) == i <= sent /\ ~ Unsent(i) /\ ~ Queued(i)

\* No thread is at work on message i (any more).
Over(i) == i <= sent /\ \A t \in Threads : msg[t] # i

LEMMA WhereQueued ==
  ASSUME HostIpcTypeOK, NEW o, NEW a, NEW i, At(i, o, a)
  PROVE  i \in Ids /\ o \in Objects /\ a \in 1 .. Len(queue[o]) /\ Queued(i)
<1>1. o \in Objects /\ a \in 1 .. Len(queue[o]) /\ queue[o][a].id = i
  BY DEF At
<1>2. queue[o] \in Seq(Messages)
  BY <1>1 DEF HostIpcTypeOK
<1>3. queue[o][a] \in Messages
  BY <1>1, <1>2
<1> QED BY <1>1, <1>3 DEF Messages, Queued

LEMMA PlacesAre ==
  ASSUME OnePlace
  PROVE  \A i, o, p, a, b : At(i, o, a) /\ At(i, p, b) => o = p /\ a = b
BY DEF OnePlace, At

\* The queues after a step.
LEMMA NextPlaces ==
  ASSUME \A i, o, p, a, b : At(i, o, a)' /\ At(i, p, b)' => o = p /\ a = b,
         \A i \in Ids : Queued(i)' => i <= sent' /\ ~ Unsent(i)' /\ i \notin delivered',
         \A i \in delivered' : i <= sent' /\ ~ Unsent(i)'
  PROVE  OnePlace'
<1>1. \A o, p \in Objects : \A a \in 1 .. Len(queue'[o]), b \in 1 .. Len(queue'[p]) :
        queue'[o][a].id = queue'[p][b].id => o = p /\ a = b
  <2> SUFFICES ASSUME NEW o \in Objects, NEW p \in Objects,
                      NEW a \in 1 .. Len(queue'[o]), NEW b \in 1 .. Len(queue'[p]),
                      NEW i, queue'[o][a].id = i, queue'[p][b].id = i
               PROVE  o = p /\ a = b
    OBVIOUS
  <2>1. At(i, o, a)' /\ At(i, p, b)'
    BY DEF At
  <2> QED BY <2>1
<1> QED BY <1>1 DEF OnePlace

\* Steps that leave the queues alone and make no message.
LEMMA QuietKeepsPlace ==
  ASSUME IpcInv, OnePlace, queue' = queue, delivered' = delivered, sent' = sent,
         \A i \in Ids : Unsent(i)' => Unsent(i)
  PROVE  OnePlace' /\ \A i \in Ids : Gone(i) => Gone(i)'
<1>0. delivered \subseteq Ids
  BY DEF IpcInv, HostIpcTypeOK
<1>1. \A i, o, a : At(i, o, a)' <=> At(i, o, a)
  BY DEF At
<1>2. \A i : Queued(i)' <=> Queued(i)
  BY <1>1 DEF Queued
<1>3. \A i, o, p, a, b : At(i, o, a)' /\ At(i, p, b)' => o = p /\ a = b
  BY <1>1, PlacesAre
<1>4. OnePlace'
  BY <1>0, <1>2, <1>3, NextPlaces DEF OnePlace
<1> QED BY <1>2, <1>4 DEF Gone

\* send and call make a message with a new id.
LEMMA BeginKeepsPlace ==
  ASSUME IpcInv, OnePlace, queue' = queue, delivered' = delivered, sent' = sent + 1,
         \A i \in Ids : Unsent(i)' => Unsent(i) \/ i = sent + 1
  PROVE  OnePlace' /\ \A i \in Ids : Gone(i) => Gone(i)'
<1>0. sent \in Nat /\ Ids \subseteq Nat /\ delivered \subseteq Ids
  BY IdFacts, BoundsAssumption DEF IpcInv, HostIpcTypeOK
<1>1. \A i, o, a : At(i, o, a)' <=> At(i, o, a)
  BY DEF At
<1>2. \A i : Queued(i)' <=> Queued(i)
  BY <1>1 DEF Queued
<1>3. \A i \in Ids : i <= sent => i <= sent' /\ i # sent + 1
  BY <1>0
<1>4. \A i, o, p, a, b : At(i, o, a)' /\ At(i, p, b)' => o = p /\ a = b
  BY <1>1, PlacesAre
<1>5. OnePlace'
  BY <1>0, <1>2, <1>3, <1>4, NextPlaces DEF OnePlace
<1> QED BY <1>2, <1>3, <1>5 DEF Gone

\* send_message puts the message at the end of one queue.
LEMMA EnqueueAt ==
  ASSUME IpcInv, NEW t \in Threads, NEW kind \in {"send", "call"}, Enqueue(t, kind),
         pc[t] \in {"send", "put"}
  PROVE  \A i, o, a : At(i, o, a)' <=>
            At(i, o, a) \/ (i = msg[t] /\ o = obj[t] /\ a = Len(queue[o]) + 1)
<1>1. obj[t] \in Objects /\ msg[t] \in Ids
  BY DEF IpcInv, HostIpcTypeOK, MessagesAreOwn, CallPcs
<1> DEFINE m == [id |-> msg[t], kind |-> kind]
<1>2. m \in Messages /\ m.id = msg[t]
  BY <1>1 DEF Messages
<1>3. queue' = [queue EXCEPT ![obj[t]] = Append(queue[obj[t]], m)]
  BY DEF Enqueue
<1> HIDE DEF m
<1>4. \A o \in Objects : queue[o] \in Seq(Messages) /\ Len(queue[o]) \in Nat
  BY DEF IpcInv, HostIpcTypeOK
<1>5. \A o \in Objects : queue'[o] = IF o = obj[t] THEN Append(queue[o], m) ELSE queue[o]
  BY <1>3 DEF IpcInv, HostIpcTypeOK
<1>6. LET q == queue[obj[t]] IN
      /\ Len(Append(q, m)) = Len(q) + 1 /\ Append(q, m)[Len(q) + 1] = m
      /\ \A a \in 1 .. Len(q) : Append(q, m)[a] = q[a]
  BY <1>1, <1>2, <1>4
<1>7. ASSUME NEW i, NEW o, NEW a, o = obj[t]
      PROVE  At(i, o, a)' <=> At(i, o, a) \/ (i = msg[t] /\ a = Len(queue[o]) + 1)
  <2> DEFINE q == queue[o]
             n == Len(q)
             r == Append(q, m)
  <2>1. o \in Objects /\ n \in Nat /\ queue'[o] = r
    BY <1>1, <1>4, <1>5, <1>7
  <2>2. Len(r) = n + 1 /\ r[n + 1].id = msg[t] /\ \A b \in 1 .. n : r[b] = q[b]
    BY <1>2, <1>6, <1>7
  <2>3. /\ At(i, o, a) <=> a \in 1 .. n /\ q[a].id = i
        /\ At(i, o, a)' <=> a \in 1 .. Len(r) /\ r[a].id = i
    BY <2>1 DEF At
  <2> HIDE DEF q, n, r
  <2>4. a \in 1 .. n + 1 <=> a \in 1 .. n \/ a = n + 1
    BY <2>1
  <2>5. n + 1 \notin 1 .. n
    BY <2>1
  <2>6. At(i, o, a)' <=> At(i, o, a) \/ (i = msg[t] /\ a = n + 1)
    BY <2>2, <2>3, <2>4, <2>5
  <2> QED BY <2>6 DEF n, q
<1>8. ASSUME NEW i, NEW o, NEW a, o # obj[t]
      PROVE  At(i, o, a)' <=> At(i, o, a)
  BY <1>5, <1>8 DEF At
<1> QED BY <1>1, <1>7, <1>8

LEMMA EnqueueKeepsPlace ==
  ASSUME IpcInv, OnePlace, NEW t \in Threads, NEW kind \in {"send", "call"},
         Enqueue(t, kind), pc[t] \in {"send", "put"}, delivered' = delivered, sent' = sent,
         \A i \in Ids : Unsent(i)' => Unsent(i) /\ i # msg[t]
  PROVE  OnePlace' /\ \A i \in Ids : Gone(i) => Gone(i)'
<1>0. msg[t] \in Ids /\ msg[t] <= sent /\ delivered \subseteq Ids /\ HostIpcTypeOK
  BY DEF IpcInv, HostIpcTypeOK, MessagesAreOwn, CallPcs
<1>1. Unsent(msg[t])
  BY DEF Unsent
<1>2. ~ Queued(msg[t]) /\ msg[t] \notin delivered
  BY <1>0, <1>1 DEF OnePlace
<1>3. \A i, o, a : At(i, o, a)' <=>
            At(i, o, a) \/ (i = msg[t] /\ o = obj[t] /\ a = Len(queue[o]) + 1)
  BY EnqueueAt
<1>4. \A i : Queued(i)' => Queued(i) \/ i = msg[t]
  <2> SUFFICES ASSUME NEW i, Queued(i)' PROVE Queued(i) \/ i = msg[t]
    OBVIOUS
  <2>1. \E o, a : At(i, o, a)'
    BY DEF Queued
  <2>2. PICK o, a : At(i, o, a) \/ i = msg[t]
    BY <1>3, <2>1
  <2> QED BY <1>0, <2>2, WhereQueued
<1>5. ASSUME NEW i, NEW o, NEW p, NEW a, NEW b, At(i, o, a)', At(i, p, b)'
      PROVE  o = p /\ a = b
  <2>1. CASE i = msg[t]
    <3>1. \A c, d : ~ At(i, c, d)
      BY <1>0, <1>2, <2>1, WhereQueued
    <3> QED BY <1>3, <1>5, <3>1
  <2>2. CASE i # msg[t]
    <3>1. At(i, o, a) /\ At(i, p, b)
      BY <1>3, <1>5, <2>2
    <3> QED BY <3>1, PlacesAre
  <2> QED BY <2>1, <2>2
<1>6. \A i \in Ids : Queued(i)' => i <= sent' /\ ~ Unsent(i)' /\ i \notin delivered'
  BY <1>0, <1>2, <1>4 DEF OnePlace
<1>7. \A i \in delivered' : i <= sent' /\ ~ Unsent(i)'
  BY <1>0 DEF OnePlace
<1>8. \A i \in Ids : Gone(i) => Gone(i)'
  BY <1>1, <1>4 DEF Gone
<1> QED BY <1>5, <1>6, <1>7, <1>8, NextPlaces

\* receive takes the message at the head of one queue.
LEMMA TakeAt ==
  ASSUME IpcInv, NEW t \in Threads, ReceiveTakes(t)
  PROVE  /\ \A i, o, a : At(i, o, a)' <=>
              IF o = obj[t] THEN a \in Nat \ {0} /\ At(i, o, a + 1) ELSE At(i, o, a)
         /\ At(Head(queue[obj[t]]).id, obj[t], 1)
<1>1. /\ obj[t] \in Objects /\ queue[obj[t]] # <<>>
      /\ queue' = [queue EXCEPT ![obj[t]] = Tail(queue[obj[t]])]
  BY DEF ReceiveTakes, Return, IpcInv, HostIpcTypeOK, MessagesAreOwn
<1>2. \A o \in Objects : queue[o] \in Seq(Messages) /\ Len(queue[o]) \in Nat
  BY DEF IpcInv, HostIpcTypeOK
<1>3. \A o \in Objects : queue'[o] = IF o = obj[t] THEN Tail(queue[o]) ELSE queue[o]
  BY <1>1 DEF IpcInv, HostIpcTypeOK
<1>4. LET q == queue[obj[t]] IN
      /\ Len(Tail(q)) = Len(q) - 1 /\ Len(q) \in Nat \ {0} /\ Head(q) = q[1]
      /\ \A a \in 1 .. Len(q) - 1 : Tail(q)[a] = q[a + 1]
  BY <1>1, <1>2
<1>5. ASSUME NEW i, NEW o, NEW a, o = obj[t]
      PROVE  At(i, o, a)' <=> a \in Nat \ {0} /\ At(i, o, a + 1)
  <2> DEFINE q == queue[o]
             n == Len(q)
             r == Tail(q)
  <2>1. o \in Objects /\ n \in Nat \ {0} /\ queue'[o] = r /\ Len(r) = n - 1
    BY <1>1, <1>3, <1>4, <1>5
  <2>2. \A b \in 1 .. n - 1 : r[b] = q[b + 1]
    BY <1>4, <1>5
  <2>3. /\ At(i, o, a)' <=> a \in 1 .. Len(r) /\ r[a].id = i
        /\ At(i, o, a + 1) <=> a + 1 \in 1 .. n /\ q[a + 1].id = i
    BY <2>1 DEF At
  <2> HIDE DEF q, n, r
  <2>4. a \in 1 .. n - 1 <=> a \in Nat \ {0} /\ a + 1 \in 1 .. n
    BY <2>1
  <2> QED BY <2>1, <2>2, <2>3, <2>4
<1>6. ASSUME NEW i, NEW o, NEW a, o # obj[t]
      PROVE  At(i, o, a)' <=> At(i, o, a)
  BY <1>3, <1>6 DEF At
<1>7. At(Head(queue[obj[t]]).id, obj[t], 1)
  BY <1>1, <1>4 DEF At
<1> QED BY <1>5, <1>6, <1>7

LEMMA TakeKeepsPlace ==
  ASSUME IpcInv, OnePlace, NEW t \in Threads, ReceiveTakes(t)
  PROVE  OnePlace' /\ \A i \in Ids : Gone(i) => Gone(i)'
<1> DEFINE e == obj[t]
           head == Head(queue[e]).id
<1>0. HostIpcTypeOK /\ delivered \subseteq Ids /\ sent' = sent
  BY DEF IpcInv, HostIpcTypeOK, ReceiveTakes
<1>1. /\ At(head, e, 1)
      /\ \A i, o, a : At(i, o, a)' => IF o = e THEN a \in Nat \ {0} /\ At(i, o, a + 1)
                                               ELSE At(i, o, a)
  BY TakeAt
<1>2. head \in Ids /\ Queued(head)
  BY <1>0, <1>1, WhereQueued
<1>3. delivered' = delivered \/ delivered' = delivered \cup {head}
  BY DEF ReceiveTakes
<1>4. ASSUME NEW i \in Ids PROVE Unsent(i)' <=> Unsent(i)
  <2>1. /\ pc[t] = "get" /\ pc'[t] = "idle"
        /\ \A u \in Threads : u # t => pc'[u] = pc[u] /\ msg'[u] = msg[u]
    BY ReturnFacts DEF ReceiveTakes, IpcInv
  <2> QED BY <2>1 DEF Unsent
<1> HIDE DEF e, head
<1>5. ASSUME NEW i, NEW o, NEW a, At(i, o, a)'
      PROVE  i \in Ids /\ Queued(i) /\ i # head
  <2>1. CASE o = e
    <3>1. a \in Nat \ {0} /\ At(i, e, a + 1)
      BY <1>1, <1>5, <2>1
    <3>2. a + 1 # 1
      BY <3>1
    <3>3. i # head
      BY <1>1, <3>1, <3>2, PlacesAre
    <3> QED BY <1>0, <3>1, <3>3, WhereQueued
  <2>2. CASE o # e
    <3>1. At(i, o, a)
      BY <1>1, <1>5, <2>2
    <3>2. i # head
      BY <1>1, <2>2, <3>1, PlacesAre
    <3> QED BY <1>0, <3>1, <3>2, WhereQueued
  <2> QED BY <2>1, <2>2
<1>6. \A i : Queued(i)' => i \in Ids /\ Queued(i) /\ i # head
  <2> SUFFICES ASSUME NEW i, Queued(i)' PROVE i \in Ids /\ Queued(i) /\ i # head
    OBVIOUS
  <2>1. \E o, a : At(i, o, a)'
    BY DEF Queued
  <2> QED BY <1>5, <2>1
<1>7. ASSUME NEW i, NEW o, NEW p, NEW a, NEW b, At(i, o, a)', At(i, p, b)'
      PROVE  o = p /\ a = b
  <2>1. CASE o = e /\ p = e
    <3>1. /\ a \in Nat \ {0} /\ At(i, e, a + 1)
          /\ b \in Nat \ {0} /\ At(i, e, b + 1)
      BY <1>1, <1>7, <2>1
    <3>2. a + 1 = b + 1
      BY <3>1, PlacesAre
    <3>3. a = b
      BY <3>1, <3>2
    <3> QED BY <2>1, <3>3
  <2>2. CASE o = e /\ p # e
    <3>1. At(i, e, a + 1) /\ At(i, p, b)
      BY <1>1, <1>7, <2>2
    <3> QED BY <2>2, <3>1, PlacesAre
  <2>3. CASE o # e /\ p = e
    <3>1. At(i, o, a) /\ At(i, e, b + 1)
      BY <1>1, <1>7, <2>3
    <3> QED BY <2>3, <3>1, PlacesAre
  <2>4. CASE o # e /\ p # e
    <3>1. At(i, o, a) /\ At(i, p, b)
      BY <1>1, <1>7, <2>4
    <3> QED BY <3>1, PlacesAre
  <2> QED BY <2>1, <2>2, <2>3, <2>4
<1>8. \A i \in Ids : Queued(i)' => i <= sent' /\ ~ Unsent(i)' /\ i \notin delivered'
  BY <1>0, <1>3, <1>4, <1>6 DEF OnePlace
<1>9. \A i \in delivered' : i <= sent' /\ ~ Unsent(i)'
  BY <1>0, <1>2, <1>3, <1>4 DEF OnePlace
<1>10. OnePlace'
  BY <1>7, <1>8, <1>9, NextPlaces
<1>11. \A i \in Ids : Gone(i) => Gone(i)'
  BY <1>0, <1>4, <1>6 DEF Gone
<1> QED BY <1>10, <1>11

\* Every step of the manager keeps a message in one place, and never brings
\* back one that was taken or refused.
LEMMA PlaceStep ==
  ASSUME IpcInv, OnePlace, [Next]_vars
  PROVE  OnePlace' /\ \A i \in Ids : Gone(i) => Gone(i)'
<1>0. HostIpcTypeOK
  BY DEF IpcInv
<1>1. CASE \/ UNCHANGED vars
           \/ \E k \in Containers : CleanupContainer(k) \/ \E n \in Names : CreateEndpoint(k, n)
           \/ \E i \in Ids : Reply(i)
  <2>1. UNCHANGED <<queue, sent, delivered, pc, msg>>
    BY <1>1 DEF vars, local, CleanupContainer, CreateEndpoint, Reply
  <2>2. \A i \in Ids : Unsent(i)' <=> Unsent(i)
    BY <2>1 DEF Unsent
  <2> QED BY <2>1, <2>2, QuietKeepsPlace
<1>2. ASSUME NEW t \in Threads, NEW n \in Names, Begin(t, n)
      PROVE  OnePlace' /\ \A i \in Ids : Gone(i) => Gone(i)'
  <2>1. pc[t] = "idle" /\ queue' = queue /\ delivered' = delivered
    BY <1>2 DEF Begin, BeginSend, BeginReceive, Lookup, Goto
  <2>2. \/ sent' = sent /\ msg' = msg /\ pc' = [pc EXCEPT ![t] = "get"]
        \/ /\ sent' = sent + 1 /\ msg' = [msg EXCEPT ![t] = sent + 1]
           /\ \A u \in Threads : u # t => pc'[u] = pc[u]
    BY <1>0, <1>2 DEF Begin, BeginSend, BeginReceive, Lookup, Goto, HostIpcTypeOK
  <2>3. CASE sent' = sent /\ msg' = msg /\ pc' = [pc EXCEPT ![t] = "get"]
    <3>1. \A i \in Ids : Unsent(i)' => Unsent(i)
      BY <1>0, <2>1, <2>3 DEF Unsent, HostIpcTypeOK
    <3> QED BY <2>1, <2>3, <3>1, QuietKeepsPlace
  <2>4. CASE /\ sent' = sent + 1 /\ msg' = [msg EXCEPT ![t] = sent + 1]
             /\ \A u \in Threads : u # t => pc'[u] = pc[u]
    <3>1. \A u \in Threads : msg'[u] = IF u = t THEN sent + 1 ELSE msg[u]
      BY <1>0, <2>4 DEF HostIpcTypeOK
    <3>2. \A i \in Ids : Unsent(i)' => Unsent(i) \/ i = sent + 1
      BY <2>4, <3>1 DEF Unsent
    <3> QED BY <2>1, <2>4, <3>2, BeginKeepsPlace
  <2> QED BY <2>2, <2>3, <2>4
<1>3. ASSUME NEW t \in Threads, NEW kind \in {"send", "call"}, Enqueue(t, kind),
             pc[t] \in {"send", "put"}, delivered' = delivered, sent' = sent,
             pc'[t] \notin {"send", "register", "put"},
             \A u \in Threads : u # t => pc'[u] = pc[u] /\ msg'[u] = msg[u]
      PROVE  OnePlace' /\ \A i \in Ids : Gone(i) => Gone(i)'
  <2>1. \A u \in Threads : u # t => msg[u] # msg[t]
    BY <1>3 DEF IpcInv, MessagesAreOwn, CallPcs
  <2>2. \A i \in Ids : Unsent(i)' => Unsent(i) /\ i # msg[t]
    BY <1>3, <2>1 DEF Unsent
  <2> QED BY <1>3, <2>2, EnqueueKeepsPlace
<1>4. ASSUME NEW t \in Threads, queue' = queue, delivered' = delivered, sent' = sent,
             pc'[t] \in {"send", "register", "put"} =>
                pc[t] \in {"send", "register", "put"} /\ msg'[t] = msg[t],
             \A u \in Threads : u # t => pc'[u] = pc[u] /\ msg'[u] = msg[u]
      PROVE  OnePlace' /\ \A i \in Ids : Gone(i) => Gone(i)'
  <2>1. \A i \in Ids : Unsent(i)' => Unsent(i)
    BY <1>4 DEF Unsent
  <2> QED BY <1>4, <2>1, QuietKeepsPlace
<1>5. ASSUME NEW t \in Threads, Send(t)
      PROVE  OnePlace' /\ \A i \in Ids : Gone(i) => Gone(i)'
  <2>1. /\ pc[t] = "send" /\ pc'[t] = "idle" /\ sent' = sent /\ delivered' = delivered
        /\ \A u \in Threads : u # t => pc'[u] = pc[u] /\ msg'[u] = msg[u]
    BY <1>0, <1>5, ReturnFacts DEF Send
  <2>2. Enqueue(t, "send") \/ queue' = queue
    BY <1>5 DEF Send
  <2> QED BY <1>3, <1>4, <2>1, <2>2
<1>6. ASSUME NEW t \in Threads, CallSends(t)
      PROVE  OnePlace' /\ \A i \in Ids : Gone(i) => Gone(i)'
  <2>1. /\ sent' = sent /\ delivered' = delivered /\ msg' = msg
        /\ Goto(t, "put", "wait") \/ Goto(t, "put", "cleanup")
        /\ Enqueue(t, "call") \/ queue' = queue
    BY <1>6 DEF CallSends
  <2>2. /\ pc[t] = "put" /\ pc'[t] \notin {"send", "register", "put"}
        /\ \A u \in Threads : u # t => pc'[u] = pc[u]
    BY <1>0, <2>1 DEF Goto, HostIpcTypeOK
  <2> QED BY <1>3, <1>4, <2>1, <2>2
<1>7. ASSUME NEW t \in Threads, CallRegisters(t) \/ CallAnswered(t) \/ CallTimesOut(t)
                                  \/ CallFetches(t)
      PROVE  OnePlace' /\ \A i \in Ids : Gone(i) => Gone(i)'
  <2>1. /\ queue' = queue /\ sent' = sent /\ delivered' = delivered /\ msg' = msg
        /\ \/ pc[t] = "register" /\ pc' = [pc EXCEPT ![t] = "put"]
           \/ pc' = [pc EXCEPT ![t] = "fetch"]
           \/ pc' = [pc EXCEPT ![t] = "cleanup"]
    BY <1>7 DEF CallRegisters, CallAnswered, CallTimesOut, CallFetches, Goto
  <2>2. /\ \A u \in Threads : u # t => pc'[u] = pc[u]
        /\ pc'[t] \in {"send", "register", "put"} => pc[t] = "register"
    BY <1>0, <2>1 DEF HostIpcTypeOK
  <2> QED BY <1>4, <2>1, <2>2
<1>8. ASSUME NEW t \in Threads, CallCleansUp(t) \/ ReceiveTimesOut(t)
      PROVE  OnePlace' /\ \A i \in Ids : Gone(i) => Gone(i)'
  <2>1. /\ pc'[t] = "idle" /\ sent' = sent /\ delivered' = delivered /\ queue' = queue
        /\ \A u \in Threads : u # t => pc'[u] = pc[u] /\ msg'[u] = msg[u]
    BY <1>0, <1>8, ReturnFacts DEF CallCleansUp, ReceiveTimesOut
  <2> QED BY <1>4, <2>1
<1> QED BY <1>1, <1>2, <1>5, <1>6, <1>7, <1>8, TakeKeepsPlace DEF Next, Step, Call

LEMMA PlaceInit == Init => OnePlace
<1> SUFFICES ASSUME Init PROVE OnePlace
  OBVIOUS
<1>1. \A o \in Objects : Len(queue[o]) = 0
  BY DEF Init
<1>2. \A i : ~ Queued(i)
  BY <1>1 DEF Queued, At
<1> QED BY <1>1, <1>2 DEF OnePlace, Init

\* However threads send, call and receive at once and endpoints change hands, a
\* message that is with its sender or its receiver lies in no queue, and one
\* that is queued lies in one place (core.py, send_message and
\* receive_message).
THEOREM IpcMessagesHaveOnePlace == Spec => []OnePlace
<1>1. IpcInv /\ OnePlace /\ [Next]_vars => OnePlace'
  BY PlaceStep
<1> QED BY <1>1, PlaceInit, IpcInvariant, PTL DEF Spec

\* A message that has been handed over, or refused, is never handed over again:
\* at most once, for sends and calls alike.
THEOREM IpcNeverHandsOverTwice ==
  Spec => [][\A i \in Ids : Gone(i) => Gone(i)']_vars
<1>1. IpcInv /\ OnePlace /\ [Next]_vars
        => [\A i \in Ids : Gone(i) => Gone(i)']_vars
  BY PlaceStep
<1> QED BY <1>1, IpcMessagesHaveOnePlace, IpcInvariant, PTL DEF Spec

\* A call that is over stays over: no reply that comes late, and no later call,
\* brings its id back into pending_calls or call_replies (core.py, reply's test
\* of pending_calls and call's finally clause).
THEOREM IpcCallsEndForGood ==
  Spec => [][\A i \in Ids : Over(i) =>
               Over(i)' /\ i \notin pendingCalls' \cup fired' \cup callReplies']_vars
<1>1. ASSUME IpcInv, [Next]_vars, NEW i \in Ids, Over(i) PROVE Over(i)'
  <2>0. sent \in Nat /\ i \in Nat /\ i # None /\ i <= sent
    BY <1>1, BoundsAssumption DEF IpcInv, HostIpcTypeOK, Over, Ids, None
  <2>1. ASSUME sent' = sent, msg' = msg PROVE Over(i)'
    BY <1>1, <2>1 DEF Over
  <2>2. ASSUME NEW t \in Threads, NEW from, Return(t, from), sent' = sent PROVE Over(i)'
    <3>1. msg'[t] = None /\ \A u \in Threads : u # t => msg'[u] = msg[u]
      BY <1>1, <2>2, ReturnFacts DEF IpcInv
    <3> QED BY <1>1, <2>0, <2>2, <3>1 DEF Over
  <2>3. ASSUME NEW t \in Threads, NEW n \in Names, Begin(t, n) PROVE Over(i)'
    <3>1. \/ sent' = sent /\ msg' = msg
          \/ sent' = sent + 1 /\ msg' = [msg EXCEPT ![t] = sent + 1]
      BY <2>3 DEF Begin, BeginSend, BeginReceive
    <3>2. i <= sent + 1 /\ i # sent + 1
      BY <2>0
    <3>3. CASE sent' = sent + 1 /\ msg' = [msg EXCEPT ![t] = sent + 1]
      BY <1>1, <3>2, <3>3 DEF Over, IpcInv, HostIpcTypeOK
    <3> QED BY <2>1, <3>1, <3>3
  <2>4. ASSUME NEW t \in Threads, Step(t) PROVE Over(i)'
    BY <2>1, <2>2, <2>4 DEF Step, Send, ReceiveTakes, ReceiveTimesOut, Call, CallRegisters,
       CallSends, CallAnswered, CallTimesOut, CallFetches, CallCleansUp, books
  <2>5. CASE \/ UNCHANGED vars \/ \E j \in Ids : Reply(j)
             \/ \E k \in Containers : CleanupContainer(k) \/ \E n \in Names : CreateEndpoint(k, n)
    BY <2>1, <2>5 DEF vars, local, Reply, CleanupContainer, CreateEndpoint
  <2> QED BY <1>1, <2>3, <2>4, <2>5 DEF Next
<1>2. ASSUME IpcInv', NEW i \in Ids, Over(i)'
      PROVE  i \notin pendingCalls' \cup fired' \cup callReplies'
  BY <1>2 DEF IpcInv, BooksAreCalls, Over
<1>3. IpcInv /\ IpcInv' /\ [Next]_vars
        => [\A i \in Ids : Over(i) =>
              Over(i)' /\ i \notin pendingCalls' \cup fired' \cup callReplies']_vars
  BY <1>1, <1>2
<1> QED BY <1>3, IpcInvariant, PTL DEF Spec
=============================================================================
