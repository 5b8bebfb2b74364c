------------------------------ MODULE CapSystem ------------------------------
(***************************************************************************)
(* Capability-checked sending in NyKernel,                                 *)
(* nykernel/src/experimental/caps.rs: per-holder capability tables,        *)
(* endpoints with a generation and a bounded queue, transfer of attenuated *)
(* capabilities in messages, revocation by generation.                     *)
(*                                                                         *)
(* Every operation runs with interrupts off: one call is one step.  Calls  *)
(* that return an error change nothing and are stuttering steps, with one  *)
(* exception (CreateEndpoint).  Payload bytes are left out: an oversized   *)
(* payload is a refusal like any other.                                    *)
(***************************************************************************)
EXTENDS Integers, Sequences

CONSTANTS
  Holder,          \* the task ids that holders are created for
  MaxEndpoints,    \* bound: how many endpoints are ever created
  MaxGeneration,   \* bound: how often one endpoint is revoked (below 2^32)
  TableSize,       \* CAP_TABLE_SIZE
  QueueCapacity,   \* QUEUE_CAPACITY
  Want,            \* the rights masks that callers ask for
  Bootstrap,       \* <<holder, endpoint>>: the kernel's own bootstrap grants
  None             \* an empty slot, no transfer, no owner yet

Right == {"SEND", "GRANT"}

EndpointId == 0 .. MaxEndpoints - 1
Slot == 0 .. TableSize - 1

Capability ==
  [endpoint : EndpointId, generation : 0 .. MaxGeneration, rights : SUBSET Right]

\* The transfer argument of send: a handle of the sender's and a rights mask.
Transfer == {None} \cup [handle : Slot, want : Want]

\* via: history, the generation of the capability the message was sent through.
Queued ==
  [sender : Holder, moved : Capability \cup {None}, via : 0 .. MaxGeneration]

ASSUME CapAssumption ==
  /\ MaxEndpoints \in Nat /\ MaxGeneration \in Nat
  /\ TableSize \in Nat \ {0} /\ QueueCapacity \in Nat \ {0}
  /\ None \notin Holder
  /\ None \notin Capability
  /\ None \notin [handle : Slot, want : Want]

VARIABLES
  live,         \* the holders with alive = true
  caps,         \* Holder.caps
  endpoints,    \* endpoints.len()
  owner,        \* Endpoint.owner
  generation,   \* Endpoint.generation
  alive,        \* the endpoints with alive = true
  queue         \* Endpoint.queue

endpointVars == <<endpoints, owner, generation, alive, queue>>
capVars == <<live, caps, endpointVars>>

----------------------------------------------------------------------------
FreeSlots(p) == { s \in Slot : caps[p][s] = None }

Install(p, cap) ==
  LET slot == CHOOSE s \in FreeSlots(p) : \A r \in FreeSlots(p) : s <= r
  IN  /\ FreeSlots(p) # {}
      /\ caps' = [caps EXCEPT ![p][slot] = cap]

Lookup(p, h) == IF p \in live THEN caps[p][h] ELSE None

\* Padding up to the id makes dead holders; a dead holder gets a fresh table.
CreateProcess(p) ==
  /\ p \notin live
  /\ live' = live \cup {p}
  /\ caps' = [caps EXCEPT ![p] = [s \in Slot |-> None]]
  /\ UNCHANGED endpointVars

\* The table of the dead holder stays where it is, out of reach.
TerminateProcess(p) ==
  LET own == { x \in EndpointId : x < endpoints /\ owner[x] = p }
  IN  /\ p \in live
      /\ live' = live \ {p}
      /\ alive' = alive \ own
      /\ queue' = [x \in EndpointId |-> IF x \in own THEN <<>> ELSE queue[x]]
      /\ UNCHANGED <<caps, endpoints, owner, generation>>

\* The endpoint is pushed before its capability finds a slot: with a full table
\* the call fails and leaves an endpoint that is alive.
CreateEndpoint(p) ==
  /\ p \in live
  /\ endpoints < MaxEndpoints
  /\ endpoints' = endpoints + 1
  /\ owner' = [owner EXCEPT ![endpoints] = p]
  /\ alive' = alive \cup {endpoints}
  /\ \/ Install(p, [endpoint |-> endpoints, generation |-> 0, rights |-> Right])
     \/ FreeSlots(p) = {} /\ UNCHANGED caps
  /\ UNCHANGED <<live, generation, queue>>

\* Mutant of Revoke: the queue keeps what was sent before.
RevokeKeepingQueue(p, ep) ==
  /\ ep < endpoints
  /\ owner[ep] = p
  /\ generation[ep] < MaxGeneration
  /\ generation' = [generation EXCEPT ![ep] = @ + 1]
  /\ UNCHANGED <<live, caps, endpoints, owner, alive, queue>>

\* Owner-only, whether or not the endpoint or the owner is alive.
Revoke(p, ep) ==
  /\ ep < endpoints
  /\ owner[ep] = p
  /\ generation[ep] < MaxGeneration
  /\ generation' = [generation EXCEPT ![ep] = @ + 1]
  /\ queue' = [queue EXCEPT ![ep] = <<>>]
  /\ UNCHANGED <<live, caps, endpoints, owner, alive>>

\* Bits outside the rights are masked off.
Issued(ep, want) ==
  [endpoint |-> ep, generation |-> generation[ep], rights |-> want \cap Right]

Mint(p, ep, want) ==
  /\ ep < endpoints
  /\ owner[ep] = p
  /\ ep \in alive
  /\ p \in live
  /\ Install(p, Issued(ep, want))
  /\ UNCHANGED <<live, endpointVars>>

\* Kernel-only; the one issue that does not look at the endpoint's `alive`.
BootstrapGrant(p, ep, want) ==
  /\ <<p, ep>> \in Bootstrap
  /\ ep < endpoints
  /\ p \in live
  /\ Install(p, Issued(ep, want))
  /\ UNCHANGED <<live, endpointVars>>

----------------------------------------------------------------------------
(* send and receive.                                                         *)

\* Mutant of TransferAllowed: the GRANT right is not asked for.
TransferWithoutGrant(p, transfer) ==
  transfer # None =>
    LET held == Lookup(p, transfer.handle)
    IN  /\ held # None
        /\ transfer.want \subseteq held.rights
        /\ held.generation = generation[held.endpoint]

\* The transfer is judged before any queue is looked at.
TransferAllowed(p, transfer) ==
  transfer # None =>
    LET held == Lookup(p, transfer.handle)
    IN  /\ held # None
        /\ "GRANT" \in held.rights
        /\ transfer.want \subseteq held.rights
        /\ held.generation = generation[held.endpoint]

Moved(p, transfer) ==
  IF transfer = None THEN None
  ELSE [Lookup(p, transfer.handle) EXCEPT !.rights = transfer.want]

\* Mutant of Send: one message above the capacity.
SendOverfull(p, h, transfer) ==
  LET cap == Lookup(p, h)
      e   == cap.endpoint
  IN  /\ cap # None
      /\ TransferAllowed(p, transfer)
      /\ e \in alive
      /\ generation[e] = cap.generation
      /\ Len(queue[e]) <= QueueCapacity
      /\ queue' = [queue EXCEPT ![e] = Append(@,
                     [sender |-> p, moved |-> Moved(p, transfer),
                      via |-> cap.generation])]
      /\ UNCHANGED <<live, caps, endpoints, owner, generation, alive>>

\* No conjunct about the SEND right: the code has no such check.
Send(p, h, transfer) ==
  LET cap == Lookup(p, h)
      e   == cap.endpoint
  IN  /\ cap # None
      /\ TransferAllowed(p, transfer)
      /\ e \in alive
      /\ generation[e] = cap.generation
      /\ Len(queue[e]) < QueueCapacity
      /\ queue' = [queue EXCEPT ![e] = Append(@,
                     [sender |-> p, moved |-> Moved(p, transfer),
                      via |-> cap.generation])]
      /\ UNCHANGED <<live, caps, endpoints, owner, generation, alive>>

\* Mutant of Receive: with a full table the message is consumed all the same.
ReceiveDropping(p, ep) ==
  /\ ep < endpoints
  /\ owner[ep] = p
  /\ ep \in alive
  /\ p \in live
  /\ queue[ep] # <<>>
  /\ IF Head(queue[ep]).moved = None \/ FreeSlots(p) = {}
     THEN UNCHANGED caps
     ELSE Install(p, Head(queue[ep]).moved)
  /\ queue' = [queue EXCEPT ![ep] = Tail(@)]
  /\ UNCHANGED <<live, endpoints, owner, generation, alive>>

\* The message is consumed only if its capability finds a slot.
Receive(p, ep) ==
  /\ ep < endpoints
  /\ owner[ep] = p
  /\ ep \in alive
  /\ p \in live
  /\ queue[ep] # <<>>
  /\ IF Head(queue[ep]).moved = None
     THEN UNCHANGED caps
     ELSE Install(p, Head(queue[ep]).moved)
  /\ queue' = [queue EXCEPT ![ep] = Tail(@)]
  /\ UNCHANGED <<live, endpoints, owner, generation, alive>>

----------------------------------------------------------------------------
CapInit ==
  /\ live = {}
  /\ caps = [p \in Holder |-> [s \in Slot |-> None]]
  /\ endpoints = 0
  /\ owner = [x \in EndpointId |-> None]
  /\ generation = [x \in EndpointId |-> 0]
  /\ alive = {}
  /\ queue = [x \in EndpointId |-> <<>>]

CapNext ==
  \/ \E p \in Holder : CreateProcess(p)
  \/ \E p \in Holder : TerminateProcess(p)
  \/ \E p \in Holder : CreateEndpoint(p)
  \/ \E p \in Holder, ep \in EndpointId : Revoke(p, ep)
  \/ \E p \in Holder, ep \in EndpointId, want \in Want : Mint(p, ep, want)
  \/ \E p \in Holder, ep \in EndpointId, want \in Want : BootstrapGrant(p, ep, want)
  \/ \E p \in Holder, h \in Slot, transfer \in Transfer : Send(p, h, transfer)
  \/ \E p \in Holder, ep \in EndpointId : Receive(p, ep)

CapSpec == CapInit /\ [][CapNext]_capVars

----------------------------------------------------------------------------
(* Properties.                                                               *)

\* Every variable stays in its range, no queue is longer than its bound, and
\* nothing is known of an endpoint before it is created.
CapTypeOK ==
  /\ live \subseteq Holder
  /\ caps \in [Holder -> [Slot -> Capability \cup {None}]]
  /\ endpoints \in 0 .. MaxEndpoints
  /\ owner \in [EndpointId -> Holder \cup {None}]
  /\ generation \in [EndpointId -> 0 .. MaxGeneration]
  /\ alive \subseteq 0 .. endpoints - 1
  /\ queue \in [EndpointId -> Seq(Queued)]
  /\ \A x \in EndpointId : Len(queue[x]) <= QueueCapacity
  /\ \A x \in EndpointId : owner[x] = None <=> x >= endpoints

\* Revocation is complete (caps.rs, revoke): whatever an endpoint has queued was
\* sent through a capability of its current generation, so no message sent
\* under withdrawn authority is ever received.
NothingOutlivesRevocation ==
  \A x \in EndpointId : \A i \in 1 .. Len(queue[x]) :
    queue[x][i].via = generation[x]

\* An endpoint dies with its owner and stays dead when the same task id gets a
\* holder again: a live endpoint has a live owner and a dead one holds no
\* message (caps.rs, terminate_process and create_process).
EndpointsDieWithOwner ==
  \A x \in EndpointId :
    /\ x \in alive => owner[x] \in live
    /\ x \notin alive => queue[x] = <<>>

\* Authority that was withdrawn, by a revocation or by its owner's death, is
\* gone from the queues and stays gone.
WithdrawalIsFinal == NothingOutlivesRevocation /\ EndpointsDieWithOwner

\* Backpressure on the receiver never eats a capability (caps.rs, receive): a
\* message that carries one leaves the queue of an endpoint that is neither
\* revoked nor dying only into a slot of its owner's table.
TransferNeverLost ==
  [][ \A x \in EndpointId :
        /\ Len(queue'[x]) < Len(queue[x])
        /\ generation'[x] = generation[x]
        /\ x \in alive'
        => LET moved == Head(queue[x]).moved
           IN  /\ queue'[x] = Tail(queue[x])
               /\ moved # None =>
                    \E s \in Slot : /\ caps[owner[x]][s] = None
                                    /\ caps'[owner[x]][s] = moved ]_capVars

----------------------------------------------------------------------------
(* The tables implement the authority of CapAuthority: a capability counts   *)
(* while its endpoint lives, its generation is current and its holder lives. *)

Valid(cap) ==
  /\ cap # None
  /\ cap.endpoint \in alive
  /\ cap.generation = generation[cap.endpoint]

TokensOf(capabilities) ==
  { [endpoint |-> cap.endpoint, rights |-> cap.rights] :
      cap \in { c \in capabilities : Valid(c) } }

HoldsNow ==
  [p \in Holder |->
     IF p \in live THEN TokensOf({ caps[p][s] : s \in Slot }) ELSE {}]

UnderWay ==
  [x \in EndpointId |-> TokensOf({ queue[x][i].moved : i \in 1 .. Len(queue[x]) })]

StatusNow ==
  [x \in EndpointId |->
     IF x >= endpoints THEN "unborn" ELSE IF x \in alive THEN "open" ELSE "closed"]

Authority == INSTANCE CapAuthority WITH
  Endpoint <- EndpointId, Grant <- "GRANT", Nobody <- None,
  status <- StatusNow, holds <- HoldsNow, transit <- UnderWay

\* No table operation creates, widens, moves or keeps alive authority in a way
\* CapAuthority does not allow: issue by the owner, attenuated delegation by a
\* holder with GRANT, immediate loss on revocation and death.
AuthorityIsKept == Authority!AuthSpec

=============================================================================
