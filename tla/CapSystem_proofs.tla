--------------------------- MODULE CapSystem_proofs ---------------------------
(***************************************************************************)
(* Proofs about CapSystem, for every number of holders, endpoints, slots   *)
(* and revocations: type correctness, complete revocation, endpoints that  *)
(* die with their owner, transfers that are never lost, and that the       *)
(* tables implement the authority of CapAuthority.                         *)
(***************************************************************************)
EXTENDS CapSystem, TLAPS, WellFoundedInduction, SequenceTheorems

----------------------------------------------------------------------------
(* What makes the CHOOSE of the first free slot well defined.               *)

LessThan == OpToRel(<, Nat)

LEMMA LessThanPairs == LessThan = { p \in Nat \X Nat : p[1] < p[2] }
  BY DEF LessThan, OpToRel

LEMMA LessThanWellFounded == IsWellFoundedOn(LessThan, Nat)
  BY NatLessThanWellFounded DEF LessThan

\* A non-empty set of naturals has a least element.
LEMMA LeastNatural ==
  ASSUME NEW S \in SUBSET Nat, S # {}
  PROVE  \E m \in S : \A k \in S : m <= k
<1>1. PICK m \in S : \A k \in S : ~ (<<k, m>> \in LessThan)
  BY WFMin, LessThanWellFounded
<1>2. ASSUME NEW k \in S PROVE m <= k
  <2>1. ~ (<<k, m>> \in { p \in Nat \X Nat : p[1] < p[2] })
    BY <1>1, LessThanPairs
  <2>2. <<k, m>> \in Nat \X Nat
    OBVIOUS
  <2> QED BY <2>1, <2>2
<1> QED BY <1>2

CapInv == CapTypeOK /\ NothingOutlivesRevocation /\ EndpointsDieWithOwner

Table == [Slot -> Capability \cup {None}]

----------------------------------------------------------------------------
LEMMA InstallTypes ==
  ASSUME CapTypeOK, NEW p \in Holder, NEW cap \in Capability, Install(p, cap)
  PROVE  caps' \in [Holder -> Table]
<1>1. PICK slot : caps' = [caps EXCEPT ![p][slot] = cap]
  BY DEF Install
<1>2. caps \in [Holder -> Table]
  BY DEF CapTypeOK, Table
<1>3. [caps[p] EXCEPT ![slot] = cap] \in Table
  BY <1>2 DEF Table
<1> QED BY <1>1, <1>2, <1>3

LEMMA IssuedTypes ==
  ASSUME CapTypeOK, NEW ep \in EndpointId, NEW want
  PROVE  Issued(ep, want) \in Capability
  BY DEF CapTypeOK, Issued, Capability

LEMMA LookupTypes ==
  ASSUME CapTypeOK, NEW p \in Holder, NEW h \in Slot, Lookup(p, h) # None
  PROVE  Lookup(p, h) \in Capability
  BY DEF CapTypeOK, Lookup

\* A transfer that is allowed carries an attenuated copy of what is held.
LEMMA MovedTypes ==
  ASSUME CapTypeOK, NEW p \in Holder, NEW transfer \in Transfer,
         TransferAllowed(p, transfer)
  PROVE  Moved(p, transfer) \in Capability \cup {None}
<1>1. CASE transfer = None
  BY <1>1 DEF Moved
<1>2. CASE transfer # None
  <2> DEFINE held == Lookup(p, transfer.handle)
  <2>1. transfer.handle \in Slot
    BY <1>2 DEF Transfer
  <2>2. held \in Capability /\ transfer.want \subseteq held.rights
    BY <1>2, <2>1, LookupTypes DEF TransferAllowed
  <2>3. Moved(p, transfer) = [held EXCEPT !.rights = transfer.want]
    BY <1>2 DEF Moved
  <2> HIDE DEF held
  <2>4. held.rights \in SUBSET Right
    BY <2>2 DEF Capability
  <2>5. [held EXCEPT !.rights = transfer.want] \in Capability
    BY <2>2, <2>4 DEF Capability
  <2> QED BY <2>3, <2>5
<1> QED BY <1>1, <1>2

\* Tables and minted capabilities say nothing about endpoints and queues.
LEMMA IssueKeepsInv ==
  ASSUME CapInv, NEW p \in Holder, NEW cap \in Capability, Install(p, cap),
         UNCHANGED <<live, endpointVars>>
  PROVE  CapInv'
<1>1. caps' \in [Holder -> Table]
  BY InstallTypes DEF CapInv
<1>2. CapTypeOK'
  BY <1>1 DEF CapInv, CapTypeOK, Table, endpointVars
<1>3. NothingOutlivesRevocation' /\ EndpointsDieWithOwner'
  BY DEF CapInv, NothingOutlivesRevocation, EndpointsDieWithOwner, endpointVars
<1> QED BY <1>2, <1>3 DEF CapInv

LEMMA CreateProcessKeepsInv ==
  ASSUME CapInv, NEW p \in Holder, CreateProcess(p)
  PROVE  CapInv'
<1>1. CapTypeOK'
  BY DEF CapInv, CapTypeOK, CreateProcess, endpointVars
<1>2. NothingOutlivesRevocation' /\ EndpointsDieWithOwner'
  BY DEF CapInv, NothingOutlivesRevocation, EndpointsDieWithOwner, CreateProcess,
         endpointVars
<1> QED BY <1>1, <1>2 DEF CapInv

LEMMA TerminateProcessKeepsInv ==
  ASSUME CapInv, NEW p \in Holder, TerminateProcess(p)
  PROVE  CapInv'
<1> DEFINE own == { x \in EndpointId : x < endpoints /\ owner[x] = p }
<1>1. /\ live' = live \ {p} /\ alive' = alive \ own
      /\ queue' = [x \in EndpointId |-> IF x \in own THEN <<>> ELSE queue[x]]
      /\ UNCHANGED <<caps, endpoints, owner, generation>>
  BY DEF TerminateProcess
<1>2. \A x \in EndpointId : x \in alive /\ owner[x] = p => x \in own
  BY DEF CapInv, CapTypeOK, EndpointId
<1>3. alive \subseteq EndpointId
  BY CapAssumption DEF CapInv, CapTypeOK, EndpointId
<1>4. QueueCapacity \in Nat
  BY CapAssumption
<1> HIDE DEF own
<1>5. CapTypeOK'
  <2>1. queue' \in [EndpointId -> Seq(Queued)]
    BY <1>1 DEF CapInv, CapTypeOK
  <2>2. \A x \in EndpointId : Len(queue'[x]) <= QueueCapacity
    BY <1>1, <1>4 DEF CapInv, CapTypeOK
  <2> QED BY <1>1, <2>1, <2>2 DEF CapInv, CapTypeOK
<1>6. NothingOutlivesRevocation'
  BY <1>1 DEF CapInv, NothingOutlivesRevocation
<1>7. EndpointsDieWithOwner'
  BY <1>1, <1>2, <1>3 DEF CapInv, EndpointsDieWithOwner
<1> QED BY <1>5, <1>6, <1>7 DEF CapInv

LEMMA CreateEndpointKeepsInv ==
  ASSUME CapInv, NEW p \in Holder, CreateEndpoint(p)
  PROVE  CapInv'
<1> DEFINE cap == [endpoint |-> endpoints, generation |-> 0, rights |-> Right]
<1>1. /\ p \in live /\ endpoints < MaxEndpoints
      /\ endpoints' = endpoints + 1
      /\ owner' = [owner EXCEPT ![endpoints] = p]
      /\ alive' = alive \cup {endpoints}
      /\ UNCHANGED <<live, generation, queue>>
  BY DEF CreateEndpoint
<1>2. endpoints \in EndpointId /\ MaxGeneration \in Nat /\ p # None
  BY <1>1, CapAssumption DEF CapInv, CapTypeOK, EndpointId
<1>3. cap \in Capability
  BY <1>2 DEF Capability
<1>4. caps' \in [Holder -> [Slot -> Capability \cup {None}]]
  <2>1. CASE Install(p, cap)
    BY <1>3, <2>1, InstallTypes DEF CapInv, Table
  <2>2. CASE UNCHANGED caps
    BY <2>2 DEF CapInv, CapTypeOK
  <2> QED BY <2>1, <2>2 DEF CreateEndpoint
<1>5. owner' \in [EndpointId -> Holder \cup {None}]
  BY <1>1, <1>2 DEF CapInv, CapTypeOK
<1>6. \A x \in EndpointId : owner'[x] = None <=> x >= endpoints'
  BY <1>1, <1>2 DEF CapInv, CapTypeOK, EndpointId
<1>7. alive' \subseteq 0 .. endpoints' - 1 /\ endpoints' \in 0 .. MaxEndpoints
  <2>1. endpoints \in Nat /\ MaxEndpoints \in Nat /\ alive \subseteq 0 .. endpoints - 1
    BY CapAssumption DEF CapInv, CapTypeOK
  <2>2. endpoints' \in 0 .. MaxEndpoints
    BY <1>1, <2>1
  <2>3. 0 .. endpoints - 1 \subseteq 0 .. endpoints' - 1 /\ endpoints \in 0 .. endpoints' - 1
    BY <1>1, <2>1
  <2> QED BY <1>1, <2>1, <2>2, <2>3
<1>8. CapTypeOK'
  BY <1>1, <1>4, <1>5, <1>6, <1>7 DEF CapInv, CapTypeOK
<1>9. NothingOutlivesRevocation'
  BY <1>1 DEF CapInv, NothingOutlivesRevocation
<1>10. EndpointsDieWithOwner'
  BY <1>1, <1>2 DEF CapInv, CapTypeOK, EndpointsDieWithOwner
<1> QED BY <1>8, <1>9, <1>10 DEF CapInv

LEMMA RevokeKeepsInv ==
  ASSUME CapInv, NEW p \in Holder, NEW ep \in EndpointId, Revoke(p, ep)
  PROVE  CapInv'
<1>1. /\ generation[ep] < MaxGeneration
      /\ generation' = [generation EXCEPT ![ep] = @ + 1]
      /\ queue' = [queue EXCEPT ![ep] = <<>>]
      /\ UNCHANGED <<live, caps, endpoints, owner, alive>>
  BY DEF Revoke
<1>2. generation' \in [EndpointId -> 0 .. MaxGeneration]
  BY <1>1, CapAssumption DEF CapInv, CapTypeOK
<1>3. queue' \in [EndpointId -> Seq(Queued)]
  BY <1>1 DEF CapInv, CapTypeOK
<1>4. \A x \in EndpointId : Len(queue'[x]) <= QueueCapacity
  BY <1>1, CapAssumption DEF CapInv, CapTypeOK
<1>5. CapTypeOK'
  BY <1>1, <1>2, <1>3, <1>4 DEF CapInv, CapTypeOK
<1>6. NothingOutlivesRevocation' /\ EndpointsDieWithOwner'
  BY <1>1 DEF CapInv, CapTypeOK, NothingOutlivesRevocation, EndpointsDieWithOwner
<1> QED BY <1>5, <1>6 DEF CapInv

LEMMA SendKeepsInv ==
  ASSUME CapInv, NEW p \in Holder, NEW h \in Slot, NEW transfer \in Transfer,
         Send(p, h, transfer)
  PROVE  CapInv'
<1> DEFINE cap == Lookup(p, h)
           e   == cap.endpoint
           msg == [sender |-> p, moved |-> Moved(p, transfer), via |-> cap.generation]
<1>1. /\ e \in alive /\ generation[e] = cap.generation
      /\ Len(queue[e]) < QueueCapacity
      /\ queue' = [queue EXCEPT ![e] = Append(@, msg)]
      /\ UNCHANGED <<live, caps, endpoints, owner, generation, alive>>
  BY DEF Send
<1>2. cap \in Capability
  BY LookupTypes DEF Send, CapInv
<1>3. Moved(p, transfer) \in Capability \cup {None}
  BY MovedTypes DEF Send, CapInv
<1>4. msg \in Queued /\ msg.via = generation[e] /\ e \in EndpointId
  BY <1>1, <1>2, <1>3 DEF Queued, Capability
<1> HIDE DEF cap, e, msg
<1>5. /\ queue[e] \in Seq(Queued) /\ queue'[e] = Append(queue[e], msg)
      /\ \A x \in EndpointId : x # e => queue'[x] = queue[x]
  BY <1>1, <1>4 DEF CapInv, CapTypeOK
<1>6. /\ Len(queue'[e]) = Len(queue[e]) + 1 /\ Len(queue[e]) \in Nat
      /\ queue'[e][Len(queue[e]) + 1] = msg
      /\ \A i \in 1 .. Len(queue[e]) : queue'[e][i] = queue[e][i]
  BY <1>4, <1>5, AppendProperties
<1>7. queue' \in [EndpointId -> Seq(Queued)]
  BY <1>1, <1>4 DEF CapInv, CapTypeOK
<1>8. \A x \in EndpointId : Len(queue'[x]) <= QueueCapacity
  BY <1>1, <1>5, <1>6, CapAssumption DEF CapInv, CapTypeOK
<1>9. CapTypeOK'
  BY <1>1, <1>7, <1>8 DEF CapInv, CapTypeOK
<1>10. NothingOutlivesRevocation'
  <2> SUFFICES ASSUME NEW x \in EndpointId, NEW i \in 1 .. Len(queue'[x])
               PROVE  queue'[x][i].via = generation[x]
    BY <1>1 DEF NothingOutlivesRevocation
  <2>1. CASE x # e
    BY <1>5, <2>1 DEF CapInv, NothingOutlivesRevocation
  <2>2. CASE x = e /\ i = Len(queue[e]) + 1
    BY <1>4, <1>6, <2>2
  <2>3. CASE x = e /\ i \in 1 .. Len(queue[e])
    BY <1>6, <2>3 DEF CapInv, NothingOutlivesRevocation
  <2> QED BY <1>6, <2>1, <2>2, <2>3
<1>11. EndpointsDieWithOwner'
  BY <1>1, <1>5 DEF CapInv, EndpointsDieWithOwner
<1> QED BY <1>9, <1>10, <1>11 DEF CapInv

\* What a successful receive does to the queue it serves.
LEMMA ReceivePops ==
  ASSUME CapInv, NEW p \in Holder, NEW ep \in EndpointId, Receive(p, ep)
  PROVE  /\ queue[ep] \in Seq(Queued) /\ queue[ep] # <<>>
         /\ Head(queue[ep]) \in Queued
         /\ queue'[ep] = Tail(queue[ep])
         /\ Tail(queue[ep]) \in Seq(Queued)
         /\ Len(queue[ep]) \in Nat /\ Len(Tail(queue[ep])) = Len(queue[ep]) - 1
         /\ \A i \in 1 .. Len(Tail(queue[ep])) : Tail(queue[ep])[i] = queue[ep][i + 1]
         /\ \A x \in EndpointId : x # ep => queue'[x] = queue[x]
<1>1. queue[ep] \in Seq(Queued) /\ queue[ep] # <<>>
  BY DEF Receive, CapInv, CapTypeOK
<1>2. queue' = [queue EXCEPT ![ep] = Tail(@)]
  BY DEF Receive
<1>3. /\ Head(queue[ep]) \in Queued /\ Tail(queue[ep]) \in Seq(Queued)
      /\ Len(queue[ep]) \in Nat /\ Len(Tail(queue[ep])) = Len(queue[ep]) - 1
      /\ \A i \in 1 .. Len(Tail(queue[ep])) : Tail(queue[ep])[i] = queue[ep][i + 1]
  BY <1>1
<1> QED BY <1>1, <1>2, <1>3 DEF CapInv, CapTypeOK

LEMMA ReceiveKeepsInv ==
  ASSUME CapInv, NEW p \in Holder, NEW ep \in EndpointId, Receive(p, ep)
  PROVE  CapInv'
<1>1. /\ ep \in alive
      /\ queue' = [queue EXCEPT ![ep] = Tail(@)]
      /\ UNCHANGED <<live, endpoints, owner, generation, alive>>
  BY DEF Receive
<1>2. caps' \in [Holder -> [Slot -> Capability \cup {None}]]
  <2>1. CASE Head(queue[ep]).moved = None
    BY <2>1 DEF Receive, CapInv, CapTypeOK
  <2>2. CASE Head(queue[ep]).moved # None
    <3>1. Head(queue[ep]).moved \in Capability
      BY <2>2, ReceivePops DEF Queued
    <3>2. Install(p, Head(queue[ep]).moved)
      BY <2>2 DEF Receive
    <3> QED BY <3>1, <3>2, InstallTypes DEF CapInv, Table
  <2> QED BY <2>1, <2>2
<1>3. queue' \in [EndpointId -> Seq(Queued)]
  BY <1>1, ReceivePops DEF CapInv, CapTypeOK
<1>4. \A x \in EndpointId : Len(queue'[x]) <= QueueCapacity
  BY ReceivePops, CapAssumption DEF CapInv, CapTypeOK
<1>5. CapTypeOK'
  BY <1>1, <1>2, <1>3, <1>4 DEF CapInv, CapTypeOK
<1>6. NothingOutlivesRevocation'
  <2> SUFFICES ASSUME NEW x \in EndpointId, NEW i \in 1 .. Len(queue'[x])
               PROVE  queue'[x][i].via = generation[x]
    BY <1>1 DEF NothingOutlivesRevocation
  <2>1. CASE x # ep
    BY <2>1, ReceivePops DEF CapInv, NothingOutlivesRevocation
  <2>2. CASE x = ep
    <3>1. i + 1 \in 1 .. Len(queue[ep]) /\ queue'[ep][i] = queue[ep][i + 1]
      <4>1. /\ queue'[ep] = Tail(queue[ep]) /\ Len(queue[ep]) \in Nat
            /\ Len(Tail(queue[ep])) = Len(queue[ep]) - 1
            /\ \A j \in 1 .. Len(Tail(queue[ep])) : Tail(queue[ep])[j] = queue[ep][j + 1]
        BY ReceivePops
      <4> QED BY <2>2, <4>1
    <3> QED BY <2>2, <3>1 DEF CapInv, NothingOutlivesRevocation
  <2> QED BY <2>1, <2>2
<1>7. EndpointsDieWithOwner'
  BY <1>1, ReceivePops DEF CapInv, EndpointsDieWithOwner
<1> QED BY <1>5, <1>6, <1>7 DEF CapInv

LEMMA InitCapInv == CapInit => CapInv
<1> SUFFICES ASSUME CapInit PROVE CapInv
  OBVIOUS
<1>1. CapTypeOK
  <2>1. caps \in [Holder -> [Slot -> Capability \cup {None}]] /\ live \subseteq Holder
    BY DEF CapInit
  <2>2. /\ owner \in [EndpointId -> Holder \cup {None}]
        /\ endpoints \in 0 .. MaxEndpoints
        /\ generation \in [EndpointId -> 0 .. MaxGeneration]
        /\ \A x \in EndpointId : owner[x] = None <=> x >= endpoints
    BY CapAssumption DEF CapInit, EndpointId
  <2>3. /\ queue \in [EndpointId -> Seq(Queued)]
        /\ \A x \in EndpointId : Len(queue[x]) <= QueueCapacity
        /\ alive \subseteq 0 .. endpoints - 1
    BY CapAssumption DEF CapInit
  <2> QED BY <2>1, <2>2, <2>3 DEF CapTypeOK
<1>2. NothingOutlivesRevocation /\ EndpointsDieWithOwner
  BY DEF CapInit, NothingOutlivesRevocation, EndpointsDieWithOwner
<1> QED BY <1>1, <1>2 DEF CapInv

LEMMA NextCapInv ==
  ASSUME CapInv, [CapNext]_capVars
  PROVE  CapInv'
<1>1. CASE \E p \in Holder : CreateProcess(p)
  BY <1>1, CreateProcessKeepsInv
<1>2. CASE \E p \in Holder : TerminateProcess(p)
  BY <1>2, TerminateProcessKeepsInv
<1>3. CASE \E p \in Holder : CreateEndpoint(p)
  BY <1>3, CreateEndpointKeepsInv
<1>4. CASE \E p \in Holder, ep \in EndpointId : Revoke(p, ep)
  BY <1>4, RevokeKeepsInv
<1>5. CASE \E p \in Holder, ep \in EndpointId, want \in Want : Mint(p, ep, want)
  <2>1. PICK p \in Holder, ep \in EndpointId, want \in Want : Mint(p, ep, want)
    BY <1>5
  <2>2. Issued(ep, want) \in Capability
    BY IssuedTypes DEF CapInv
  <2> QED BY <2>1, <2>2, IssueKeepsInv DEF Mint
<1>6. CASE \E p \in Holder, ep \in EndpointId, want \in Want : BootstrapGrant(p, ep, want)
  <2>1. PICK p \in Holder, ep \in EndpointId, want \in Want : BootstrapGrant(p, ep, want)
    BY <1>6
  <2>2. Issued(ep, want) \in Capability
    BY IssuedTypes DEF CapInv
  <2> QED BY <2>1, <2>2, IssueKeepsInv DEF BootstrapGrant
<1>7. CASE \E p \in Holder, h \in Slot, transfer \in Transfer : Send(p, h, transfer)
  BY <1>7, SendKeepsInv
<1>8. CASE \E p \in Holder, ep \in EndpointId : Receive(p, ep)
  BY <1>8, ReceiveKeepsInv
<1>9. CASE UNCHANGED capVars
  BY <1>9 DEF capVars, endpointVars, CapInv, CapTypeOK, NothingOutlivesRevocation,
              EndpointsDieWithOwner
<1> QED BY <1>1, <1>2, <1>3, <1>4, <1>5, <1>6, <1>7, <1>8, <1>9 DEF CapNext

THEOREM CapInvariant == CapSpec => []CapInv
<1> QED BY InitCapInv, NextCapInv, PTL DEF CapSpec

----------------------------------------------------------------------------
(* The theorems.                                                            *)

\* Type correctness, the bounded queues included (caps.rs, send).
THEOREM CapTypeCorrect == CapSpec => []CapTypeOK
<1>1. CapInv => CapTypeOK
  BY DEF CapInv
<1> QED BY <1>1, CapInvariant, PTL

\* Revocation is complete: nothing sent under withdrawn authority stays queued
\* (caps.rs, revoke).
THEOREM RevocationIsComplete == CapSpec => []NothingOutlivesRevocation
<1>1. CapInv => NothingOutlivesRevocation
  BY DEF CapInv
<1> QED BY <1>1, CapInvariant, PTL

\* An endpoint never outlives its owner, and re-creating the holder does not
\* bring it back (caps.rs, terminate_process and create_process).
THEOREM EndpointsNeverOutliveOwner == CapSpec => []EndpointsDieWithOwner
<1>1. CapInv => EndpointsDieWithOwner
  BY DEF CapInv
<1> QED BY <1>1, CapInvariant, PTL

\* Revocation and death are final (caps.rs, revoke and terminate_process).
THEOREM WithdrawalStaysFinal == CapSpec => []WithdrawalIsFinal
<1>1. CapInv => WithdrawalIsFinal
  BY DEF CapInv, WithdrawalIsFinal
<1> QED BY <1>1, CapInvariant, PTL

----------------------------------------------------------------------------
(* Transfers are never lost.                                                 *)

\* Install uses an empty slot, and that slot then holds the capability.
LEMMA InstallFills ==
  ASSUME CapTypeOK, NEW p \in Holder, NEW cap, Install(p, cap)
  PROVE  \E s \in Slot : caps[p][s] = None /\ caps'[p][s] = cap
<1> DEFINE S == FreeSlots(p)
           slot == CHOOSE s \in S : \A r \in S : s <= r
<1>1. S # {} /\ S \in SUBSET Nat /\ S \in SUBSET Slot
  BY DEF Install, FreeSlots, Slot
<1>2. slot \in S
  BY <1>1, LeastNatural
<1>3. caps' = [caps EXCEPT ![p][slot] = cap]
  BY DEF Install
<1>4. slot \in Slot /\ caps[p][slot] = None
  BY <1>2 DEF FreeSlots
<1> HIDE DEF slot
<1>5. caps'[p][slot] = cap
  BY <1>3, <1>4 DEF CapTypeOK
<1> QED BY <1>4, <1>5

\* What TransferNeverLost asks of a step, for one endpoint.
Delivered(x) ==
  /\ Len(queue'[x]) < Len(queue[x])
  /\ generation'[x] = generation[x]
  /\ x \in alive'
  => LET moved == Head(queue[x]).moved
     IN  /\ queue'[x] = Tail(queue[x])
         /\ moved # None =>
              \E s \in Slot : /\ caps[owner[x]][s] = None
                              /\ caps'[owner[x]][s] = moved

LEMMA StepDelivers ==
  ASSUME CapInv, CapNext, NEW x \in EndpointId
  PROVE  Delivered(x)
<1>1. queue[x] \in Seq(Queued) /\ Len(queue[x]) \in Nat
  BY DEF CapInv, CapTypeOK
<1>2. CASE queue'[x] = queue[x]
  BY <1>1, <1>2 DEF Delivered
<1>3. CASE \E p \in Holder : CreateProcess(p) \/ CreateEndpoint(p)
  BY <1>2, <1>3 DEF CreateProcess, CreateEndpoint, endpointVars
<1>4. CASE \E p \in Holder : TerminateProcess(p)
  <2>1. queue'[x] = queue[x] \/ x \notin alive'
    BY <1>4 DEF TerminateProcess
  <2> QED BY <1>2, <2>1 DEF Delivered
<1>5. CASE \E p \in Holder, ep \in EndpointId : Revoke(p, ep)
  <2>1. PICK ep \in EndpointId : /\ generation' = [generation EXCEPT ![ep] = @ + 1]
                                 /\ queue' = [queue EXCEPT ![ep] = <<>>]
    BY <1>5 DEF Revoke
  <2>2. CASE ep = x
    <3>1. generation'[x] = generation[x] + 1 /\ generation[x] \in Int
      BY <2>1, <2>2, CapAssumption DEF CapInv, CapTypeOK
    <3> QED BY <3>1 DEF Delivered
  <2>3. CASE ep # x
    BY <1>2, <2>1, <2>3 DEF CapInv, CapTypeOK
  <2> QED BY <2>2, <2>3
<1>6. CASE \E p \in Holder, ep \in EndpointId, want \in Want :
             Mint(p, ep, want) \/ BootstrapGrant(p, ep, want)
  BY <1>2, <1>6 DEF Mint, BootstrapGrant, endpointVars
<1>7. CASE \E p \in Holder, h \in Slot, transfer \in Transfer : Send(p, h, transfer)
  <2>1. PICK e, msg : queue' = [queue EXCEPT ![e] = Append(@, msg)]
    BY <1>7 DEF Send
  <2>2. CASE e = x
    <3>1. queue'[x] = Append(queue[x], msg)
      BY <2>1, <2>2 DEF CapInv, CapTypeOK
    <3>2. Len(Append(queue[x], msg)) = Len(queue[x]) + 1
      BY <1>1
    <3> QED BY <1>1, <3>1, <3>2 DEF Delivered
  <2>3. CASE e # x
    BY <1>2, <2>1, <2>3 DEF CapInv, CapTypeOK
  <2> QED BY <2>2, <2>3
<1>8. CASE \E p \in Holder, ep \in EndpointId : Receive(p, ep)
  <2>1. PICK p \in Holder, ep \in EndpointId : Receive(p, ep)
    BY <1>8
  <2>2. CASE ep # x
    BY <1>2, <2>1, <2>2, ReceivePops
  <2>3. CASE ep = x
    <3>1. queue'[x] = Tail(queue[x]) /\ owner[x] = p
      BY <2>1, <2>3, ReceivePops DEF Receive
    <3>2. ASSUME Head(queue[x]).moved # None
          PROVE  \E s \in Slot : /\ caps[p][s] = None
                                 /\ caps'[p][s] = Head(queue[x]).moved
      <4>1. Install(p, Head(queue[x]).moved)
        BY <2>1, <2>3, <3>2 DEF Receive
      <4> QED BY <4>1, InstallFills DEF CapInv
    <3> QED BY <3>1, <3>2 DEF Delivered
  <2> QED BY <2>2, <2>3
<1> QED BY <1>3, <1>4, <1>5, <1>6, <1>7, <1>8 DEF CapNext

\* A message that carries a capability leaves a live, unrevoked queue only into
\* a slot of the receiver's table (caps.rs, receive).
THEOREM TransfersAreNeverLost == CapSpec => TransferNeverLost
<1>1. CapInv /\ [CapNext]_capVars => [\A x \in EndpointId : Delivered(x)]_capVars
  BY StepDelivers
<1>2. (\A x \in EndpointId : Delivered(x)) <=>
        \A x \in EndpointId :
          /\ Len(queue'[x]) < Len(queue[x])
          /\ generation'[x] = generation[x]
          /\ x \in alive'
          => LET moved == Head(queue[x]).moved
             IN  /\ queue'[x] = Tail(queue[x])
                 /\ moved # None =>
                      \E s \in Slot : /\ caps[owner[x]][s] = None
                                      /\ caps'[owner[x]][s] = moved
  BY DEF Delivered
<1> QED BY <1>1, <1>2, CapInvariant, PTL DEF CapSpec, TransferNeverLost

----------------------------------------------------------------------------
(* The tables, generations and queues implement CapAuthority.                *)


\* A capability, wherever it is kept, is of an endpoint that exists and not of
\* a generation still to come.
Known(cap) ==
  cap # None => /\ cap.endpoint < endpoints
                /\ cap.generation <= generation[cap.endpoint]

KnownInv ==
  /\ \A p \in Holder, s \in Slot : Known(caps[p][s])
  /\ \A x \in EndpointId : \A i \in 1 .. Len(queue[x]) : Known(queue[x][i].moved)
  /\ \A x \in EndpointId : x >= endpoints => generation[x] = 0

\* Where a capability is.
Has(p, cap) == \E s \in Slot : caps[p][s] = cap
Carries(x, cap) == \E i \in 1 .. Len(queue[x]) : queue[x][i].moved = cap

Tok(cap) == [endpoint |-> cap.endpoint, rights |-> cap.rights]

----------------------------------------------------------------------------
(* Reading the abstract state, before and after a step.                     *)

LEMMA HoldsMember ==
  ASSUME NEW p \in Holder, NEW tok
  PROVE  /\ tok \in HoldsNow[p] <=>
              p \in live /\ \E c : Has(p, c) /\ Valid(c) /\ tok = Tok(c)
         /\ tok \in HoldsNow'[p] <=>
              p \in live' /\ \E c : Has(p, c)' /\ Valid(c)' /\ tok = Tok(c)
<1>1. tok \in HoldsNow[p] <=>
        p \in live /\ \E c : Has(p, c) /\ Valid(c) /\ tok = Tok(c)
  BY DEF HoldsNow, TokensOf, Has, Tok
<1>2. tok \in HoldsNow'[p] <=>
        p \in live' /\ \E c : Has(p, c)' /\ Valid(c)' /\ tok = Tok(c)
  BY DEF HoldsNow, TokensOf, Has, Tok
<1> QED BY <1>1, <1>2

LEMMA UnderWayMember ==
  ASSUME NEW x \in EndpointId, NEW tok
  PROVE  /\ tok \in UnderWay[x] <=>
              \E c : Carries(x, c) /\ Valid(c) /\ tok = Tok(c)
         /\ tok \in UnderWay'[x] <=>
              \E c : Carries(x, c)' /\ Valid(c)' /\ tok = Tok(c)
<1>1. tok \in UnderWay[x] <=> \E c : Carries(x, c) /\ Valid(c) /\ tok = Tok(c)
  BY DEF UnderWay, TokensOf, Carries, Tok
<1>2. tok \in UnderWay'[x] <=> \E c : Carries(x, c)' /\ Valid(c)' /\ tok = Tok(c)
  BY DEF UnderWay, TokensOf, Carries, Tok
<1> QED BY <1>1, <1>2

LEMMA StatusMember ==
  ASSUME CapTypeOK, NEW x \in EndpointId
  PROVE  /\ StatusNow[x] = "open" <=> x \in alive
         /\ StatusNow[x] = "unborn" <=> x >= endpoints
<1>1. x \in alive => ~ x >= endpoints
  BY DEF CapTypeOK, EndpointId
<1> QED BY <1>1 DEF StatusNow

LEMMA InTables ==
  ASSUME CapTypeOK, KnownInv, NEW p \in Holder, NEW c, Has(p, c), c # None
  PROVE  c \in Capability /\ Known(c) /\ c.endpoint \in EndpointId
  BY DEF CapTypeOK, KnownInv, Has, Capability

LEMMA InQueues ==
  ASSUME CapTypeOK, KnownInv, NEW x \in EndpointId, NEW c, Carries(x, c), c # None
  PROVE  c \in Capability /\ Known(c) /\ c.endpoint \in EndpointId
<1>1. PICK i \in 1 .. Len(queue[x]) : queue[x][i].moved = c
  BY DEF Carries
<1>2. queue[x][i] \in Queued
  BY <1>1 DEF CapTypeOK
<1>3. c \in Capability
  BY <1>1, <1>2 DEF Queued
<1> QED BY <1>1, <1>3 DEF KnownInv, Capability

\* Installing adds one capability to one table.
LEMMA InstallMembers ==
  ASSUME CapTypeOK, NEW p \in Holder, NEW cap, Install(p, cap)
  PROVE  /\ \A q \in Holder : q # p => caps'[q] = caps[q]
         /\ \A c : c # None => (Has(p, c)' <=> c = cap \/ Has(p, c))
<1>1. PICK slot : /\ caps' = [caps EXCEPT ![p][slot] = cap]
                  /\ slot \in Slot /\ caps[p][slot] = None
  <2> DEFINE S == FreeSlots(p)
             slot == CHOOSE s \in S : \A r \in S : s <= r
  <2>1. S # {} /\ S \in SUBSET Nat
    BY DEF Install, FreeSlots, Slot
  <2>2. slot \in S
    BY <2>1, LeastNatural
  <2>3. caps' = [caps EXCEPT ![p][slot] = cap]
    BY DEF Install
  <2> QED BY <2>2, <2>3 DEF FreeSlots
<1>2. /\ \A q \in Holder : q # p => caps'[q] = caps[q]
      /\ \A s \in Slot : caps'[p][s] = IF s = slot THEN cap ELSE caps[p][s]
  BY <1>1 DEF CapTypeOK
<1>3. ASSUME NEW c, c # None
      PROVE  Has(p, c)' <=> c = cap \/ Has(p, c)
  <2>1. ASSUME Has(p, c)' PROVE c = cap \/ Has(p, c)
    BY <1>2, <2>1 DEF Has
  <2>2. ASSUME c = cap PROVE Has(p, c)'
    BY <1>1, <1>2, <2>2 DEF Has
  <2>3. ASSUME Has(p, c) PROVE Has(p, c)'
    <3>1. PICK s \in Slot : caps[p][s] = c
      BY <2>3 DEF Has
    <3>2. s # slot
      BY <1>1, <1>3, <3>1
    <3> QED BY <1>2, <3>1, <3>2 DEF Has
  <2> QED BY <2>1, <2>2, <2>3
<1> QED BY <1>2, <1>3

----------------------------------------------------------------------------
(* KnownInv is inductive: a step adds at most one capability, a known one.   *)

KnownAfter(cap) ==
  cap # None => /\ cap.endpoint < endpoints'
                /\ cap.generation <= generation'[cap.endpoint]

\* What a step may do to the places where capabilities are kept.
AddsOnly(new) ==
  /\ \A p \in Holder, s \in Slot : caps'[p][s] \in {caps[p][s], None, new}
  /\ \A x \in EndpointId : \A i \in 1 .. Len(queue'[x]) :
       \/ queue'[x][i].moved = new
       \/ \E j \in 1 .. Len(queue[x]) : queue'[x][i].moved = queue[x][j].moved

NeverBack ==
  /\ endpoints' \in Nat /\ endpoints <= endpoints'
  /\ \A x \in EndpointId : generation'[x] \in Nat /\ generation[x] <= generation'[x]
  /\ \A x \in EndpointId : x >= endpoints' => generation'[x] = 0

LEMMA KnownStays ==
  ASSUME CapTypeOK, KnownInv, NEW new, KnownAfter(new), AddsOnly(new), NeverBack
  PROVE  KnownInv'
<1>1. ASSUME NEW c \in Capability, Known(c)
      PROVE  KnownAfter(c)
  <2>1. /\ c.endpoint \in EndpointId /\ c.generation \in Nat
        /\ c.endpoint \in Int /\ endpoints \in Nat
        /\ generation[c.endpoint] \in Nat
    BY CapAssumption DEF Capability, CapTypeOK, EndpointId
  <2>2. c # None => c.endpoint < endpoints /\ c.generation <= generation[c.endpoint]
    BY <1>1 DEF Known
  <2> QED BY <2>1, <2>2 DEF Known, KnownAfter, NeverBack
<1>2. ASSUME NEW p \in Holder, NEW s \in Slot
      PROVE  KnownAfter(caps'[p][s])
  <2>1. caps[p][s] \in Capability \cup {None} /\ Known(caps[p][s])
    BY DEF CapTypeOK, KnownInv
  <2>2. caps'[p][s] \in {caps[p][s], None, new}
    BY DEF AddsOnly
  <2>3. KnownAfter(None)
    BY DEF KnownAfter
  <2> QED BY <1>1, <2>1, <2>2, <2>3
<1>3. ASSUME NEW x \in EndpointId, NEW i \in 1 .. Len(queue'[x])
      PROVE  KnownAfter(queue'[x][i].moved)
  <2>1. CASE queue'[x][i].moved = new
    BY <2>1
  <2>2. CASE \E j \in 1 .. Len(queue[x]) : queue'[x][i].moved = queue[x][j].moved
    <3>1. PICK j \in 1 .. Len(queue[x]) : queue'[x][i].moved = queue[x][j].moved
      BY <2>2
    <3>2. queue[x][j] \in Queued /\ Known(queue[x][j].moved)
      BY DEF CapTypeOK, KnownInv
    <3>3. queue[x][j].moved \in Capability \cup {None}
      BY <3>2 DEF Queued
    <3>4. KnownAfter(None)
      BY DEF KnownAfter
    <3> QED BY <1>1, <3>1, <3>2, <3>3, <3>4
  <2> QED BY <2>1, <2>2 DEF AddsOnly
<1>4. \A x \in EndpointId : x >= endpoints' => generation'[x] = 0
  BY DEF NeverBack
<1> QED BY <1>2, <1>3, <1>4 DEF KnownInv, Known, KnownAfter

LEMMA InstallAdds ==
  ASSUME CapTypeOK, NEW p \in Holder, NEW cap, Install(p, cap), UNCHANGED queue
  PROVE  AddsOnly(cap)
<1>1. PICK slot : caps' = [caps EXCEPT ![p][slot] = cap]
  BY DEF Install
<1>2. \A q \in Holder, s \in Slot : caps'[q][s] \in {caps[q][s], None, cap}
  BY <1>1 DEF CapTypeOK
<1> QED BY <1>2 DEF AddsOnly

\* A capability issued for an existing endpoint is known.
LEMMA IssuedKnown ==
  ASSUME CapTypeOK, NEW ep \in EndpointId, ep < endpoints, NEW want
  PROVE  Known(Issued(ep, want))
  BY DEF Known, Issued, CapTypeOK

LEMMA EndpointCounters ==
  ASSUME CapTypeOK, KnownInv
  PROVE  /\ endpoints \in Nat
         /\ \A x \in EndpointId : generation[x] \in Nat
         /\ \A x \in EndpointId : x >= endpoints => generation[x] = 0
  BY CapAssumption DEF CapTypeOK, KnownInv

LEMMA NextKnownInv ==
  ASSUME CapInv, KnownInv, [CapNext]_capVars
  PROVE  KnownInv'
<1> USE DEF CapInv
<1>1. ASSUME UNCHANGED <<endpoints, generation>>
      PROVE  NeverBack /\ \A c : Known(c) => KnownAfter(c)
  BY <1>1, EndpointCounters DEF NeverBack, Known, KnownAfter
<1>2. KnownAfter(None)
  BY DEF KnownAfter
<1>3. CASE UNCHANGED capVars
  BY <1>3 DEF capVars, endpointVars, KnownInv, Known
<1>4. CASE \E p \in Holder : CreateProcess(p)
  <2>1. PICK p \in Holder : caps' = [caps EXCEPT ![p] = [s \in Slot |-> None]]
    BY <1>4 DEF CreateProcess
  <2>2. UNCHANGED endpointVars
    BY <1>4 DEF CreateProcess
  <2>3. AddsOnly(None)
    BY <2>1, <2>2 DEF AddsOnly, CapTypeOK, endpointVars
  <2> QED BY <1>1, <1>2, <2>2, <2>3, KnownStays DEF endpointVars
<1>5. CASE \E p \in Holder : TerminateProcess(p)
  <2>1. UNCHANGED <<caps, endpoints, generation>>
    BY <1>5 DEF TerminateProcess
  <2>2. \A x \in EndpointId : queue'[x] = queue[x] \/ queue'[x] = <<>>
    BY <1>5 DEF TerminateProcess
  <2>3. AddsOnly(None)
    BY <2>1, <2>2 DEF AddsOnly
  <2> QED BY <1>1, <1>2, <2>1, <2>3, KnownStays
<1>6. CASE \E p \in Holder : CreateEndpoint(p)
  <2> DEFINE cap == [endpoint |-> endpoints, generation |-> 0, rights |-> Right]
  <2>1. PICK p \in Holder : CreateEndpoint(p)
    BY <1>6
  <2>2. endpoints' = endpoints + 1 /\ UNCHANGED <<generation, queue>> /\ endpoints \in EndpointId
    BY <2>1, CapAssumption DEF CreateEndpoint, CapTypeOK, EndpointId
  <2>3. NeverBack
    BY <2>2, EndpointCounters DEF NeverBack, EndpointId
  <2>4. KnownAfter(cap)
    BY <2>2, EndpointCounters DEF KnownAfter
  <2>5. AddsOnly(cap)
    <3>1. CASE Install(p, cap)
      BY <2>2, <3>1, InstallAdds
    <3>2. CASE UNCHANGED caps
      BY <2>2, <3>2 DEF AddsOnly
    <3> QED BY <2>1, <3>1, <3>2 DEF CreateEndpoint
  <2> HIDE DEF cap
  <2> QED BY <2>3, <2>4, <2>5, KnownStays
<1>7. CASE \E p \in Holder, ep \in EndpointId : Revoke(p, ep)
  <2>1. PICK p \in Holder, ep \in EndpointId : Revoke(p, ep)
    BY <1>7
  <2>2. /\ ep < endpoints /\ UNCHANGED <<caps, endpoints>>
        /\ \A x \in EndpointId :
             /\ generation'[x] = IF x = ep THEN generation[x] + 1 ELSE generation[x]
             /\ queue'[x] = queue[x] \/ queue'[x] = <<>>
    BY <2>1 DEF Revoke, CapTypeOK
  <2>3. NeverBack
    BY <2>2, EndpointCounters DEF NeverBack, EndpointId
  <2>4. AddsOnly(None)
    BY <2>2 DEF AddsOnly
  <2> QED BY <1>2, <2>3, <2>4, KnownStays
<1>8. CASE \E p \in Holder, ep \in EndpointId, want \in Want :
             Mint(p, ep, want) \/ BootstrapGrant(p, ep, want)
  <2>1. PICK p \in Holder, ep \in EndpointId, want \in Want :
          Mint(p, ep, want) \/ BootstrapGrant(p, ep, want)
    BY <1>8
  <2>2. ep < endpoints /\ Install(p, Issued(ep, want)) /\ UNCHANGED endpointVars
    BY <2>1 DEF Mint, BootstrapGrant
  <2>3. Known(Issued(ep, want))
    BY <2>2, IssuedKnown
  <2>4. AddsOnly(Issued(ep, want))
    BY <2>2, InstallAdds DEF endpointVars
  <2> QED BY <1>1, <2>2, <2>3, <2>4, KnownStays DEF endpointVars
<1>9. CASE \E p \in Holder, h \in Slot, transfer \in Transfer : Send(p, h, transfer)
  <2>1. PICK p \in Holder, h \in Slot, transfer \in Transfer : Send(p, h, transfer)
    BY <1>9
  <2> DEFINE new == Moved(p, transfer)
  <2>2. UNCHANGED <<caps, endpoints, generation>>
    BY <2>1 DEF Send
  <2>3. Known(new)
    <3>1. CASE transfer = None
      BY <3>1 DEF Moved, Known
    <3>2. CASE transfer # None
      <4> DEFINE held == Lookup(p, transfer.handle)
      <4>1. transfer.handle \in Slot
        BY <3>2 DEF Transfer
      <4>2. held \in Capability /\ held = caps[p][transfer.handle] /\ held # None
        BY <2>1, <3>2, <4>1, LookupTypes DEF Send, TransferAllowed, Lookup
      <4>3. Known(held)
        BY <4>1, <4>2 DEF KnownInv
      <4>4. new = [held EXCEPT !.rights = transfer.want]
        BY <3>2 DEF Moved
      <4> HIDE DEF held, new
      <4>5. new.endpoint = held.endpoint /\ new.generation = held.generation
        BY <4>2, <4>4 DEF Capability
      <4> QED BY <4>2, <4>3, <4>5 DEF Known
    <3> QED BY <3>1, <3>2
  <2>4. PICK e, msg : queue' = [queue EXCEPT ![e] = Append(@, msg)] /\ msg.moved = new
    <3> DEFINE cap == Lookup(p, h)
               msg == [sender |-> p, moved |-> new, via |-> cap.generation]
    <3>1. queue' = [queue EXCEPT ![cap.endpoint] = Append(@, msg)]
      BY <2>1 DEF Send
    <3>2. msg.moved = new
      OBVIOUS
    <3> HIDE DEF msg, cap
    <3> QED BY <3>1, <3>2
  <2> HIDE DEF new
  <2>5. ASSUME NEW x \in EndpointId, NEW i \in 1 .. Len(queue'[x])
        PROVE  \/ queue'[x][i].moved = new
               \/ \E j \in 1 .. Len(queue[x]) : queue'[x][i].moved = queue[x][j].moved
    <3>1. queue[x] \in Seq(Queued) /\ Len(queue[x]) \in Nat
      BY DEF CapTypeOK
    <3>2. CASE e # x
      BY <2>4, <3>2 DEF CapTypeOK
    <3>3. CASE e = x
      <4>1. queue'[x] = Append(queue[x], msg)
        BY <2>4, <3>3 DEF CapTypeOK
      <4>2. Len(queue'[x]) = Len(queue[x]) + 1
        BY <3>1, <4>1
      <4>3. CASE i = Len(queue[x]) + 1
        <5>1. queue'[x][i] = msg
          BY <3>1, <4>1, <4>3
        <5> QED BY <2>4, <5>1
      <4>4. CASE i \in 1 .. Len(queue[x])
        <5>1. queue'[x][i] = queue[x][i]
          BY <3>1, <4>1, <4>4
        <5> QED BY <4>4, <5>1
      <4>5. i = Len(queue[x]) + 1 \/ i \in 1 .. Len(queue[x])
        BY <3>1, <4>2
      <4> QED BY <4>3, <4>4, <4>5
    <3> QED BY <3>2, <3>3
  <2>6. AddsOnly(new)
    BY <2>2, <2>5 DEF AddsOnly
  <2> QED BY <1>1, <2>2, <2>3, <2>6, KnownStays
<1>10. CASE \E p \in Holder, ep \in EndpointId : Receive(p, ep)
  <2>1. PICK p \in Holder, ep \in EndpointId : Receive(p, ep)
    BY <1>10
  <2> DEFINE new == Head(queue[ep]).moved
  <2>2. UNCHANGED <<endpoints, generation>>
    BY <2>1 DEF Receive
  <2>3. /\ queue[ep] \in Seq(Queued) /\ queue[ep] # <<>>
        /\ queue'[ep] = Tail(queue[ep]) /\ Len(queue[ep]) \in Nat
        /\ Len(Tail(queue[ep])) = Len(queue[ep]) - 1
        /\ \A i \in 1 .. Len(Tail(queue[ep])) : Tail(queue[ep])[i] = queue[ep][i + 1]
        /\ \A x \in EndpointId : x # ep => queue'[x] = queue[x]
    BY <2>1, ReceivePops
  <2>4. Known(new)
    <3>1. Head(queue[ep]) = queue[ep][1] /\ 1 \in 1 .. Len(queue[ep])
      BY <2>3
    <3> QED BY <3>1 DEF KnownInv
  <2>7. \A x \in EndpointId : \A i \in 1 .. Len(queue'[x]) :
          \E j \in 1 .. Len(queue[x]) : queue'[x][i].moved = queue[x][j].moved
    <3> SUFFICES ASSUME NEW x \in EndpointId, NEW i \in 1 .. Len(queue'[x])
                 PROVE  \E j \in 1 .. Len(queue[x]) : queue'[x][i].moved = queue[x][j].moved
      OBVIOUS
    <3>1. CASE x # ep
      BY <2>3, <3>1
    <3>2. CASE x = ep
      <4>1. i \in 1 .. Len(Tail(queue[ep]))
        BY <2>3, <3>2
      <4>2. queue'[ep][i] = queue[ep][i + 1]
        BY <2>3, <4>1
      <4>3. i + 1 \in 1 .. Len(queue[ep])
        BY <2>3, <4>1
      <4> QED BY <3>2, <4>2, <4>3
    <3> QED BY <3>1, <3>2
  <2>5. CASE new = None
    <3>1. caps' = caps
      BY <2>1, <2>5 DEF Receive
    <3>2. AddsOnly(new)
      BY <2>7, <3>1 DEF AddsOnly
    <3> HIDE DEF new
    <3> QED BY <1>1, <2>2, <2>4, <3>2, KnownStays
  <2>6. CASE new # None
    <3>1. PICK slot : caps' = [caps EXCEPT ![p][slot] = new]
      BY <2>1, <2>6 DEF Receive, Install
    <3> HIDE DEF new
    <3>2. \A q \in Holder, s \in Slot : caps'[q][s] \in {caps[q][s], None, new}
      BY <3>1 DEF CapTypeOK
    <3>3. AddsOnly(new)
      BY <2>7, <3>2 DEF AddsOnly
    <3> QED BY <1>1, <2>2, <2>4, <3>3, KnownStays
  <2> QED BY <2>5, <2>6
<1> QED BY <1>3, <1>4, <1>5, <1>6, <1>7, <1>8, <1>9, <1>10 DEF CapNext

----------------------------------------------------------------------------
(* Changes of the abstract state, from what is true of each capability.      *)

LEMMA HoldsPlus ==
  ASSUME NEW p \in Holder, NEW T,
         \A q \in Holder : \A tok :
           tok \in HoldsNow'[q] <=> tok \in HoldsNow[q] \/ (q = p /\ tok \in T)
  PROVE  HoldsNow' = [HoldsNow EXCEPT ![p] = @ \cup T]
<1> DEFINE H == HoldsNow
           G == HoldsNow'
<1>1. H = [q \in Holder |-> H[q]] /\ G = [q \in Holder |-> G[q]]
  BY DEF HoldsNow
<1> HIDE DEF H, G
<1>2. ASSUME NEW q \in Holder
      PROVE  G[q] = IF q = p THEN H[p] \cup T ELSE H[q]
  BY DEF H, G
<1>3. G = [H EXCEPT ![p] = @ \cup T]
  BY <1>1, <1>2
<1> QED BY <1>3 DEF H, G

LEMMA UnderWayPlus ==
  ASSUME NEW e \in EndpointId, NEW T,
         \A x \in EndpointId : \A tok :
           tok \in UnderWay'[x] <=> tok \in UnderWay[x] \/ (x = e /\ tok \in T)
  PROVE  UnderWay' = [UnderWay EXCEPT ![e] = @ \cup T]
<1> DEFINE H == UnderWay
           G == UnderWay'
<1>1. H = [x \in EndpointId |-> H[x]] /\ G = [x \in EndpointId |-> G[x]]
  BY DEF UnderWay
<1> HIDE DEF H, G
<1>2. ASSUME NEW x \in EndpointId
      PROVE  G[x] = IF x = e THEN H[e] \cup T ELSE H[x]
  BY DEF H, G
<1>3. G = [H EXCEPT ![e] = @ \cup T]
  BY <1>1, <1>2
<1> QED BY <1>3 DEF H, G

\* Installing a capability that is valid adds its token; one that is not valid
\* adds nothing.
LEMMA InstallHolds ==
  ASSUME CapTypeOK, NEW p \in live, p \in Holder, NEW cap, cap # None,
         Install(p, cap), UNCHANGED <<live, alive, generation>>
  PROVE  /\ Valid(cap) => HoldsNow' = [HoldsNow EXCEPT ![p] = @ \cup {Tok(cap)}]
         /\ ~ Valid(cap) => HoldsNow' = HoldsNow
<1>1. \A c : Valid(c)' <=> Valid(c)
  BY DEF Valid
<1>2. ASSUME NEW q \in Holder, NEW tok
      PROVE  tok \in HoldsNow'[q] <=>
               tok \in HoldsNow[q] \/ (q = p /\ Valid(cap) /\ tok = Tok(cap))
  <2>1. CASE q # p
    <3>1. \A c : Has(q, c)' <=> Has(q, c)
      BY <2>1, InstallMembers DEF Has
    <3> QED BY <1>1, <2>1, <3>1, HoldsMember
  <2>2. CASE q = p
    <3>1. \A c : c # None => (Has(p, c)' <=> c = cap \/ Has(p, c))
      BY InstallMembers
    <3>2. \A c : Valid(c) => c # None
      BY DEF Valid
    <3>3. p \in live' /\ p \in live
      OBVIOUS
    <3> QED BY <1>1, <2>2, <3>1, <3>2, <3>3, HoldsMember
  <2> QED BY <2>1, <2>2
<1>3. ASSUME Valid(cap)
      PROVE  HoldsNow' = [HoldsNow EXCEPT ![p] = @ \cup {Tok(cap)}]
  <2>1. \A q \in Holder : \A tok :
          tok \in HoldsNow'[q] <=> tok \in HoldsNow[q] \/ (q = p /\ tok \in {Tok(cap)})
    BY <1>2, <1>3
  <2> QED BY <2>1, HoldsPlus
<1>4. ASSUME ~ Valid(cap)
      PROVE  HoldsNow' = HoldsNow
  <2>1. \A q \in Holder : HoldsNow'[q] = HoldsNow[q]
    BY <1>2, <1>4
  <2> QED BY <2>1 DEF HoldsNow
<1> QED BY <1>3, <1>4

LEMMA TokIsToken ==
  ASSUME NEW cap \in Capability
  PROVE  Tok(cap) \in Authority!Token /\ Tok(cap).endpoint = cap.endpoint
                                      /\ Tok(cap).rights = cap.rights
  BY DEF Tok, Capability, Authority!Token

----------------------------------------------------------------------------
(* Every operation is a step of CapAuthority, or a stutter.                  *)

LEMMA CreateProcessImplements ==
  ASSUME CapInv, NEW p \in Holder, CreateProcess(p)
  PROVE  UNCHANGED Authority!authVars
<1>1. /\ p \notin live /\ live' = live \cup {p}
      /\ caps' = [caps EXCEPT ![p] = [s \in Slot |-> None]]
      /\ UNCHANGED <<endpoints, owner, generation, alive, queue>>
  BY DEF CreateProcess, endpointVars
<1>2. StatusNow' = StatusNow /\ UnderWay' = UnderWay
  BY <1>1 DEF StatusNow, UnderWay, TokensOf, Valid
<1>3. \A c : (Valid(c)' <=> Valid(c)) /\ (Valid(c) => c # None)
  BY <1>1 DEF Valid
<1>4. ASSUME NEW q \in Holder PROVE HoldsNow'[q] = HoldsNow[q]
  <2>1. CASE q # p
    <3>1. \A c : Has(q, c)' <=> Has(q, c)
      BY <1>1, <2>1 DEF Has, CapInv, CapTypeOK
    <3>2. q \in live' <=> q \in live
      BY <1>1, <2>1
    <3>3. \A tok : tok \in HoldsNow'[q] <=> tok \in HoldsNow[q]
      BY <1>3, <3>1, <3>2, HoldsMember
    <3> QED BY <3>3 DEF HoldsNow
  <2>2. CASE q = p
    <3>1. \A c : Has(p, c)' => c = None
      BY <1>1 DEF Has, CapInv, CapTypeOK
    <3>2. \A tok : tok \notin HoldsNow'[p] /\ tok \notin HoldsNow[p]
      BY <1>1, <1>3, <3>1, HoldsMember
    <3>3. HoldsNow[p] = {}
      BY <1>1 DEF HoldsNow
    <3>4. HoldsNow'[p] = {}
      BY <3>2
    <3> QED BY <2>2, <3>3, <3>4
  <2> QED BY <2>1, <2>2
<1>5. HoldsNow' = HoldsNow
  BY <1>4 DEF HoldsNow
<1> QED BY <1>1, <1>2, <1>5 DEF Authority!authVars

\* Mint and bootstrap_grant: issue, unless the endpoint is dead.
LEMMA IssueImplements ==
  ASSUME CapInv, NEW p \in live, p \in Holder, NEW ep \in EndpointId, NEW want,
         owner[ep] = p \/ <<p, ep>> \in Bootstrap,
         Install(p, Issued(ep, want)), UNCHANGED <<live, endpointVars>>
  PROVE  [Authority!AuthNext]_Authority!authVars
<1> DEFINE cap == Issued(ep, want)
<1>1. cap \in Capability /\ cap # None /\ cap.endpoint = ep
  BY IssuedTypes, CapAssumption DEF CapInv, Issued
<1>2. Valid(cap) <=> ep \in alive
  BY <1>1 DEF Valid, Issued
<1> HIDE DEF cap
<1>3. UNCHANGED <<live, endpoints, owner, generation, alive, queue>>
  BY DEF endpointVars
<1>4. StatusNow' = StatusNow /\ UnderWay' = UnderWay
  BY <1>3 DEF StatusNow, UnderWay, TokensOf, Valid
<1>5. Install(p, cap)
  BY DEF cap
<1>6. CASE ep \in alive
  <2>1. HoldsNow' = [HoldsNow EXCEPT ![p] = @ \cup {Tok(cap)}]
    BY <1>1, <1>2, <1>3, <1>5, <1>6, InstallHolds DEF CapInv
  <2>2. StatusNow[ep] = "open"
    BY <1>6, StatusMember DEF CapInv
  <2>3. Tok(cap) \in Authority!Token /\ Tok(cap).endpoint = ep
    BY <1>1, TokIsToken
  <2>4. Authority!Issue(p, Tok(cap))
    BY <1>3, <1>4, <2>1, <2>2, <2>3 DEF Authority!Issue
  <2> QED BY <2>3, <2>4 DEF Authority!AuthNext
<1>7. CASE ep \notin alive
  <2>1. HoldsNow' = HoldsNow
    BY <1>1, <1>2, <1>3, <1>5, <1>7, InstallHolds DEF CapInv
  <2> QED BY <1>3, <1>4, <2>1 DEF Authority!authVars
<1> QED BY <1>6, <1>7

\* A new endpoint opens; a full table only leaves its owner without a token.
LEMMA CreateEndpointImplements ==
  ASSUME CapInv, KnownInv, NEW p \in Holder, CreateEndpoint(p)
  PROVE  [Authority!AuthNext]_Authority!authVars
<1>0. PICK ep, cap : /\ ep = endpoints
                     /\ cap = [endpoint |-> ep, generation |-> 0, rights |-> Right]
  OBVIOUS
<1>1. /\ p \in live /\ endpoints < MaxEndpoints
      /\ endpoints' = ep + 1
      /\ owner' = [owner EXCEPT ![ep] = p]
      /\ alive' = alive \cup {ep}
      /\ UNCHANGED <<live, generation, queue>>
      /\ Install(p, cap) \/ UNCHANGED caps
  BY <1>0 DEF CreateEndpoint
<1>2. ep \in EndpointId /\ ep \in Nat /\ ep \notin alive /\ generation[ep] = 0
  <2>1. ep \in Nat
    BY <1>0, EndpointCounters DEF CapInv
  <2>2. ep \in EndpointId
    BY <1>0, <1>1, <2>1, CapAssumption DEF EndpointId
  <2>3. ep \notin alive
    BY <1>0, <2>1 DEF CapInv, CapTypeOK
  <2>4. generation[ep] = 0
    BY <1>0, <2>1, <2>2, EndpointCounters DEF CapInv
  <2> QED BY <2>1, <2>2, <2>3, <2>4
<1>3. Tok(cap) = [endpoint |-> ep, rights |-> Right] /\ cap # None
  <2>1. cap \in Capability
    BY <1>0, <1>2, CapAssumption DEF Capability
  <2> QED BY <1>0, <2>1, CapAssumption DEF Tok
<1>4. Valid(cap)'
  <2>1. cap.endpoint = ep /\ cap.generation = 0
    BY <1>0
  <2> QED BY <1>1, <1>2, <1>3, <2>1 DEF Valid
<1>5. ASSUME NEW c \in Capability, Known(c)
      PROVE  Valid(c)' <=> Valid(c)
  <2>1. c # None => c.endpoint # ep
    BY <1>0, <1>2, <1>5 DEF Known
  <2> QED BY <1>1, <2>1 DEF Valid
<1>6. StatusNow' = [StatusNow EXCEPT ![ep] = "open"]
  <2>1. \A x \in EndpointId : x >= endpoints' <=> x >= ep /\ x # ep
    BY <1>1, <1>2 DEF EndpointId
  <2>2. \A x \in EndpointId : StatusNow'[x] = IF x = ep THEN "open" ELSE StatusNow[x]
    BY <1>0, <1>1, <1>2, <2>1 DEF StatusNow
  <2> QED BY <1>2, <2>2 DEF StatusNow
<1>7. UnderWay' = UnderWay
  <2>1. ASSUME NEW x \in EndpointId, NEW tok
        PROVE  tok \in UnderWay'[x] <=> tok \in UnderWay[x]
    <3>1. \A c : Carries(x, c)' <=> Carries(x, c)
      BY <1>1 DEF Carries
    <3>2. \A c : Carries(x, c) /\ c # None => c \in Capability /\ Known(c)
      BY InQueues DEF CapInv
    <3>3. \A c : (Valid(c) => c # None) /\ (Valid(c)' => c # None)
      BY DEF Valid
    <3> QED BY <1>5, <3>1, <3>2, <3>3, UnderWayMember
  <2> QED BY <2>1 DEF UnderWay
<1>8. ASSUME NEW q \in Holder, NEW c, Has(q, c), c # None
      PROVE  Valid(c)' <=> Valid(c)
  BY <1>5, <1>8, InTables DEF CapInv
<1>9. \A c : (Valid(c) => c # None) /\ (Valid(c)' => c # None)
  BY DEF Valid
<1>10. \/ HoldsNow' = [HoldsNow EXCEPT ![p] = @ \cup {Tok(cap)}]
       \/ HoldsNow' = HoldsNow
  <2>1. CASE Install(p, cap)
    <3>1. ASSUME NEW q \in Holder, NEW tok
          PROVE  tok \in HoldsNow'[q] <=>
                   tok \in HoldsNow[q] \/ (q = p /\ tok \in {Tok(cap)})
      <4>1. CASE q # p
        <5>1. \A c : Has(q, c)' <=> Has(q, c)
          BY <2>1, <4>1, InstallMembers DEF Has, CapInv
        <5> QED BY <1>1, <1>8, <1>9, <4>1, <5>1, HoldsMember
      <4>2. CASE q = p
        <5>1. \A c : c # None => (Has(p, c)' <=> c = cap \/ Has(p, c))
          BY <2>1, InstallMembers DEF CapInv
        <5>2. p \in live /\ p \in live'
          BY <1>1
        <5>3. ASSUME tok \in HoldsNow'[p]
              PROVE  tok \in HoldsNow[p] \/ tok = Tok(cap)
          <6>1. PICK c : Has(p, c)' /\ Valid(c)' /\ tok = Tok(c)
            BY <5>3, HoldsMember
          <6>2. CASE c = cap
            BY <6>1, <6>2
          <6>3. CASE Has(p, c)
            BY <1>8, <1>9, <5>2, <6>1, <6>3, HoldsMember
          <6> QED BY <1>9, <5>1, <6>1, <6>2, <6>3
        <5>4. ASSUME tok \in HoldsNow[p]
              PROVE  tok \in HoldsNow'[p]
          <6>1. PICK c : Has(p, c) /\ Valid(c) /\ tok = Tok(c)
            BY <5>4, HoldsMember
          <6>2. Has(p, c)' /\ Valid(c)'
            BY <1>8, <1>9, <5>1, <6>1
          <6> QED BY <5>2, <6>1, <6>2, HoldsMember
        <5>5. Tok(cap) \in HoldsNow'[p]
          <6>1. Has(p, cap)'
            BY <1>3, <5>1
          <6> QED BY <1>4, <5>2, <6>1, HoldsMember
        <5> QED BY <4>2, <5>3, <5>4, <5>5
      <4> QED BY <4>1, <4>2
    <3> QED BY <3>1, HoldsPlus
  <2>2. CASE UNCHANGED caps
    <3>1. ASSUME NEW q \in Holder, NEW tok
          PROVE  tok \in HoldsNow'[q] <=> tok \in HoldsNow[q]
      <4>1. \A c : Has(q, c)' <=> Has(q, c)
        BY <2>2 DEF Has
      <4> QED BY <1>1, <1>8, <1>9, <4>1, HoldsMember
    <3> QED BY <3>1 DEF HoldsNow
  <2> QED BY <1>1, <2>1, <2>2
<1>11. Authority!Open(p, ep)
  <2>1. StatusNow[ep] = "unborn"
    BY <1>0, <1>2, StatusMember DEF CapInv
  <2> QED BY <1>1, <1>3, <1>6, <1>7, <1>10, <2>1 DEF Authority!Open
<1> QED BY <1>2, <1>11 DEF Authority!AuthNext

\* Revocation withdraws every token of a live endpoint at once.
LEMMA RevokeImplements ==
  ASSUME CapInv, KnownInv, NEW p \in Holder, NEW ep \in EndpointId, Revoke(p, ep)
  PROVE  [Authority!AuthNext]_Authority!authVars
<1>1. /\ generation' = [generation EXCEPT ![ep] = @ + 1]
      /\ queue' = [queue EXCEPT ![ep] = <<>>]
      /\ UNCHANGED <<live, caps, endpoints, owner, alive>>
  BY DEF Revoke
<1>2. \A x \in EndpointId : generation[x] \in Nat
  BY EndpointCounters DEF CapInv
<1>3. ASSUME NEW c \in Capability, Known(c)
      PROVE  Valid(c)' <=> Valid(c) /\ c.endpoint # ep
  <2>1. /\ c.endpoint \in EndpointId /\ c.generation \in Nat
        /\ c # None => c.generation <= generation[c.endpoint]
    BY <1>3, CapAssumption DEF Capability, Known
  <2>2. generation'[c.endpoint] = IF c.endpoint = ep THEN generation[ep] + 1
                                                     ELSE generation[c.endpoint]
    BY <1>1, <2>1 DEF CapInv, CapTypeOK
  <2>3. CASE c.endpoint = ep
    <3>1. c # None => c.generation # generation'[c.endpoint]
      BY <1>2, <2>1, <2>2, <2>3
    <3> QED BY <2>3, <3>1 DEF Valid
  <2>4. CASE c.endpoint # ep
    BY <1>1, <2>2, <2>4 DEF Valid
  <2> QED BY <2>3, <2>4
<1>4. \A c : (Valid(c) => c # None) /\ (Valid(c)' => c # None)
  BY DEF Valid
<1>5. StatusNow' = StatusNow
  BY <1>1 DEF StatusNow
<1>6. ASSUME NEW q \in Holder
      PROVE  HoldsNow'[q] = Authority!Without(HoldsNow[q], {ep})
  <2>1. ASSUME NEW c, Has(q, c), c # None
        PROVE  Valid(c)' <=> Valid(c) /\ Tok(c).endpoint # ep
    BY <1>3, <2>1, InTables DEF CapInv, Tok
  <2>2. \A c : Has(q, c)' <=> Has(q, c)
    BY <1>1 DEF Has
  <2>3. \A tok : tok \in HoldsNow'[q] <=> tok \in HoldsNow[q] /\ tok.endpoint # ep
    BY <1>1, <1>4, <2>1, <2>2, HoldsMember
  <2> QED BY <2>3 DEF Authority!Without
<1>7. ASSUME NEW x \in EndpointId
      PROVE  UnderWay'[x] = IF x = ep THEN {} ELSE Authority!Without(UnderWay[x], {ep})
  <2>1. CASE x = ep
    <3>1. \A c : ~ Carries(ep, c)'
      BY <1>1 DEF Carries, CapInv, CapTypeOK
    <3>2. \A tok : tok \notin UnderWay'[x]
      BY <2>1, <3>1, UnderWayMember
    <3> QED BY <2>1, <3>2
  <2>2. CASE x # ep
    <3>1. ASSUME NEW c, Carries(x, c), c # None
          PROVE  Valid(c)' <=> Valid(c) /\ Tok(c).endpoint # ep
      BY <1>3, <3>1, InQueues DEF CapInv, Tok
    <3>2. \A c : Carries(x, c)' <=> Carries(x, c)
      BY <1>1, <2>2 DEF Carries, CapInv, CapTypeOK
    <3>3. \A tok : tok \in UnderWay'[x] <=> tok \in UnderWay[x] /\ tok.endpoint # ep
      BY <1>4, <3>1, <3>2, UnderWayMember
    <3> QED BY <2>2, <3>3 DEF Authority!Without
  <2> QED BY <2>1, <2>2
<1>8. Authority!Withdraw({ep}, {})
  <2>1. HoldsNow' = [q \in Holder |-> IF q \in {} THEN {}
                                      ELSE Authority!Without(HoldsNow[q], {ep})]
    BY <1>6 DEF HoldsNow
  <2>2. UnderWay' = [x \in EndpointId |-> IF x \in {ep} THEN {}
                       ELSE Authority!Without(UnderWay[x], {ep})]
    BY <1>7 DEF UnderWay
  <2> QED BY <1>1, <2>1, <2>2 DEF Authority!Withdraw
<1>9. CASE ep \in alive
  <2>1. StatusNow[ep] = "open"
    BY <1>9, StatusMember DEF CapInv
  <2> QED BY <1>5, <1>8, <2>1 DEF Authority!Revoke, Authority!AuthNext
<1>10. CASE ep \notin alive
  <2>1. \A c : Valid(c) => Tok(c).endpoint # ep
    BY <1>10 DEF Valid, Tok
  <2>2. ASSUME NEW q \in Holder PROVE HoldsNow'[q] = HoldsNow[q]
    <3>1. \A tok : tok \in HoldsNow[q] => tok.endpoint # ep
      BY <2>1, HoldsMember
    <3> QED BY <1>6, <3>1 DEF Authority!Without
  <2>3. ASSUME NEW x \in EndpointId PROVE UnderWay'[x] = UnderWay[x]
    <3>1. \A tok : tok \in UnderWay[x] => tok.endpoint # ep
      BY <2>1, UnderWayMember
    <3>2. UnderWay[ep] = {}
      BY <1>10 DEF CapInv, EndpointsDieWithOwner, UnderWay, TokensOf
    <3> QED BY <1>7, <3>1, <3>2 DEF Authority!Without
  <2>4. HoldsNow' = HoldsNow
    BY <2>2 DEF HoldsNow
  <2>5. UnderWay' = UnderWay
    BY <2>3 DEF UnderWay
  <2> QED BY <1>1, <1>5, <2>4, <2>5 DEF Authority!authVars
<1> QED BY <1>9, <1>10

\* Death closes the endpoints of the dead and empties its hands.
LEMMA TerminateProcessImplements ==
  ASSUME CapInv, KnownInv, NEW p \in Holder, TerminateProcess(p)
  PROVE  [Authority!AuthNext]_Authority!authVars
<1>0. PICK own : own = { x \in EndpointId : StatusNow[x] = "open" /\ owner[x] = p }
  OBVIOUS
<1>1. PICK mine : mine = { x \in EndpointId : x < endpoints /\ owner[x] = p }
  OBVIOUS
<1>2. /\ live' = live \ {p} /\ alive' = alive \ mine
      /\ queue' = [x \in EndpointId |-> IF x \in mine THEN <<>> ELSE queue[x]]
      /\ UNCHANGED <<caps, endpoints, owner, generation>>
  BY <1>1 DEF TerminateProcess
<1>3. \A x \in EndpointId : x \in own <=> x \in alive /\ x \in mine
  <2>1. \A x \in EndpointId : x \in alive => x < endpoints
    BY DEF CapInv, CapTypeOK, EndpointId
  <2>2. \A x \in EndpointId : StatusNow[x] = "open" <=> x \in alive
    BY StatusMember DEF CapInv
  <2> QED BY <1>0, <1>1, <2>1, <2>2
<1>4. \A c : Valid(c) => c # None
  BY DEF Valid
<1>5. ASSUME NEW c \in Capability
      PROVE  Valid(c)' <=> Valid(c) /\ Tok(c).endpoint \notin own
  <2>1. c.endpoint \in EndpointId
    BY DEF Capability
  <2> QED BY <1>2, <1>3, <2>1 DEF Valid, Tok
<1>6. \A c : Valid(c)' => c # None
  BY DEF Valid
<1>7. ASSUME NEW q \in Holder
      PROVE  HoldsNow'[q] = IF q \in {p} THEN {} ELSE Authority!Without(HoldsNow[q], own)
  <2>1. CASE q = p
    <3>1. \A tok : tok \notin HoldsNow'[q]
      BY <1>2, <2>1, HoldsMember
    <3> QED BY <2>1, <3>1
  <2>2. CASE q # p
    <3>1. ASSUME NEW c, Has(q, c), c # None
          PROVE  Valid(c)' <=> Valid(c) /\ Tok(c).endpoint \notin own
      BY <1>5, <3>1, InTables DEF CapInv
    <3>2. \A c : Has(q, c)' <=> Has(q, c)
      BY <1>2 DEF Has
    <3>3. q \in live' <=> q \in live
      BY <1>2, <2>2
    <3>4. \A tok : tok \in HoldsNow'[q] <=> tok \in HoldsNow[q] /\ tok.endpoint \notin own
      BY <1>4, <1>6, <3>1, <3>2, <3>3, HoldsMember
    <3> QED BY <2>2, <3>4 DEF Authority!Without
  <2> QED BY <2>1, <2>2
<1>8. ASSUME NEW x \in EndpointId
      PROVE  UnderWay'[x] = IF x \in own THEN {} ELSE Authority!Without(UnderWay[x], own)
  <2>1. CASE x \in mine
    <3>1. queue'[x] = <<>>
      BY <1>2, <2>1
    <3>2. UnderWay'[x] = {}
      BY <3>1 DEF UnderWay, TokensOf
    <3>3. CASE x \in own
      BY <3>2, <3>3
    <3>4. CASE x \notin own
      <4>1. queue[x] = <<>>
        BY <1>3, <2>1, <3>4 DEF CapInv, EndpointsDieWithOwner
      <4>2. UnderWay[x] = {}
        BY <4>1 DEF UnderWay, TokensOf
      <4> QED BY <3>2, <3>4, <4>2 DEF Authority!Without
    <3> QED BY <3>3, <3>4
  <2>2. CASE x \notin mine
    <3>1. ASSUME NEW c, Carries(x, c), c # None
          PROVE  Valid(c)' <=> Valid(c) /\ Tok(c).endpoint \notin own
      BY <1>5, <3>1, InQueues DEF CapInv
    <3>2. \A c : Carries(x, c)' <=> Carries(x, c)
      BY <1>2, <2>2 DEF Carries
    <3>3. \A tok : tok \in UnderWay'[x] <=> tok \in UnderWay[x] /\ tok.endpoint \notin own
      BY <1>4, <1>6, <3>1, <3>2, UnderWayMember
    <3>4. x \notin own
      BY <1>3, <2>2
    <3> QED BY <3>3, <3>4 DEF Authority!Without
  <2> QED BY <2>1, <2>2
<1>9. Authority!Withdraw(own, {p})
  <2>1. HoldsNow' = [q \in Holder |-> IF q \in {p} THEN {}
                                      ELSE Authority!Without(HoldsNow[q], own)]
    BY <1>7 DEF HoldsNow
  <2>2. UnderWay' = [x \in EndpointId |-> IF x \in own THEN {}
                       ELSE Authority!Without(UnderWay[x], own)]
    BY <1>8 DEF UnderWay
  <2> QED BY <1>2, <2>1, <2>2 DEF Authority!Withdraw
<1>10. StatusNow' = [x \in EndpointId |-> IF x \in own THEN "closed" ELSE StatusNow[x]]
  <2>1. ASSUME NEW x \in EndpointId
        PROVE  StatusNow'[x] = IF x \in own THEN "closed" ELSE StatusNow[x]
    <3>1. x \in own => ~ x >= endpoints
      BY <1>3, StatusMember DEF CapInv, StatusNow
    <3>2. x \in alive' <=> x \in alive /\ x \notin own
      BY <1>2, <1>3
    <3> QED BY <1>2, <3>1, <3>2 DEF StatusNow
  <2> QED BY <2>1 DEF StatusNow
<1>11. Authority!Die(p)
  BY <1>0, <1>9, <1>10 DEF Authority!Die
<1> QED BY <1>11 DEF Authority!AuthNext

\* A queue that grows by one message carries the capability of that message too.
LEMMA AppendCarries ==
  ASSUME CapTypeOK, NEW e \in EndpointId, NEW msg, NEW new, msg.moved = new,
         queue' = [queue EXCEPT ![e] = Append(@, msg)],
         queue'[e] \in Seq(Queued)
  PROVE  /\ \A x \in EndpointId : x # e => queue'[x] = queue[x]
         /\ \A c : Carries(e, c)' <=> c = new \/ Carries(e, c)
<1>1. /\ queue[e] \in Seq(Queued) /\ Len(queue[e]) \in Nat
      /\ queue'[e] = Append(queue[e], msg)
  BY DEF CapTypeOK
<1>2. /\ Len(queue'[e]) = Len(queue[e]) + 1
      /\ queue'[e][Len(queue[e]) + 1] = msg
      /\ \A i \in 1 .. Len(queue[e]) : queue'[e][i] = queue[e][i]
  BY <1>1
<1>3. ASSUME NEW c, Carries(e, c)' PROVE c = new \/ Carries(e, c)
  <2>1. PICK i \in 1 .. Len(queue'[e]) : queue'[e][i].moved = c
    BY <1>3 DEF Carries
  <2>2. i = Len(queue[e]) + 1 \/ i \in 1 .. Len(queue[e])
    BY <1>1, <1>2
  <2> QED BY <1>2, <2>1, <2>2 DEF Carries
<1>4. ASSUME NEW c, Carries(e, c) PROVE Carries(e, c)'
  <2>1. PICK i \in 1 .. Len(queue[e]) : queue[e][i].moved = c
    BY <1>4 DEF Carries
  <2>2. i \in 1 .. Len(queue'[e]) /\ queue'[e][i].moved = c
    BY <1>1, <1>2, <2>1
  <2> QED BY <2>2 DEF Carries
<1>5. Carries(e, new)'
  <2>1. Len(queue[e]) + 1 \in 1 .. Len(queue'[e])
    BY <1>1, <1>2
  <2> QED BY <1>2, <2>1 DEF Carries
<1>6. \A x \in EndpointId : x # e => queue'[x] = queue[x]
  BY DEF CapTypeOK
<1> QED BY <1>3, <1>4, <1>5, <1>6

\* A message delegates what it carries, if that is still worth anything.
LEMMA SendImplements ==
  ASSUME CapInv, KnownInv, NEW p \in Holder, NEW h \in Slot,
         NEW transfer \in Transfer, Send(p, h, transfer)
  PROVE  [Authority!AuthNext]_Authority!authVars
<1>1. PICK cap, e, new, msg :
        /\ cap = Lookup(p, h) /\ e = cap.endpoint /\ new = Moved(p, transfer)
        /\ msg = [sender |-> p, moved |-> new, via |-> cap.generation]
        /\ queue' = [queue EXCEPT ![e] = Append(@, msg)]
  BY DEF Send
<1>2. /\ cap # None /\ e \in alive /\ generation[e] = cap.generation
      /\ UNCHANGED <<live, caps, endpoints, owner, generation, alive>>
      /\ TransferAllowed(p, transfer)
  BY <1>1 DEF Send
<1>3. cap \in Capability /\ e \in EndpointId /\ msg.moved = new
  BY <1>1, <1>2, LookupTypes DEF CapInv, Capability
<1>4. p \in live /\ Has(p, cap) /\ Valid(cap)
  BY <1>1, <1>2 DEF Lookup, Has, Valid
<1>5. CapInv'
  BY SendKeepsInv
<1>6. queue'[e] \in Seq(Queued)
  BY <1>3, <1>5 DEF CapInv, CapTypeOK
<1>7. /\ \A x \in EndpointId : x # e => queue'[x] = queue[x]
      /\ \A c : Carries(e, c)' <=> c = new \/ Carries(e, c)
  <2>1. CapTypeOK
    BY DEF CapInv
  <2>2. queue' = [queue EXCEPT ![e] = Append(@, msg)]
    BY <1>1
  <2> QED BY ONLY <1>3, <1>6, <2>1, <2>2, AppendCarries
<1>8. \A c : (Valid(c)' <=> Valid(c)) /\ (Valid(c) => c # None)
  BY <1>2 DEF Valid
<1>9. StatusNow' = StatusNow /\ HoldsNow' = HoldsNow
  BY <1>2 DEF StatusNow, HoldsNow, TokensOf, Valid
<1>10. ASSUME NEW x \in EndpointId, NEW tok
       PROVE  tok \in UnderWay'[x] <=>
                tok \in UnderWay[x] \/ (x = e /\ Valid(new) /\ tok = Tok(new))
  <2>1. CASE x # e
    <3>1. \A c : Carries(x, c)' <=> Carries(x, c)
      BY <1>7, <2>1 DEF Carries
    <3> QED BY <1>8, <2>1, <3>1, UnderWayMember
  <2>2. CASE x = e
    BY <1>7, <1>8, <2>2, UnderWayMember
  <2> QED BY <2>1, <2>2
<1>11. CASE ~ Valid(new)
  <2>1. \A x \in EndpointId : UnderWay'[x] = UnderWay[x]
    BY <1>10, <1>11
  <2>2. UnderWay' = UnderWay
    BY <2>1 DEF UnderWay
  <2> QED BY <1>2, <1>9, <2>2 DEF Authority!authVars
<1>12. CASE Valid(new)
  <2>1. transfer # None
    BY <1>1, <1>8, <1>12 DEF Moved
  <2>2. PICK held : held = Lookup(p, transfer.handle)
    OBVIOUS
  <2>3. /\ held # None /\ "GRANT" \in held.rights
        /\ transfer.want \subseteq held.rights
        /\ held.generation = generation[held.endpoint]
    BY <1>2, <2>1, <2>2 DEF TransferAllowed
  <2>4. transfer.handle \in Slot
    BY <2>1 DEF Transfer
  <2>5. held \in Capability /\ Has(p, held)
    BY <1>4, <2>2, <2>3, <2>4, LookupTypes DEF CapInv, Has, Lookup
  <2>6. new = [held EXCEPT !.rights = transfer.want]
    BY <1>1, <2>1, <2>2 DEF Moved
  <2>7. /\ new.endpoint = held.endpoint /\ new.rights = transfer.want
        /\ new.generation = held.generation
    BY <2>5, <2>6 DEF Capability
  <2>8. Valid(held)
    BY <1>12, <2>3, <2>7 DEF Valid
  <2>9. Tok(held) \in HoldsNow[p] /\ Tok(cap) \in HoldsNow[p]
    BY <1>4, <2>5, <2>8, HoldsMember
  <2>10. Tok(new) \in Authority!Token
    <3>1. new \in Capability
      BY <1>1, <1>2, <1>8, <1>12, MovedTypes DEF CapInv
    <3> QED BY <3>1, TokIsToken
  <2>11. UnderWay' = [UnderWay EXCEPT ![e] = @ \cup {Tok(new)}]
    <3>1. \A x \in EndpointId : \A tok :
            tok \in UnderWay'[x] <=> tok \in UnderWay[x] \/ (x = e /\ tok \in {Tok(new)})
      BY <1>10, <1>12
    <3> QED BY <1>3, <3>1, UnderWayPlus
  <2>12. Authority!Delegate(p, e, Tok(new))
    <3>1. Tok(cap).endpoint = e
      BY <1>1 DEF Tok
    <3>2. /\ Tok(held).endpoint = Tok(new).endpoint
          /\ "GRANT" \in Tok(held).rights /\ Tok(new).rights \subseteq Tok(held).rights
      BY <2>3, <2>7 DEF Tok
    <3> QED BY <1>2, <1>9, <2>9, <2>11, <3>1, <3>2 DEF Authority!Delegate
  <2> QED BY <1>3, <2>10, <2>12 DEF Authority!AuthNext
<1> QED BY <1>11, <1>12

\* What a queue carries is what its first message carries and what the rest does.
LEMMA TailCarries ==
  ASSUME CapInv, NEW p \in Holder, NEW ep \in EndpointId, Receive(p, ep)
  PROVE  /\ \A x \in EndpointId : x # ep => queue'[x] = queue[x]
         /\ \A c : Carries(ep, c) <=> c = Head(queue[ep]).moved \/ Carries(ep, c)'
<1>1. /\ queue[ep] \in Seq(Queued) /\ queue[ep] # <<>>
      /\ queue'[ep] = Tail(queue[ep]) /\ Len(queue[ep]) \in Nat
      /\ Len(Tail(queue[ep])) = Len(queue[ep]) - 1
      /\ \A i \in 1 .. Len(Tail(queue[ep])) : Tail(queue[ep])[i] = queue[ep][i + 1]
      /\ \A x \in EndpointId : x # ep => queue'[x] = queue[x]
  BY ReceivePops
<1>2. /\ Head(queue[ep]) = queue[ep][1] /\ 1 \in 1 .. Len(queue[ep])
  BY <1>1
<1>3. ASSUME NEW c, Carries(ep, c)
      PROVE  c = Head(queue[ep]).moved \/ Carries(ep, c)'
  <2>1. PICK i \in 1 .. Len(queue[ep]) : queue[ep][i].moved = c
    BY <1>3 DEF Carries
  <2>2. CASE i = 1
    BY <1>2, <2>1, <2>2
  <2>3. CASE i # 1
    <3>1. PICK k : k = i - 1
      OBVIOUS
    <3>2. k \in 1 .. Len(Tail(queue[ep])) /\ k + 1 = i
      BY <1>1, <2>1, <2>3, <3>1
    <3>3. k \in 1 .. Len(queue'[ep]) /\ queue'[ep][k].moved = c
      BY <1>1, <2>1, <3>2
    <3> QED BY <3>3 DEF Carries
  <2> QED BY <2>2, <2>3
<1>4. ASSUME NEW c, Carries(ep, c)' PROVE Carries(ep, c)
  <2>1. PICK i \in 1 .. Len(queue'[ep]) : queue'[ep][i].moved = c
    BY <1>4 DEF Carries
  <2>2. i \in 1 .. Len(Tail(queue[ep]))
    BY <1>1, <2>1
  <2>3. i + 1 \in 1 .. Len(queue[ep]) /\ queue[ep][i + 1].moved = c
    BY <1>1, <2>1, <2>2
  <2> QED BY <2>3 DEF Carries
<1>5. Carries(ep, Head(queue[ep]).moved)
  BY <1>2 DEF Carries
<1> QED BY <1>1, <1>3, <1>4, <1>5

\* A message that carries a token still good is an acceptance of that token.
LEMMA ReceiveImplements ==
  ASSUME CapInv, KnownInv, NEW p \in Holder, NEW ep \in EndpointId, Receive(p, ep)
  PROVE  [Authority!AuthNext]_Authority!authVars
<1>1. PICK new : new = Head(queue[ep]).moved
  OBVIOUS
<1>2. /\ owner[ep] = p /\ p \in live
      /\ (new = None /\ UNCHANGED caps) \/ Install(p, new)
      /\ UNCHANGED <<live, endpoints, owner, generation, alive>>
  BY <1>1 DEF Receive
<1>3. /\ \A x \in EndpointId : x # ep => queue'[x] = queue[x]
      /\ \A c : Carries(ep, c) <=> c = new \/ Carries(ep, c)'
  BY <1>1, TailCarries
<1>4. \A c : (Valid(c)' <=> Valid(c)) /\ (Valid(c) => c # None)
  BY <1>2 DEF Valid
<1>5. StatusNow' = StatusNow
  BY <1>2 DEF StatusNow
<1>6. \A x \in EndpointId : x # ep => UnderWay'[x] = UnderWay[x]
  BY <1>2, <1>3 DEF UnderWay, TokensOf, Valid
<1>7. \A tok : tok \in UnderWay[ep] <=>
        tok \in UnderWay'[ep] \/ (Valid(new) /\ tok = Tok(new))
  BY <1>3, <1>4, UnderWayMember
<1>8. CASE ~ Valid(new)
  <2>1. UnderWay'[ep] = UnderWay[ep]
    BY <1>7, <1>8
  <2>2. UnderWay' = UnderWay
    <3>1. \A x \in EndpointId : UnderWay'[x] = UnderWay[x]
      BY <1>6, <2>1
    <3> QED BY <3>1 DEF UnderWay
  <2>3. HoldsNow' = HoldsNow
    <3>1. CASE new = None /\ UNCHANGED caps
      BY <1>2, <3>1 DEF HoldsNow, TokensOf, Valid
    <3>2. CASE Install(p, new) /\ new # None
      BY <1>2, <1>8, <3>2, InstallHolds DEF CapInv
    <3>3. CASE Install(p, new) /\ new = None
      <4>1. ASSUME NEW q \in Holder, NEW s \in Slot PROVE caps'[q][s] = caps[q][s]
        <5>1. PICK slot : slot \in Slot /\ caps[p][slot] = None
                          /\ caps' = [caps EXCEPT ![p][slot] = None]
          <6> DEFINE S == FreeSlots(p)
                     slot == CHOOSE r \in S : \A t \in S : r <= t
          <6>1. S # {} /\ S \in SUBSET Nat
            BY <3>3 DEF Install, FreeSlots, Slot
          <6>2. slot \in S
            BY <6>1, LeastNatural
          <6>3. caps' = [caps EXCEPT ![p][slot] = None]
            BY <3>3 DEF Install
          <6> QED BY <6>2, <6>3 DEF FreeSlots
        <5> QED BY <5>1 DEF CapInv, CapTypeOK
      <4>2. \A q \in Holder : \A c : Has(q, c)' <=> Has(q, c)
        BY <4>1 DEF Has
      <4>3. \A q \in Holder : \A tok : tok \in HoldsNow'[q] <=> tok \in HoldsNow[q]
        BY <1>2, <1>4, <4>2, HoldsMember
      <4> QED BY <4>3 DEF HoldsNow
    <3> QED BY <1>2, <3>1, <3>2, <3>3
  <2> QED BY <1>2, <1>5, <2>2, <2>3 DEF Authority!authVars
<1>9. CASE Valid(new)
  <2>1. new # None /\ Install(p, new)
    BY <1>2, <1>4, <1>9
  <2>2. Tok(new) \in UnderWay[ep]
    BY <1>7, <1>9
  <2>3. HoldsNow' = [HoldsNow EXCEPT ![owner[ep]] = @ \cup {Tok(new)}]
    BY <1>2, <1>9, <2>1, InstallHolds DEF CapInv
  <2>4. UnderWay' = UnderWay \/ UnderWay' = [UnderWay EXCEPT ![ep] = @ \ {Tok(new)}]
    <3>1. CASE Tok(new) \in UnderWay'[ep]
      <4>1. \A x \in EndpointId : UnderWay'[x] = UnderWay[x]
        BY <1>6, <1>7, <3>1
      <4> QED BY <4>1 DEF UnderWay
    <3>2. CASE Tok(new) \notin UnderWay'[ep]
      <4>1. UnderWay'[ep] = UnderWay[ep] \ {Tok(new)}
        BY <1>7, <1>9, <3>2
      <4> DEFINE H == UnderWay
                 G == UnderWay'
      <4>2. H = [x \in EndpointId |-> H[x]] /\ G = [x \in EndpointId |-> G[x]]
        BY DEF UnderWay
      <4> HIDE DEF H, G
      <4>3. ASSUME NEW x \in EndpointId
            PROVE  G[x] = IF x = ep THEN H[ep] \ {Tok(new)} ELSE H[x]
        BY <1>6, <4>1 DEF H, G
      <4>4. G = [H EXCEPT ![ep] = @ \ {Tok(new)}]
        BY <4>2, <4>3
      <4> QED BY <4>4 DEF H, G
    <3> QED BY <3>1, <3>2
  <2>5. Tok(new) \in Authority!Token
    <3>1. Carries(ep, new)
      BY <1>3
    <3>2. new \in Capability
      BY <2>1, <3>1, InQueues DEF CapInv
    <3> QED BY <3>2, TokIsToken
  <2>6. Authority!Accept(ep, Tok(new))
    BY <1>2, <1>5, <2>2, <2>3, <2>4 DEF Authority!Accept
  <2> QED BY <2>5, <2>6 DEF Authority!AuthNext
<1> QED BY <1>8, <1>9

----------------------------------------------------------------------------
LEMMA InitImplements == CapInit => KnownInv /\ Authority!AuthInit
<1> SUFFICES ASSUME CapInit PROVE KnownInv /\ Authority!AuthInit
  OBVIOUS
<1>1. KnownInv
  BY DEF CapInit, KnownInv, Known
<1>2. StatusNow = [x \in EndpointId |-> "unborn"]
  BY DEF CapInit, StatusNow, EndpointId
<1>3. HoldsNow = [p \in Holder |-> {}]
  BY DEF CapInit, HoldsNow
<1>4. \A c : ~ Valid(c)
  BY DEF CapInit, Valid
<1>5. UnderWay = [x \in EndpointId |-> {}]
  BY <1>4 DEF UnderWay, TokensOf
<1>6. owner = [x \in EndpointId |-> None]
  BY DEF CapInit
<1> QED BY <1>1, <1>2, <1>3, <1>5, <1>6 DEF Authority!AuthInit

LEMMA NextImplements ==
  ASSUME CapInv, KnownInv, [CapNext]_capVars
  PROVE  [Authority!AuthNext]_Authority!authVars
<1>1. CASE \E p \in Holder : CreateProcess(p)
  BY <1>1, CreateProcessImplements
<1>2. CASE \E p \in Holder : TerminateProcess(p)
  BY <1>2, TerminateProcessImplements
<1>3. CASE \E p \in Holder : CreateEndpoint(p)
  BY <1>3, CreateEndpointImplements
<1>4. CASE \E p \in Holder, ep \in EndpointId : Revoke(p, ep)
  BY <1>4, RevokeImplements
<1>5. CASE \E p \in Holder, ep \in EndpointId, want \in Want :
             Mint(p, ep, want) \/ BootstrapGrant(p, ep, want)
  <2>1. PICK p \in Holder, ep \in EndpointId, want \in Want :
          Mint(p, ep, want) \/ BootstrapGrant(p, ep, want)
    BY <1>5
  <2>2. /\ owner[ep] = p \/ <<p, ep>> \in Bootstrap
        /\ Install(p, Issued(ep, want)) /\ UNCHANGED <<live, endpointVars>>
    BY <2>1 DEF Mint, BootstrapGrant
  <2>3. p \in live
    BY <2>1 DEF Mint, BootstrapGrant
  <2> QED BY <2>2, <2>3, IssueImplements
<1>6. CASE \E p \in Holder, h \in Slot, transfer \in Transfer : Send(p, h, transfer)
  BY <1>6, SendImplements
<1>7. CASE \E p \in Holder, ep \in EndpointId : Receive(p, ep)
  BY <1>7, ReceiveImplements
<1>8. CASE UNCHANGED capVars
  <2>1. UNCHANGED <<live, caps, endpoints, owner, generation, alive, queue>>
    BY <1>8 DEF capVars, endpointVars
  <2> QED BY <2>1 DEF Authority!authVars, StatusNow, HoldsNow, UnderWay, TokensOf, Valid
<1> QED BY <1>1, <1>2, <1>3, <1>4, <1>5, <1>6, <1>7, <1>8 DEF CapNext

\* The capability machine implements the authority it promises: no sequence of
\* create, mint, grant, send, receive, revoke and terminate calls creates,
\* widens, moves or keeps alive authority in any other way (caps.rs).
THEOREM TablesImplementAuthority == CapSpec => AuthorityIsKept
<1>1. CapSpec => []KnownInv
  BY InitImplements, NextKnownInv, CapInvariant, PTL DEF CapSpec
<1> QED
  BY <1>1, InitImplements, NextImplements, CapInvariant, PTL
     DEF CapSpec, AuthorityIsKept, Authority!AuthSpec

----------------------------------------------------------------------------
(* Isolation: holders that have no authority over one another's endpoints.   *)

\* p and the owner of x are both inside the island, or both outside.
SameSide(I, p, x) == p \in I <=> owner[x] \in I

\* No usable capability crosses the shore, neither in a table nor under way.
Sealed(I) ==
  /\ \A p \in Holder : \A tok \in HoldsNow[p] : SameSide(I, p, tok.endpoint)
  /\ \A x \in EndpointId : \A tok \in UnderWay[x] :
        SameSide(I, owner[x], tok.endpoint)

\* Nor would a bootstrap grant.
KernelKeepsApart(I) ==
  \A p \in Holder, x \in EndpointId :
    <<p, x>> \in Bootstrap /\ x \in alive => SameSide(I, p, x)

\* What is held or under way is authority over an endpoint that is alive.
LEMMA TokensAreOpen ==
  ASSUME CapInv, NEW tok
  PROVE  /\ \A p \in Holder : tok \in HoldsNow[p] => tok.endpoint \in alive
         /\ \A x \in EndpointId : tok \in UnderWay[x] => tok.endpoint \in alive
<1>1. \A c : Valid(c) => Tok(c).endpoint \in alive
  BY DEF Valid, Tok
<1>2. \A p \in Holder : tok \in HoldsNow[p] => tok.endpoint \in alive
  BY <1>1, HoldsMember
<1>3. \A x \in EndpointId : tok \in UnderWay[x] => tok.endpoint \in alive
  BY <1>1, UnderWayMember
<1> QED BY <1>2, <1>3

\* Nothing is under way to an endpoint that is not alive.
LEMMA NothingToTheDead ==
  ASSUME CapInv, NEW x \in EndpointId, x \notin alive
  PROVE  UnderWay[x] = {}
<1>1. Len(queue[x]) = 0
  BY DEF CapInv, EndpointsDieWithOwner
<1>2. \A c : ~ Carries(x, c)
  BY <1>1 DEF Carries
<1>3. \A tok : tok \notin UnderWay[x]
  BY <1>2, UnderWayMember
<1> QED BY <1>3

\* A step in which the owners stay and every token was there before.
LEMMA NoneNewKeepsSealed ==
  ASSUME NEW I, Sealed(I), owner' = owner,
         \A p \in Holder : HoldsNow'[p] \subseteq HoldsNow[p],
         \A x \in EndpointId : UnderWay'[x] \subseteq UnderWay[x]
  PROVE  Sealed(I)'
  BY DEF Sealed, SameSide

\* An island stays sealed in every step of CapAuthority.
LEMMA AuthorityKeepsSealed ==
  ASSUME CapInv, NEW I \in SUBSET Holder, Sealed(I), KernelKeepsApart(I),
         Authority!AuthNext
  PROVE  Sealed(I)'
<1>0. CapTypeOK /\ alive \subseteq EndpointId
  BY CapAssumption DEF CapInv, CapTypeOK, EndpointId
<1>1. ASSUME NEW p \in Holder, NEW x \in EndpointId, Authority!Open(p, x)
      PROVE  Sealed(I)'
  <2> DEFINE all == [endpoint |-> x, rights |-> Right]
  <2>1. x \notin alive /\ UnderWay' = UnderWay /\ owner' = [owner EXCEPT ![x] = p]
    BY <1>0, <1>1, StatusMember DEF Authority!Open, CapTypeOK, EndpointId
  <2>2. \A q \in Holder : HoldsNow'[q] \subseteq
            HoldsNow[q] \cup (IF q = p THEN {all} ELSE {})
    BY <1>1 DEF Authority!Open, HoldsNow
  <2>3. \A y \in EndpointId : owner'[y] = IF y = x THEN p ELSE owner[y]
    BY <1>0, <2>1 DEF CapTypeOK
  <2>4. ASSUME NEW q \in Holder, NEW tok \in HoldsNow'[q]
        PROVE  q \in I <=> owner'[tok.endpoint] \in I
    <3>1. CASE tok \in HoldsNow[q]
      <4>1. tok.endpoint \in EndpointId \ {x}
        BY <1>0, <2>1, <3>1, TokensAreOpen
      <4> QED BY <2>3, <3>1, <4>1 DEF Sealed, SameSide
    <3>2. CASE q = p /\ tok = all
      <4>1. tok.endpoint = x
        BY <3>2
      <4> QED BY <2>3, <3>2, <4>1
    <3> QED BY <2>2, <3>1, <3>2
  <2>5. ASSUME NEW y \in EndpointId, NEW tok \in UnderWay'[y]
        PROVE  owner'[y] \in I <=> owner'[tok.endpoint] \in I
    <3>1. tok \in UnderWay[y]
      BY <2>1
    <3>2. tok.endpoint \in EndpointId \ {x} /\ y # x
      BY <1>0, <2>1, <3>1, TokensAreOpen, NothingToTheDead
    <3> QED BY <2>3, <3>1, <3>2 DEF Sealed, SameSide
  <2> QED BY <2>4, <2>5 DEF Sealed, SameSide
<1>2. ASSUME NEW p \in Holder, NEW tok \in Authority!Token, Authority!Issue(p, tok)
      PROVE  Sealed(I)'
  <2>1. tok.endpoint \in EndpointId
    BY DEF Authority!Token
  <2>2. tok.endpoint \in alive
    BY <1>0, <1>2, <2>1, StatusMember DEF Authority!Issue
  <2>3. SameSide(I, p, tok.endpoint)
    BY <1>2, <2>1, <2>2 DEF Authority!Issue, SameSide, KernelKeepsApart
  <2>4. /\ owner' = owner /\ UnderWay' = UnderWay
        /\ \A q \in Holder : HoldsNow'[q] \subseteq
              HoldsNow[q] \cup (IF q = p THEN {tok} ELSE {})
    BY <1>2 DEF Authority!Issue, HoldsNow
  <2> QED BY <2>3, <2>4 DEF Sealed, SameSide
<1>3. ASSUME NEW p \in Holder, NEW e \in EndpointId, NEW tok \in Authority!Token,
             Authority!Delegate(p, e, tok)
      PROVE  Sealed(I)'
  <2>1. SameSide(I, p, e) /\ SameSide(I, p, tok.endpoint)
    BY <1>3 DEF Authority!Delegate, Sealed
  <2>2. SameSide(I, owner[e], tok.endpoint)
    BY <2>1 DEF SameSide
  <2>3. /\ owner' = owner /\ HoldsNow' = HoldsNow
        /\ \A x \in EndpointId : UnderWay'[x] \subseteq
              UnderWay[x] \cup (IF x = e THEN {tok} ELSE {})
    BY <1>3 DEF Authority!Delegate, UnderWay
  <2> QED BY <2>2, <2>3 DEF Sealed, SameSide
<1>4. ASSUME NEW e \in EndpointId, NEW tok \in Authority!Token, Authority!Accept(e, tok)
      PROVE  Sealed(I)'
  <2>1. SameSide(I, owner[e], tok.endpoint)
    BY <1>4 DEF Authority!Accept, Sealed
  <2>2. /\ owner' = owner
        /\ \A q \in Holder : HoldsNow'[q] \subseteq
              HoldsNow[q] \cup (IF q = owner[e] THEN {tok} ELSE {})
    BY <1>4 DEF Authority!Accept, HoldsNow
  <2>3. \/ UnderWay' = UnderWay
        \/ UnderWay' = [UnderWay EXCEPT ![e] = @ \ {tok}]
    BY <1>4 DEF Authority!Accept
  <2>4. \A x \in EndpointId : UnderWay'[x] \subseteq UnderWay[x]
    BY <2>3 DEF UnderWay
  <2> QED BY <2>1, <2>2, <2>4 DEF Sealed, SameSide
<1>5. ASSUME NEW x \in EndpointId, Authority!Revoke(x)
      PROVE  Sealed(I)'
  <2>1. /\ owner' = owner
        /\ \A p \in Holder : HoldsNow'[p] \subseteq HoldsNow[p]
        /\ \A y \in EndpointId : UnderWay'[y] \subseteq UnderWay[y]
    BY <1>5 DEF Authority!Revoke, Authority!Withdraw, Authority!Without
  <2> QED BY <2>1, NoneNewKeepsSealed
<1>6. ASSUME NEW p \in Holder, Authority!Die(p)
      PROVE  Sealed(I)'
  <2>1. /\ owner' = owner
        /\ \A q \in Holder : HoldsNow'[q] \subseteq HoldsNow[q]
        /\ \A y \in EndpointId : UnderWay'[y] \subseteq UnderWay[y]
    BY <1>6 DEF Authority!Die, Authority!Withdraw, Authority!Without
  <2> QED BY <2>1, NoneNewKeepsSealed
<1> QED BY <1>1, <1>2, <1>3, <1>4, <1>5, <1>6 DEF Authority!AuthNext

\* Whatever its members and the others send, mint, revoke and create, a sealed
\* island stays sealed while no bootstrap grant could cross the shore: authority
\* over a stranger's endpoint comes from nowhere but from somebody who reaches
\* both, or from the kernel (caps.rs, send's transfer and bootstrap_grant).
THEOREM IslandsStayApart ==
  ASSUME NEW I \in SUBSET Holder
  PROVE  CapSpec => [][Sealed(I) /\ KernelKeepsApart(I) => Sealed(I)']_capVars
<1>1. CapSpec => []KnownInv
  BY InitImplements, NextKnownInv, CapInvariant, PTL DEF CapSpec
<1>2. ASSUME CapInv, KnownInv, [CapNext]_capVars, Sealed(I), KernelKeepsApart(I)
      PROVE  Sealed(I)'
  <2>1. CASE Authority!AuthNext
    BY <1>2, <2>1, AuthorityKeepsSealed
  <2>2. CASE UNCHANGED Authority!authVars
    BY <1>2, <2>2, NoneNewKeepsSealed DEF Authority!authVars
  <2> QED BY <1>2, <2>1, <2>2, NextImplements
<1>3. CapInv /\ KnownInv /\ [CapNext]_capVars
        => [Sealed(I) /\ KernelKeepsApart(I) => Sealed(I)']_capVars
  BY <1>2
<1> QED BY <1>1, <1>3, CapInvariant, PTL DEF CapSpec

\* From the start on: if no bootstrap grant ever could cross the shore, nobody
\* ever comes by authority over an endpoint on the other side.
THEOREM StrangersNeedTheKernel ==
  ASSUME NEW I \in SUBSET Holder
  PROVE  CapSpec /\ []KernelKeepsApart(I) => []Sealed(I)
<1>1. CapInit => Sealed(I)
  <2> SUFFICES ASSUME CapInit PROVE Sealed(I)
    OBVIOUS
  <2>1. \A c : ~ Valid(c)
    BY DEF CapInit, Valid
  <2>2. \A tok : /\ \A p \in Holder : tok \notin HoldsNow[p]
                 /\ \A x \in EndpointId : tok \notin UnderWay[x]
    BY <2>1, HoldsMember, UnderWayMember
  <2> QED BY <2>2 DEF Sealed
<1>2. Sealed(I) /\ UNCHANGED capVars => Sealed(I)'
  <2> SUFFICES ASSUME Sealed(I), UNCHANGED capVars PROVE Sealed(I)'
    OBVIOUS
  <2>1. HoldsNow' = HoldsNow /\ UnderWay' = UnderWay /\ owner' = owner
    BY DEF capVars, endpointVars, HoldsNow, UnderWay, TokensOf, Valid
  <2> QED BY <2>1, NoneNewKeepsSealed
<1> QED BY <1>1, <1>2, IslandsStayApart, PTL DEF CapSpec

=============================================================================
