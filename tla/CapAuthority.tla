---------------------------- MODULE CapAuthority ----------------------------
(***************************************************************************)
(* What the capability machine of NyKernel promises, without tables,       *)
(* handles, generations or queues: who has authority over which endpoint,  *)
(* and the only ways authority appears, moves and disappears.              *)
(***************************************************************************)
CONSTANTS
  Holder,        \* the processes
  Endpoint,      \* the endpoints that may ever exist
  Right,         \* the rights over an endpoint
  Grant,         \* the right to pass authority on
  Bootstrap,     \* <<holder, endpoint>>: whom the kernel itself may equip
  Nobody         \* the owner of an endpoint not yet born

Token == [endpoint : Endpoint, rights : SUBSET Right]

VARIABLES
  status,    \* "unborn", "open" or "closed", for good
  owner,     \* who may issue authority over an open endpoint
  holds,     \* the tokens each holder can use now
  transit    \* the tokens on their way to the owner of each endpoint

authVars == <<status, owner, holds, transit>>

AuthInit ==
  /\ status = [x \in Endpoint |-> "unborn"]
  /\ owner = [x \in Endpoint |-> Nobody]
  /\ holds = [p \in Holder |-> {}]
  /\ transit = [x \in Endpoint |-> {}]

----------------------------------------------------------------------------
\* An endpoint is born once; its owner may start out without a token.
Open(p, x) ==
  /\ status[x] = "unborn"
  /\ status' = [status EXCEPT ![x] = "open"]
  /\ owner' = [owner EXCEPT ![x] = p]
  /\ \/ holds' = [holds EXCEPT ![p] = @ \cup {[endpoint |-> x, rights |-> Right]}]
     \/ UNCHANGED holds
  /\ UNCHANGED transit

Issue(p, tok) ==
  /\ status[tok.endpoint] = "open"
  /\ owner[tok.endpoint] = p \/ <<p, tok.endpoint>> \in Bootstrap
  /\ holds' = [holds EXCEPT ![p] = @ \cup {tok}]
  /\ UNCHANGED <<status, owner, transit>>

\* Only through an endpoint one can reach, only what one holds with the grant
\* right, and never more than that.
Delegate(p, e, tok) ==
  /\ \E reach \in holds[p] : reach.endpoint = e
  /\ \E held \in holds[p] : /\ held.endpoint = tok.endpoint
                            /\ Grant \in held.rights
                            /\ tok.rights \subseteq held.rights
  /\ transit' = [transit EXCEPT ![e] = @ \cup {tok}]
  /\ UNCHANGED <<status, owner, holds>>

\* A token may be under way to one endpoint more than once.
Accept(e, tok) ==
  /\ tok \in transit[e]
  /\ holds' = [holds EXCEPT ![owner[e]] = @ \cup {tok}]
  /\ \/ transit' = [transit EXCEPT ![e] = @ \ {tok}]
     \/ UNCHANGED transit
  /\ UNCHANGED <<status, owner>>

Without(tokens, gone) == { tok \in tokens : tok.endpoint \notin gone }

\* All authority over the endpoints of `gone` ends at once, wherever it is.
Withdraw(gone, dead) ==
  /\ holds' = [p \in Holder |-> IF p \in dead THEN {} ELSE Without(holds[p], gone)]
  /\ transit' = [x \in Endpoint |->
                   IF x \in gone THEN {} ELSE Without(transit[x], gone)]
  /\ UNCHANGED owner

Revoke(x) ==
  /\ status[x] = "open"
  /\ Withdraw({x}, {})
  /\ UNCHANGED status

Die(p) ==
  LET own == { x \in Endpoint : status[x] = "open" /\ owner[x] = p }
  IN  /\ Withdraw(own, {p})
      /\ status' = [x \in Endpoint |-> IF x \in own THEN "closed" ELSE status[x]]

AuthNext ==
  \/ \E p \in Holder, x \in Endpoint : Open(p, x)
  \/ \E p \in Holder, tok \in Token : Issue(p, tok)
  \/ \E p \in Holder, e \in Endpoint, tok \in Token : Delegate(p, e, tok)
  \/ \E e \in Endpoint, tok \in Token : Accept(e, tok)
  \/ \E x \in Endpoint : Revoke(x)
  \/ \E p \in Holder : Die(p)

AuthSpec == AuthInit /\ [][AuthNext]_authVars

=============================================================================
