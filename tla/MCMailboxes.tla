----------------------------- MODULE MCMailboxes -----------------------------
(* Model-checking instance of Mailboxes: the boot's rotation and two receivers. *)
EXTENDS Mailboxes

CONSTANT Unbounded      \* a model value: max_wakes = None

MCPerpetual == {0, 1}
MCDest == {2, 9}        \* one mailbox that two receivers share, and a bad index
MCLimit == {2, Unbounded}
MCRevocable == {3}
=============================================================================
