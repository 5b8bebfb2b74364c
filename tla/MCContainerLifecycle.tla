------------------------ MODULE MCContainerLifecycle ------------------------
(* Model-checking instances of ContainerLifecycle. *)
EXTENDS ContainerLifecycle
=============================================================================
