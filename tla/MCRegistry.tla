----------------------------- MODULE MCRegistry -----------------------------
(* The instance of Registry for TLC: each other node has one mailbox, and is named
   by it. *)
EXTENDS Registry

MCNodeOf == [id \in Remote |-> id]
=============================================================================
