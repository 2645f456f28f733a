-------------------------- MODULE MCNodeLifecycle --------------------------
(* Instances of NodeLifecycle for TLC: nodes 1 and 2, and a node 3 or 0 that is
   not running.  In each specification one thing is different from the first, or
   wrong. *)
EXTENDS NodeLifecycle

Definition(id) == [id |-> id, address |-> "good", listen_address |-> "missing", local_address |-> "missing"]

Both == [nodes |-> <<Definition(2), Definition(1)>>, ciphersKnown |-> TRUE,
         nodeCert |-> 1, clusterCert |-> "good"]
Listeners == [Both EXCEPT !.nodeCert = 2]

MCSpecs == {Both, Listeners,
            [Listeners EXCEPT !.nodes = <<Definition(2), Definition(0)>>],
            [Both EXCEPT !.nodes = <<Definition(1)>>, !.clusterCert = "missing"]}
=============================================================================
