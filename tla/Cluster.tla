------------------------------- MODULE Cluster -------------------------------
(***************************************************************************)
(* What a cluster specification makes of a node: whether createFromSpec    *)
(* accepts it, and which services newConnections gives the node's          *)
(* supervisor.  Nodes may have different specifications: "in the process   *)
(* of updating a cluster's configuration this will unavoidably occur"      *)
(* (definition.go:166).                                                    *)
(*                                                                         *)
(* Of an address and of a certificate only what can be found wrong with it *)
(* is kept.                                                                *)
(***************************************************************************)
EXTENDS Integers, Sequences, SequencesExt

NodeIDs == 0..255

NodeDefinitions ==
  [id : NodeIDs, address : {"missing", "bad", "good"},
   listen_address : {"missing", "bad", "good"}, local_address : {"missing", "bad", "good"}]

\* The certificate of a node is for the ID that is its common name.
NoCert == -1
BadCert == -2

ClusterSpecs ==
  [nodes : Seq(NodeDefinitions), ciphersKnown : BOOLEAN,
   nodeCert : NodeIDs \cup {NoCert, BadCert}, clusterCert : {"missing", "bad", "good"}]

\* The nodes of the list; of two definitions of a node the last one counts.
Nodes(spec) == {def.id : def \in ToSet(spec.nodes)}

\* An address is required, the two others are not; what is there must resolve.
Resolves(def) ==
  /\ def.address = "good"
  /\ def.listen_address # "bad" /\ def.local_address # "bad"

\* The node's certificate is its own, and that of the cluster can be read; one node
\* alone needs neither.
Certified(spec, thisNode) ==
  LET alone == Len(spec.nodes) <= 1
  IN /\ spec.nodeCert \in {thisNode} \cup {cert \in {NoCert} : alone}
     /\ spec.clusterCert \in {"good"} \cup {cert \in {"missing"} : alone}

\* createFromSpec: none of the errors it collects, and the node itself is defined.
Accepts(spec, thisNode) ==
  /\ spec.nodes # <<>>
  /\ \A def \in ToSet(spec.nodes) : Resolves(def)
  /\ spec.ciphersKnown
  /\ Certified(spec, thisNode)
  /\ thisNode \in Nodes(spec)

\* newConnections: the node with the lower ID of two has a nodeConnector ...
NodeConnectors(spec, me) == {id \in Nodes(spec) : me < id}

\* Seeded fault for NeedListener: the node at the end of the list has a listener.
NeedListenerLast(spec, me) == me = Last(spec.nodes).id

\* ... the one with the higher ID a nodeListener, once ...
NeedListener(spec, me) == \E id \in Nodes(spec) : id < me

\* ... and both have a remoteMailboxes.
RemoteMailboxes(spec, me) == Nodes(spec) \ {me}
=============================================================================
