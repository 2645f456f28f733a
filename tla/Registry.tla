------------------------------ MODULE Registry ------------------------------
(***************************************************************************)
(* The name registry of one node: which mailboxes of the cluster claim     *)
(* which names.  All changes go through the registry's own mailbox and are *)
(* made by one goroutine, registry.Serve, which tells the other nodes of   *)
(* the changes to local claims.                                            *)
(*                                                                         *)
(* Callers, the mailboxes that claim names and the other nodes are the     *)
(* environment.  What another node sends waits in the queue of its         *)
(* remoteMailboxes before it reaches the registry; the notices that it     *)
(* came or went do not.  A handler's change to the maps happens under      *)
(* registry.mu and is one step; the sends that follow are another.         *)
(***************************************************************************)
EXTENDS Integers, FiniteSets, Sequences, SequencesExt

CONSTANTS
  Names,
  Local,      \* IDs of mailboxes of this node
  Remote,     \* IDs of mailboxes of the other nodes
  Nodes,      \* the other nodes
  NodeOf,     \* MailboxID.NodeID of the remote IDs
  Syncers,    \* goroutines that call Sync
  MaxCalls    \* bound: what the environment does in all

ASSUME RegistryAssumption ==
  /\ IsFiniteSet(Names) /\ IsFiniteSet(Local) /\ IsFiniteSet(Remote)
  /\ Local \cap Remote = {}
  /\ NodeOf \in [Remote -> Nodes]
  /\ MaxCalls \in Nat

VARIABLES
  claims,             \* name -> the IDs that claim it; no entry for a name unclaimed
  mailboxIDs,         \* ID -> the names of its registryEntries
  multipleClaimCount,
  nodeRegistries,     \* the nodes that are told of registrations
  inbox,              \* the queue of the registry's mailbox
  pending,            \* broadcasts Serve still owes after the handler's last change
  serving,            \* whether Serve still runs
  arriving,           \* from each node: what its remoteMailboxes has not forwarded yet
  connected,          \* the nodes with a connection
  closed,             \* the local mailboxes that are closed
  waiting,            \* the callers of Sync that wait
  warned,             \* history: the <<name, ID>> that were sent a MultipleClaim
  lastWord,           \* history: to each node, the last broadcast about each <<name, ID>>
  calls               \* what the environment has done so far

maps == <<claims, mailboxIDs, multipleClaimCount>>
vars == <<maps, nodeRegistries, inbox, pending, serving, arriving, connected, closed,
          waiting, warned, lastWord, calls>>

IDs == Local \cup Remote
Pairs == Names \X IDs

Claimants(name) == IF name \in DOMAIN claims THEN claims[name] ELSE {}
Entries(id) == IF id \in DOMAIN mailboxIDs THEN mailboxIDs[id] ELSE {}

\* The messages the registry's mailbox takes; "Remote" marks the pointers that
\* gob decodes from another node's broadcasts.
Messages ==
  [type : {"RegisterName", "UnregisterName"}, name : Names, id : Local]
  \cup [type : {"RemoteRegisterName", "RemoteUnregisterName"}, name : Names, id : Remote]
  \cup [type : {"UnregisterMailbox"}, id : Local]
  \cup [type : {"connectionStatus"}, node : Nodes, connected : BOOLEAN]
  \cup [type : {"AllNodeClaims"}, node : Nodes, pairs : SUBSET (Names \X Remote)]
  \cup [type : {"synchronizeRegistry"}, caller : Syncers]
  \cup [type : {"stopRegistry"}]

\* A message of another node for a mailbox of this one.
Passing == [type : {"IncomingMailboxMessage"}, target : Local]

Broadcasts == [type : {"RegisterName", "UnregisterName"}, name : Names, id : Local]

TypeOK ==
  /\ DOMAIN claims \subseteq Names
  /\ claims \in [DOMAIN claims -> SUBSET IDs]
  /\ DOMAIN mailboxIDs \subseteq IDs
  /\ mailboxIDs \in [DOMAIN mailboxIDs -> SUBSET Names]
  /\ multipleClaimCount \in Nat
  /\ nodeRegistries \subseteq Nodes
  /\ inbox \in Seq(Messages)
  /\ pending \subseteq Broadcasts
  /\ serving \in BOOLEAN
  /\ arriving \in [Nodes -> Seq(Messages \cup Passing)]
  /\ connected \subseteq Nodes
  /\ closed \subseteq Local
  /\ waiting \subseteq Syncers
  /\ warned \subseteq Names \X Local
  /\ lastWord \in [Nodes -> [Names \X Local -> {"none", "RegisterName", "UnregisterName"}]]
  /\ calls \in Nat

Init ==
  /\ claims = <<>>
  /\ mailboxIDs = <<>>
  /\ multipleClaimCount = 0
  /\ nodeRegistries = {}
  /\ inbox = <<>>
  /\ pending = {}
  /\ serving = TRUE
  /\ arriving = [n \in Nodes |-> <<>>]
  /\ connected = {}
  /\ closed = {}
  /\ waiting = {}
  /\ warned = {}
  /\ lastWord = [n \in Nodes |-> [p \in Names \X Local |-> "none"]]
  /\ calls = 0

Send(m) == inbox' = Append(inbox, m)

-----------------------------------------------------------------------------
(* The maps: registerAll, unregisterAll *)

NamesOf(pairs) == {p[1] : p \in pairs}
IDsOf(pairs) == {p[2] : p \in pairs}
Grown(name, pairs) == Claimants(name) \cup {id \in IDs : <<name, id>> \in pairs}
Rest(name, pairs) == Claimants(name) \ {id \in IDs : <<name, id>> \in pairs}
Contested(set) == Cardinality(set) > 1

\* Seeded fault for registerAll: every registration of a contested name counts.
registerAllRecounts(pairs) ==
  /\ claims' = [name \in DOMAIN claims \cup NamesOf(pairs) |-> Grown(name, pairs)]
  /\ mailboxIDs' = [id \in DOMAIN mailboxIDs \cup IDsOf(pairs) |->
                      Entries(id) \cup {name \in Names : <<name, id>> \in pairs}]
  /\ multipleClaimCount' = multipleClaimCount
       + Cardinality({name \in NamesOf(pairs) : Contested(Grown(name, pairs))})

\* A name is counted when it gets its second claimant.  The claimants of a name
\* only grow in the loop, so what it adds up is what changed from start to end.
registerAll(pairs) ==
  /\ claims' = [name \in DOMAIN claims \cup NamesOf(pairs) |-> Grown(name, pairs)]
  /\ mailboxIDs' = [id \in DOMAIN mailboxIDs \cup IDsOf(pairs) |->
                      Entries(id) \cup {name \in Names : <<name, id>> \in pairs}]
  /\ multipleClaimCount' = multipleClaimCount
       + Cardinality({name \in NamesOf(pairs) :
                        ~Contested(Claimants(name)) /\ Contested(Grown(name, pairs))})

\* The reverse; mailboxIDs is not touched, it keeps the entry.
unregisterAll(pairs) ==
  /\ claims' = [name \in {n \in DOMAIN claims : n \in NamesOf(pairs) => Rest(n, pairs) # {}} |->
                  Rest(name, pairs)]
  /\ multipleClaimCount' = multipleClaimCount
       - Cardinality({name \in NamesOf(pairs) \cap DOMAIN claims :
                        Contested(Claimants(name)) /\ ~Contested(Rest(name, pairs))})

-----------------------------------------------------------------------------
(* registry.Serve: one action per kind of message *)

\* Serve receives m, the next message of its mailbox, when it owes nothing.
Receive(m, type) ==
  /\ serving /\ pending = {}
  /\ inbox # <<>> /\ m = Head(inbox)
  /\ m.type = type

Unregistration(name, id) == [type |-> "UnregisterName", name |-> name, id |-> id]

\* A local registration of a name nobody else claims.
HandleRegisterName(m) ==
  /\ Receive(m, "RegisterName")
  /\ ~Contested(Claimants(m.name) \cup {m.id})
  /\ registerAll({<<m.name, m.id>>})
  /\ inbox' = Tail(inbox)
  /\ pending' = {m}
  /\ UNCHANGED <<nodeRegistries, serving, arriving, connected, closed, waiting, warned, lastWord, calls>>

\* Seeded fault for HandleConflict: the answer ErrMailboxClosed is ignored.
HandleConflictIgnoresDead(m) ==
  /\ Receive(m, "RegisterName")
  /\ Contested(Claimants(m.name) \cup {m.id})
  /\ registerAll({<<m.name, m.id>>})
  /\ warned' = warned \cup {m.name} \X (((Claimants(m.name) \cup {m.id}) \cap Local) \ closed)
  /\ inbox' = Tail(inbox)
  /\ pending' = {m}
  /\ UNCHANGED <<nodeRegistries, serving, arriving, connected, closed, waiting, lastWord, calls>>

\* Seeded fault for HandleConflict: only the new claimant is notified.
HandleConflictWarnsNew(m) ==
  /\ Receive(m, "RegisterName")
  /\ Contested(Claimants(m.name) \cup {m.id})
  /\ registerAll({<<m.name, m.id>>})
  /\ warned' = warned \cup ({<<m.name, m.id>>} \ (Names \X closed))
  /\ inbox' = Tail(inbox)
  /\ pending' = {m}
  /\ UNCHANGED <<nodeRegistries, serving, arriving, connected, closed, waiting, lastWord, calls>>

\* A local registration of a name that has or gets another claimant: MultipleClaim
\* goes to all of them, in no particular order, and Unregister is called for those
\* that turn out to be closed.
HandleConflict(m) ==
  /\ Receive(m, "RegisterName")
  /\ LET all == Claimants(m.name) \cup {m.id}
     IN /\ Contested(all)
        /\ warned' = warned \cup {m.name} \X ((all \cap Local) \ closed)
        /\ \E dead \in SetToSeqs(all \cap closed) :
             inbox' = Tail(inbox) \o [i \in DOMAIN dead |-> Unregistration(m.name, dead[i])]
  /\ registerAll({<<m.name, m.id>>})
  /\ pending' = {m}
  /\ UNCHANGED <<nodeRegistries, serving, arriving, connected, closed, waiting, lastWord, calls>>

\* A registration made on another node.
HandleRemoteRegisterName(m) ==
  /\ Receive(m, "RemoteRegisterName")
  /\ registerAll({<<m.name, m.id>>})
  /\ inbox' = Tail(inbox)
  /\ UNCHANGED <<nodeRegistries, pending, serving, arriving, connected, closed, waiting, warned, lastWord, calls>>

\* Seeded fault for HandleUnregisterName: the other nodes are not told.
HandleUnregisterNameSilently(m) ==
  /\ Receive(m, "UnregisterName")
  /\ unregisterAll({<<m.name, m.id>>})
  /\ inbox' = Tail(inbox)
  /\ UNCHANGED <<mailboxIDs, nodeRegistries, pending, serving, arriving, connected, closed, waiting, warned, lastWord, calls>>

\* An unregistration by this node, of a claim or of none.
HandleUnregisterName(m) ==
  /\ Receive(m, "UnregisterName")
  /\ unregisterAll({<<m.name, m.id>>})
  /\ inbox' = Tail(inbox)
  /\ pending' = {m}
  /\ UNCHANGED <<mailboxIDs, nodeRegistries, serving, arriving, connected, closed, waiting, warned, lastWord, calls>>

\* An unregistration by another node.
HandleRemoteUnregisterName(m) ==
  /\ Receive(m, "RemoteUnregisterName")
  /\ unregisterAll({<<m.name, m.id>>})
  /\ inbox' = Tail(inbox)
  /\ UNCHANGED <<mailboxIDs, nodeRegistries, pending, serving, arriving, connected, closed, waiting, warned, lastWord, calls>>

\* Seeded fault for HandleUnregisterMailbox: the entries are deleted before they
\* are gone through.
HandleUnregisterMailboxDeletesFirst(m) ==
  /\ Receive(m, "UnregisterMailbox")
  /\ mailboxIDs' = [id \in DOMAIN mailboxIDs \ {m.id} |-> mailboxIDs[id]]
  /\ inbox' = Tail(inbox)
  /\ UNCHANGED <<claims, multipleClaimCount, nodeRegistries, pending, serving, arriving, connected, closed, waiting, warned, lastWord, calls>>

\* A closed local mailbox was sent to: drop its entries and unregister each.
HandleUnregisterMailbox(m) ==
  /\ Receive(m, "UnregisterMailbox")
  /\ mailboxIDs' = [id \in DOMAIN mailboxIDs \ {m.id} |-> mailboxIDs[id]]
  /\ unregisterAll(Entries(m.id) \X {m.id})
  /\ inbox' = Tail(inbox)
  /\ pending' = {Unregistration(name, m.id) : name \in Entries(m.id)}
  /\ UNCHANGED <<nodeRegistries, serving, arriving, connected, closed, waiting, warned, lastWord, calls>>

\* A connection came up: nothing to do.
HandleConnected(m) ==
  /\ Receive(m, "connectionStatus") /\ m.connected
  /\ inbox' = Tail(inbox)
  /\ UNCHANGED <<maps, nodeRegistries, pending, serving, arriving, connected, closed, waiting, warned, lastWord, calls>>

\* A connection was lost: unregister all the claims of that node.
HandleDisconnected(m) ==
  /\ Receive(m, "connectionStatus") /\ ~m.connected
  /\ unregisterAll({p \in Names \X Remote : p[2] \in Claimants(p[1]) /\ NodeOf[p[2]] = m.node})
  /\ nodeRegistries' = nodeRegistries \ {m.node}
  /\ inbox' = Tail(inbox)
  /\ UNCHANGED <<mailboxIDs, pending, serving, arriving, connected, closed, waiting, warned, lastWord, calls>>

\* All the claims of a node that connected; IDs of other nodes are left out.
HandleAllNodeClaims(m) ==
  /\ Receive(m, "AllNodeClaims")
  /\ registerAll({p \in m.pairs : NodeOf[p[2]] = m.node})
  /\ inbox' = Tail(inbox)
  /\ UNCHANGED <<nodeRegistries, pending, serving, arriving, connected, closed, waiting, warned, lastWord, calls>>

\* Seeded fault for HandleSynchronize: nobody is told.
HandleSynchronizeSilently(m) ==
  /\ Receive(m, "synchronizeRegistry")
  /\ inbox' = Tail(inbox)
  /\ UNCHANGED <<maps, nodeRegistries, pending, serving, arriving, connected, closed, waiting, warned, lastWord, calls>>

\* msg.ch <- void: the caller of Sync is there to take it.
HandleSynchronize(m) ==
  /\ Receive(m, "synchronizeRegistry")
  /\ waiting' = waiting \ {m.caller}
  /\ inbox' = Tail(inbox)
  /\ UNCHANGED <<maps, nodeRegistries, pending, serving, arriving, connected, closed, warned, lastWord, calls>>

\* Serve returns.
HandleStop(m) ==
  /\ Receive(m, "stopRegistry")
  /\ serving' = FALSE
  /\ inbox' = Tail(inbox)
  /\ UNCHANGED <<maps, nodeRegistries, pending, arriving, connected, closed, waiting, warned, lastWord, calls>>

\* toOtherNodes: a broadcast goes to the nodes that are registered by then.
Broadcast(m) ==
  /\ m \in pending
  /\ pending' = pending \ {m}
  /\ lastWord' = [n \in Nodes |->
                    IF n \in nodeRegistries
                      THEN [lastWord[n] EXCEPT ![<<m.name, m.id>>] = m.type]
                      ELSE lastWord[n]]
  /\ UNCHANGED <<maps, nodeRegistries, inbox, serving, arriving, connected, closed, waiting, warned, calls>>

Handle(m) ==
  \/ HandleRegisterName(m) \/ HandleConflict(m) \/ HandleRemoteRegisterName(m)
  \/ HandleUnregisterName(m) \/ HandleRemoteUnregisterName(m) \/ HandleUnregisterMailbox(m)
  \/ HandleConnected(m) \/ HandleDisconnected(m) \/ HandleAllNodeClaims(m)
  \/ HandleSynchronize(m) \/ HandleStop(m)

Serve ==
  \/ \E m \in Range(inbox) : Handle(m)
  \/ \E m \in pending : Broadcast(m)

-----------------------------------------------------------------------------
(* The callers and mailboxes of this node *)

\* Once Serve has returned nothing here changes any more.
Call ==
  /\ serving
  /\ calls < MaxCalls
  /\ calls' = calls + 1

\* Names.Register and Names.Unregister put a message in the queue and return.  A
\* mailbox can be registered when it is closed: its address need not know.
Register(name, id) ==
  /\ Call
  /\ Send([type |-> "RegisterName", name |-> name, id |-> id])
  /\ UNCHANGED <<maps, nodeRegistries, pending, serving, arriving, connected, closed, waiting, warned, lastWord>>

Unregister(name, id) ==
  /\ Call
  /\ Send(Unregistration(name, id))
  /\ UNCHANGED <<maps, nodeRegistries, pending, serving, arriving, connected, closed, waiting, warned, lastWord>>

\* Names.Sync
Sync(c) ==
  /\ Call
  /\ c \notin waiting
  /\ waiting' = waiting \cup {c}
  /\ Send([type |-> "synchronizeRegistry", caller |-> c])
  /\ UNCHANGED <<maps, nodeRegistries, pending, serving, arriving, connected, closed, warned, lastWord>>

\* Mailbox.Close does not tell the registry.
CloseMailbox(id) ==
  /\ Call
  /\ closed' = closed \cup {id}
  /\ UNCHANGED <<maps, nodeRegistries, inbox, pending, serving, arriving, connected, waiting, warned, lastWord>>

\* registry.Stop, called by the supervisor.
Stop ==
  /\ Call
  /\ Send([type |-> "stopRegistry"])
  /\ UNCHANGED <<maps, nodeRegistries, pending, serving, arriving, connected, closed, waiting, warned, lastWord>>

\* registry.Terminate closes the mailbox, which drops what is in it; Serve's next
\* Receive fails and it returns.
Terminate ==
  /\ Call
  /\ inbox' = <<>>
  /\ serving' = FALSE
  /\ UNCHANGED <<maps, nodeRegistries, pending, arriving, connected, closed, waiting, warned, lastWord>>

-----------------------------------------------------------------------------
(* The other nodes *)

\* The goroutine of the connection calls addNodeRegistry itself; of the change of
\* status it sends the registry a message.
Connect(n) ==
  /\ Call
  /\ n \notin connected
  /\ connected' = connected \cup {n}
  /\ nodeRegistries' = nodeRegistries \cup {n}
  /\ lastWord' = [lastWord EXCEPT ![n] = [p \in Names \X Local |-> "none"]]
  /\ Send([type |-> "connectionStatus", node |-> n, connected |-> TRUE])
  /\ UNCHANGED <<maps, pending, serving, arriving, closed, waiting, warned>>

Disconnect(n) ==
  /\ Call
  /\ n \in connected
  /\ connected' = connected \ {n}
  /\ Send([type |-> "connectionStatus", node |-> n, connected |-> FALSE])
  /\ UNCHANGED <<maps, nodeRegistries, pending, serving, arriving, closed, waiting, warned, lastWord>>

\* The messages node n sends: about its own mailboxes, or to a mailbox of ours.
FromNode(n) ==
  LET its == {id \in Remote : NodeOf[id] = n}
  IN [type : {"RemoteRegisterName", "RemoteUnregisterName"}, name : Names, id : its]
     \cup [type : {"AllNodeClaims"}, node : {n}, pairs : SUBSET (Names \X its)]
     \cup Passing

Arrive(n, m) ==
  /\ Call
  /\ n \in connected
  /\ arriving' = [arriving EXCEPT ![n] = Append(@, m)]
  /\ UNCHANGED <<maps, nodeRegistries, inbox, pending, serving, connected, closed, waiting, warned, lastWord>>

\* remoteMailboxes.Serve passes a message on.  One for a closed local mailbox makes
\* it call UnregisterMailbox; what it does with one for an open mailbox is not ours.
Forward(n) ==
  /\ serving
  /\ arriving[n] # <<>>
  /\ LET m == Head(arriving[n])
     IN CASE m.type # "IncomingMailboxMessage" -> Send(m)
          [] m.type = "IncomingMailboxMessage" /\ m.target \in closed ->
               Send([type |-> "UnregisterMailbox", id |-> m.target])
          [] OTHER -> UNCHANGED inbox
  /\ arriving' = [arriving EXCEPT ![n] = Tail(@)]
  /\ UNCHANGED <<maps, nodeRegistries, pending, serving, connected, closed, waiting, warned, lastWord, calls>>

-----------------------------------------------------------------------------
Callers ==
  \/ \E name \in Names, id \in Local : Register(name, id) \/ Unregister(name, id)
  \/ \E c \in Syncers : Sync(c)
  \/ \E id \in Local : CloseMailbox(id)
  \/ Stop \/ Terminate

OtherNodes == \E n \in Nodes :
  \/ Connect(n) \/ Disconnect(n) \/ Forward(n)
  \/ \E m \in FromNode(n) : Arrive(n, m)

Next == Serve \/ Callers \/ OtherNodes

Spec == Init /\ [][Next]_vars

(* The goroutine of Serve runs; nobody has to call. *)
FairSpec == Spec /\ WF_vars(Serve)

-----------------------------------------------------------------------------
(* What the registry promises *)

\* registry.go:172, "multipleClaimCount gauges the number of multiple claims": it
\* is the number of names with more than one claimant, whatever came in between.
CountIsExact ==
  multipleClaimCount = Cardinality({name \in Names : Contested(Claimants(name))})

\* A name in the map has a claimant (SeenNames, AllNames), and every claim has an
\* entry in mailboxIDs, where UnregisterMailbox finds it.
ClaimsAreIndexed == \A name \in DOMAIN claims :
  /\ claims[name] # {}
  /\ \A id \in claims[name] : name \in Entries(id)

\* After UnregisterMailbox the mailbox claims no name, however the names came to
\* it and through however many registrations and unregistrations.
MailboxIsForgotten == [][\A m \in Range(inbox) :
  HandleUnregisterMailbox(m) => \A name \in DOMAIN claims' : m.id \notin claims'[name]]_vars

\* What a connected node was told last about a local claim is still true, unless
\* a broadcast is under way.
LastWordIsTrue == pending = {} => \A n \in nodeRegistries, p \in Names \X Local :
  /\ lastWord[n][p] = "RegisterName" => p[2] \in Claimants(p[1])
  /\ lastWord[n][p] = "UnregisterName" => p[2] \notin Claimants(p[1])

\* Local claimants that contest a name were all sent a MultipleClaim, those that
\* were there first too, in whatever order the registrations, the closes and the
\* news of other nodes came.  A conflict with a mailbox of another node is not
\* always notified: registerAll looks for it only at a local registration.
LocalConflictIsNotified == \A name \in Names :
  LET here == Claimants(name) \cap Local
  IN Contested(here) => \A id \in here \ closed : <<name, id>> \in warned

\* A closed mailbox that is found among the claimants of a name somebody registers
\* does not stay there: it is unregistered in time, unless the registry stops.
DeadClaimantGoes == \A name \in Names, dead \in Local :
  (/\ serving /\ pending = {}
   /\ inbox # <<>> /\ Head(inbox) \in [type : {"RegisterName"}, name : {name}, id : Local \ {dead}]
   /\ dead \in closed /\ dead \in Claimants(name))
  ~> (dead \notin Claimants(name) \/ ~serving)

\* Sync returns, unless the registry stops.
SyncReturns == \A c \in Syncers : c \in waiting ~> (c \notin waiting \/ ~serving)

-----------------------------------------------------------------------------
(* The inductive invariant behind the safety properties *)

\* What is about to be broadcast is what was just done.
PendingIsDone == \A m \in pending :
  IF m.type = "RegisterName" THEN m.id \in Claimants(m.name) ELSE m.id \notin Claimants(m.name)

\* What is not about to be broadcast, the nodes know.
LastWordOK == \A n \in nodeRegistries, p \in Names \X Local :
  \/ \E m \in pending : <<m.name, m.id>> = p
  \/ /\ lastWord[n][p] = "RegisterName" => p[2] \in Claimants(p[1])
     /\ lastWord[n][p] = "UnregisterName" => p[2] \notin Claimants(p[1])

RegistryInv == TypeOK /\ CountIsExact /\ ClaimsAreIndexed /\ PendingIsDone /\ LastWordOK
=============================================================================
