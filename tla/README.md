# A TLA+ verification project for reign

reign gives Go programs Erlang-like mailboxes across a cluster of nodes: an
`Address` can be sent to from anywhere, addresses can be linked so that one is
told when the other closes, and a registry maps names to addresses on all nodes.
This directory holds models of its parts in TLA+, the configurations with which
TLC checks them, and proofs that TLAPS checks. Every definition is translated from
the source; `PROJECT.json` ("map") names the lines of each.

    tlc -config mailbox.cfg Mailbox               # one run
    tlapm MailboxProofs.tla                       # one module of proofs

## 1. The system

### Components

| Component | Source | State | Operations | Model |
|---|---|---|---|---|
| Mailbox | `mailbox.go` 504-817 | channel `nextMessage` of capacity one, slice `messages`, mutex `mu`, `closed`, `notificationAddresses` | `send`, `Receive`, `ReceiveAsync`, `ReceiveMatch`, `MessageCount`, `Close` | `Mailbox`, `MessageQueue` |
| Links of a node | `mailbox.go` 551-604, 784-817 | `notificationAddresses` of each mailbox, the mutexes, the table | `OnCloseNotify`, `RemoveNotify`, `Close` | `CloseNotify`, `CloseNotices` |
| Mailbox table | `mailbox.go` 428-513 | `mailboxes` (ID to mailbox), `nextMailboxID` | `newLocalMailbox`, `unregisterMailbox`, `mailboxByID` | `MailboxTable` |
| Addresses | `mailbox.go` 60-426, 819-908 | ID, cached mailbox | resolution; text, JSON and binary encodings; `UnmarshalFromID` | `Addresses`, resolution by ID or cache also in `CloseNotify` |
| Name registry | `registry.go` | `claims`, `mailboxIDs`, `multipleClaimCount`, `nodeRegistries`, its mailbox | `Register`, `Unregister`, `Lookup`, `Sync`, and the messages of `Serve` | `Registry` |
| Synchronisation of registries | `registry.go` 232-480, `node.go`, `listener.go`, `remoteMailboxes.go` | claims at one node, the view of them at the other, the queues between | broadcasts, `AllNodeClaims`, `addNodeRegistry`, loss of a connection | `RegistrySync` |
| remoteMailboxes | `remoteMailboxes.go` | `linksToRemote`, `connection`, its mailbox | forwarding; the link protocol between nodes; `setConnection`, `unsetConnection` | `RemoteLinks`; forwarding in `RegistrySync` |
| Connector, listener | `node.go`, `listener.go` | the connection, handlers, `cancel`, `stopped` | `Serve`, `Stop`, handshakes, `registrySync`, `handleIncomingMessages` | `NodeLifecycle`; reading loop in `KeepAlive` |
| Ping | `ping.go` | timer, `failureCount` | `pingRemote` | `KeepAlive` |
| Definition, server | `definition.go`, `connection.go` | the cluster, callbacks, supervisor | validation, wiring, callbacks | `Cluster`, `NodeLifecycle` |
| Logging, TLS, commands | `log.go`, `reigntls/`, `cmd/` | | | not modelled |

### How they interact

A send to a local address locks the target mailbox and puts the message in. A send
to a remote one goes to the mailbox of the `remoteMailboxes` of that node, whose
`Serve` writes it to the connection; on the other node the reading loop of the
connection puts it in the mailbox of *its* `remoteMailboxes`, whose `Serve` sends it
to the target. Links to remote mailboxes take the same way, as messages of their own
(`NotifyRemote`, `NotifyNodeOnTerminate`, `RemoteMailboxClosed`, ...). The registry is
one goroutine behind a mailbox; other nodes' registrations reach it through
`remoteMailboxes`, but the news that a connection came or went does not: the goroutine
of the connection sends that itself, and calls `addNodeRegistry` directly; it also
writes a snapshot of all claims to the connection, past the queue of
`remoteMailboxes`.

Of two nodes the one with the lower ID dials (`nodeConnector`), the other listens
(`nodeListener`). A connector has one handler, run by its `Serve`; a listener starts a
goroutine for each connection, so that those of an old and a new one overlap. A
handler shakes hands, synchronises registries, sets the connection in
`remoteMailboxes`, reports "connected", reads until the connection is lost, and
undoes this in reverse. The supervisor starts both `Serve`s again whenever they end.

### What is hard, and what must hold

- **Mailbox.** Receivers take from the channel *without* the mutex and refill it
  under it; `send` takes the message out of the channel and puts it back to learn
  whether the mailbox is open; `Close` drains and closes. Must hold: it is a FIFO queue
  that loses, duplicates and reorders nothing; no put on a closed or full channel; no
  message stranded behind an empty channel; nobody hangs on the mutex.
- **Links.** `Close` sends notices with its mutex held, each of which takes another
  mailbox's mutex; so does `OnCloseNotify` of a closed mailbox, to an address that may
  skip the table; both race. Must hold: rings of linked mailboxes closed at once do not
  deadlock; a notice is never missed, and none comes unasked.
- **Table.** IDs come from a counter, unsynchronised in part, and `Close`
  deletes by ID. Must hold: an ID leads to its own mailbox or nowhere.
- **Addresses.** An address caches what it resolved to, is taken apart and put
  together again in three formats, on any node, while mailboxes close and are made.
  Must hold: a message arrives at the mailbox the address was made for or nowhere.
- **Registry.** Incremental indexes and a gauge under any order of registrations,
  closes, conflicts, connections. Must hold: gauge and indexes exact, broadcasts
  true, conflicts notified, dead claimants go, `Sync` returns.
- **Synchronisation.** Changes and snapshots travel on two ways, and losses on a third.
  Must hold: nodes that stay connected come to agree on each other's claims.
- **remoteMailboxes.** Messages are dropped without a connection, handlers of old and
  new connections overlap, a failed send panics. Must hold: a linked address is owed a
  notice by the other node, and gets it unless a message was lost; the end of an old
  connection does not take away a new one.
- **Connector and listener.** Every step can fail on either side, `Stop` comes at any
  time, `Serve` is started again with what the last one left in the struct. Must hold:
  nodes get connected again, `Stop` ends `Serve`, callbacks tell what is the case.
- **Ping.** A timer against the messages that reset it, a deadline, a failure
  count. Must hold: a healthy connection meets its deadline; a silent one ends.

`PROJECT.json` ("hazards") lists these at their lines.

## 2. Modules

| Module | Contents |
|---|---|
| `MessageQueue` | The abstract mailbox: a FIFO queue that is open or shut; with `Selective`, a receiver takes the oldest message that matches. |
| `Mailbox` | The code of one mailbox, one action per step other goroutines can see. Senders, receivers, matchers and closers are sets of goroutines; `pc` and `held` are their program counters and local variables. `Pending` is the refinement mapping: message in the hand of `ReceiveMatch`, then the one `send` took out, then the channel, then the slice. |
| `CloseNotices` | Links as their users see them: open, closing and closed mailboxes, who is to be told of each, and the notices that are due. No mutexes, lists or lookups. |
| `CloseNotify` | Any number of mailboxes and goroutines that close, link and unlink them. `mu` is the mutex of each mailbox; a target is found through the table, or through the `*Mailbox` its address has cached (`CachedTargets`; an address as `New` returns it has). `left` is the time a mailbox left the table. `Phase`, `Links` and `Due` are the refinement mapping: the notices due are what each goroutine in `Close`, or in an `OnCloseNotify` that came late, still has to send. |
| `MailboxTable` | Creation, split at the counter's atomic add, load and store; removal by ID; lookup. `Serial` says whether creators take turns. |
| `Addresses` | Extends `MailboxTable` with variables that hold addresses: made, copied, marshalled and unmarshalled at any node, used. An address has the code's two fields, what it caches and, for the properties, the mailbox it was made for (`target`). |
| `Registry` | One node's registry: one action per message of `Serve`, and as environment its callers, the closes of its mailboxes, the other nodes and the queue of their `remoteMailboxes`. A handler's change under `registry.mu` is one step; the broadcast that follows is another (`pending`). |
| `RegistrySync` | The claims of one node (owner) and what another (viewer) knows of them: `owed`, `outbox`, `wire` and `arriving` are the places a change passes through, `handler` the goroutine of each connection on each side. `races` records which of four named races happened. |
| `RemoteLinks` | Links across two nodes: the near side asks, the far side is asked. Queues of both `Serve` goroutines, connections with a wire each way, handlers that set, read and unset them. |
| `KeepAlive` | Both ends of a connection in discrete time: ping timer, deadline, failures, messages with ages. |
| `Cluster` | What a cluster specification makes of a node: what `createFromSpec` accepts, and the services `newConnections` gives the supervisor. |
| `NodeLifecycle` | Extends `Cluster` with the two nodes at run time: connector, listener, the handlers of each connection on each side, supervisors that restart and stop them. The two nodes may have different specifications. `loop` is how far the listener's `Serve` is: called but not yet with the lock, or accepting. `abandoned` is a socket it left open. |
| `MCRegistry`, `MCNodeLifecycle` | Constant functions and specifications for TLC; the other runs use the modules themselves. |
| `MailboxProofs`, `CloseNotifyProofs`, `AddressesProofs` (with those of `MailboxTable`), `RegistryProofs`, `RegistrySyncProofs`, `RemoteLinksProofs`, `NodeLifecycleProofs`, `KeepAliveProofs` | Theorems and proofs. |

How they compose: `Addresses` runs on `MailboxTable`, `NodeLifecycle` on `Cluster`,
`Mailbox` implements `MessageQueue` and `CloseNotify` implements `CloseNotices`. The others assume of a neighbour what that one's
runs show: the queues of `Registry`, `RegistrySync` and `RemoteLinks` are FIFO because
mailboxes are; their connections come and go as in `NodeLifecycle`.

Definitions commented "Seeded fault" are variants of the definition that follows,
with a bug somebody could write; `PROJECT.json` ("mutants") says which property of which
run finds it.

### Abstractions

Messages are model values. Waiting for a mutex or a channel is a guard. Go maps are
functions or sets, whose order of iteration is a choice. `mailboxIDs` holds a list
with repetitions in the code and a set of names here (lookups and removals do not tell
them apart). `registerAll` and `unregisterAll` loop over claims under the lock; here they
are one step, and the gauge moves by what changed from start to end. In
`RemoteLinks` a far mailbox closes in one step; `CloseNotify` shows that step by
step. In `KeepAlive` both sides come up at the same time. In `RegistrySync` the mailbox
of a registry is left out: what waits there is as good as still to come. In
`Addresses` numbers are not written out in digits. In `Cluster` an address or a
certificate is what can be found wrong with it.

History variables (`sent`, `got`, `told`, `linked`, `left`, `warned`, `lastWord`,
`asked`, `lost`, `overtaken` of `RemoteLinks`, `latest`, `target` and `failed`, `races`, `seen` and `held` of
`RegistrySync`, `crossed`, `missed`, `silent`) are read by properties only.

## 3. Runs

| Run | What it asks | Bounds |
|---|---|---|
| `mailbox` | Is the mailbox the queue (`ImplementsQueue`)? Are its unguarded puts safe (`PutIsSafe`), is nothing stranded (`NoStranded`)? Does every call return, is every message received, does every receiver learn of the close (the FIXME at `mailbox.go` 627)? | 2 senders, 2 receivers, 2 closers, 3 messages; 277771 states |
| `mailbox_match` | The same queue with `ReceiveMatch` as receiver, its inductive invariant, and that matches are returned | 2 senders, 1 closer, 3 messages, 2 of them matching |
| `closenotify` | Which circles can the mutexes held while notifying form (`OnlyLateLinksDeadlock`)? Can a notice be missed (`NoticeOwedOrPaid`), or given to somebody who is not linked, or be accepted by a closed mailbox (`ImplementsNotices`)? Does every call outside such a circle return (`EveryCallReturns`), is every link to a closed mailbox answered (`LateLinkIsAnswered`)? | 2 goroutines, 2 mailboxes, targets with and without their mailbox cached, 4 calls of any kind: a ring of two needs two links and two closes; a late link that crosses a close needs a link, two closes and the late one; 144314 states |
| `addresses` | Do lookups stay exact when creations take turns? Does a message arrive at the mailbox its address was made for or nowhere (`DeliveryIsExact`), does a dead address stay dead (`DeadStaysDead`)? | 3 mailboxes, 2 variables, 2 nodes, 1 ID of an earlier execution, which the second mailbox gets again; 71242 states |
| `registry` | Gauge, indexes, broadcasts, conflicts, forgetting; dead claimants go, `Sync` returns | 2 names, 2 local and 1 remote mailbox, 1 caller of `Sync`, 4 calls of any kind; 149408 states |
| `registry_sync` | Does the viewer know the owner's claims once all is quiet (`ViewsAgree`), does it come to know them (`EventuallyAgree`)? What on the way makes it so (`SyncInv`)? | 1 claim, 2 connections in turn, 2 calls, either side dials; 371436 states (3 calls pass too, in more time) |
| `remotelinks` | Is every link covered by the other node as long as nothing is lost and no request is read before an older removal (`LinkInv`)? Is the newest connection used (`LatestIsUsed`)? Is anybody told of a close that did not happen (`NoticesAreTrue`)? Are links answered? | 2 local mailboxes, 1 remote, 2 connections in turn, dialed by either side, 4 calls; 695593 states |
| `keepalive` | Does a healthy connection meet its deadline, does a silent one end, and by when (`NoticedInTime`)? | ping 5, delay 2, deadline 50, 5 failures: the code's ratio of deadline to ping; 199184 states |
| `lifecycle` | Is what callbacks and `remoteMailboxes` were told the case (`StatusIsTrue`)? Does `Stop` end each `Serve`, wherever it finds it (`StopEndsConnector`, `StopEndsListener`)? Do the nodes get connected again (`Reconnects`)? | 2 connections, 1 failure to dial, listen or accept, 1 node that stops, any number of losses, 4 specifications on each side (both nodes with the certificate of the one or the other, a third node instead of the dialer, a node alone); 270527 states |
| `mailbox_leak` | *violated*: `CloseReturns` | 1 matcher, 2 closers, 1 message |
| `closenotify_hang` | *violated*: `LinkIsAnswered`, which is `LateLinkIsAnswered` without its exception | 2 goroutines, 2 mailboxes, targets with their mailbox cached, 3 calls |
| `mailboxtable_race` | *violated*: `IDsAreUnique` without `Serial` | 2 creators |

Why the bounds are enough. A mailbox step involves the goroutine that makes it, the
one that holds the mutex and at most one in the window between take and refill: two of
each role and three messages (one in the channel, one in the slice, one in a hand) show
every combination. `OnlyLateLinksDeadlock` quantifies over all sets of mailboxes, and the
proof covers any number. Claims do not interact in `RegistrySync`: the theorem
covers any number, and two calls make a claim come and go. A gauge that drifts does so
with two claimants and one repetition; a third claimant of the name comes from the
remote mailbox. Two connections give an old and a new one; a third would be to the
second what that is to the first. Each bound is a constant named in its module and
set in the `.cfg`. Where a behaviour ends because connections are used up, the liveness
properties of `NodeLifecycle` say so (`Exhausted`, and the last connection lost). One
node stops in `lifecycle` because each of the two stops concerns one side; to the other
it is one more way to lose connections.

Deadlock is not checked where the environment makes a bounded number of calls
and then nothing is left to do; each `.cfg` says so.

### Fairness

The Go scheduler runs every goroutine that can run: weak fairness per goroutine, only
for what it does once its call has begun; nobody has to send, call, close, cancel,
dial or break a connection. Where a lock is contended without end (`ReceiveMatch` in
its loop, several mailboxes) strong fairness is assumed of the waiters, which
`sync.Mutex` gives since its starvation mode hands the mutex to whoever waited for a
millisecond. In `RemoteLinks` the supervisor restarts `Serve` after a panic, so both
`Serve`s are fair. In `NodeLifecycle` the supervisor starts the `Serve`s again and, when it
stops, calls `Stop`; so dialing and listening are fair as well as handlers, failures
are bounded (`MaxFaults`), and a connection that a handler left without closing it, or
a socket that a listener left, is closed in the end by the garbage collector's finalizer
(`Collect`, `CollectSocket`). In `KeepAlive` time
passes.

## 4. Proofs

All theorems hold for every value of the constants, under the named assumptions of the
modules (roles are disjoint, sets are finite where counted, at most one matcher).

- **MailboxProofs.** `IInv` is inductive: types, roles, `MutexHeldInside` (who is between
  lock and unlock is who holds it), `PutIsSafe`, `ClosedIsDrained`, `NoStranded`. `PutIsSafe` is not
  inductive alone: that the channel stays empty while a `send` holds the message it
  took out follows from the mutex, since only a holder puts. Then
  `MailboxImplementsQueue`: every step of the code is a step of `MessageQueue` or a
  stutter, by cases on where the message in question is. It assumes that nobody sends
  nil to a mailbox read with `ReceiveMatch` (see 5).
- **CloseNotifyProofs.** All of it for targets found by ID and for targets that carry
  their mailbox. `LinksInvariant`, from which `LinksAreAnswered`. `OrderInvariant`: mailboxes
  leave the table before they are locked for closing, so a goroutine that holds the
  mutex of *a* and waits for that of a *t* it looked up found *t* in the table after
  *a* had left it: departure times (`left`) grow along the wait. `NoDeadlock`: a circle
  has one mailbox that left last; what it waits for left no later, so that wait was not
  found by looking up, and only an `OnCloseNotify` of a closed mailbox waits otherwise.
  Rings of `Close` alone never deadlock, nor does a late `OnCloseNotify` for a mailbox that
  is open or leaves after the one it asks. `LinksImplementNotices`: every step of the code is a
  step of `CloseNotices` or a stutter, for any kind of target. What a goroutine has to
  tell depends on its own variables alone, so a step changes what one goroutine adds to
  `Due`: closing moves the whole list there, each delivery or failed lookup takes one
  notice away, and a late call adds its own. A notice that two goroutines owe stays due
  when one has given it.
- **AddressesProofs.** First the table: when creators take turns the counter is ahead of
  every ID in use, whence unique IDs and exact lookups. Each encoding gives the ID back (`EncodingsAreExact`). Then, on top of
  the table's invariant: what an address caches is what the table held for its ID, or
  that it held nothing, in which case the ID will not be used again
  (`AddressesAreTruthful`, inductive). `DeliveryExact` and `DeadAddressesStayDead` follow.
- **RegistryProofs.** `RegistryInv` is inductive. The gauge is `Cardinality` of the set
  of contested names; each update splits that set into what joined, what left and what
  stayed. `BroadcastsAreTrue` needs `LastWordOK`, which says of a claim under broadcast that its
  news is still in `pending`. `UnregisterMailboxForgets` is an action property that
  rests on `ClaimsAreIndexed`. `ConflictsAreNotified`: only a local registration adds a local
  claimant, and a set of claimants that shrinks does not become contested.
- **RegistrySyncProofs.** `SyncInv` is inductive. Its heart is `StreamIsTrue`: for a newest
  connection whose predecessors the owner has done with, what the viewer holds,
  amended by everything on its way (arrived, on the wire, in the outbox, owed, and the
  snapshot), is what the owner claims. Each action moves an item from one place to
  the next or happens to be one of the four races. `ViewsAgreeWhenQuiet` is what remains
  when nothing is on its way.
- **RemoteLinksProofs.** `NewestConnectionIsUsed`, whichever side dials and however many
  connections there are: a handler that ends takes only its own connection away, so if
  the one set last still runs it stays in use. `LinksAreKept`: `LinkInv` is inductive.
  A request for a notice goes out on the newest connection, the only one that can be
  whole (`NewestIsWhole`), so nothing comes after it that could take it back; from
  there it is followed over the wire and through the queue of the far `Serve` to the
  subscription, and the news of the close back. A removal that an older connection
  still has would undo it, and `overtaken` records when one is left behind.
  `NoFalseNotices`: news of a close, wherever it is under way, is of a mailbox that is
  closed (`NewsIsTrue`, part of `LinkInv`), and mailboxes do not open again.
- **NodeLifecycleProofs.** `OneSideDials`: each node decides alone, from its own
  specification, and yet exactly one has a connector for the other and the other a
  listener. `LifecycleInv` is inductive: at the dialer only the newest connection can be
  open or handled, so nothing there comes out of order; at the listener an order
  that goes wrong is recorded in `crossed`. `StatusTrue` follows.
- **KeepAliveProofs.** `ConnectionsStayAlive`, from nothing but that the deadline exceeds
  the ping interval and a round trip (it is ten intervals in the code). A side has its
  next ping to come soon enough, or a ping under way, or something to read under way
  (`HeardInTime`, inductive), and each of the three bounds the silence.
  `SilenceIsNoticedInTime` is its counterpart, a bound that holds on every behaviour where
  `SilenceIsNoticed` needs fairness. Before its deadline a side has been cut off for no
  longer than it has heard nothing; after it, the time until the next ping and the pings
  that have failed account for the rest (`GivesUpInTime`, inductive). Nothing is read any
  more that could reset either: what was on the wire went with the network.

Every invariant and action property of a passing run is proved. Only model-checked:
everything under fairness, which is out of the prover's reach.

## 5. Divergences

Runs show three:

- `mailbox_leak`: `ReceiveMatch` returns with the mutex locked when its second look at
  the channel finds it closed (`mailbox.go` 729); the next `Close`, `Send` or
  `OnCloseNotify` blocks for ever.
- `closenotify_hang`: `onCloseNotify` of a closed mailbox sends with the mutex held
  (`mailbox.go` 564), to a target that is not looked up when its address carries its
  mailbox, as those do that `New` returns (`mailbox.go` 456-460). If the target is the
  mailbox itself, the goroutine waits for its own mutex; if it is one whose `Close` is
  about to notify the mailbox, the two wait for each other. Either way the mutex is never
  released, and whoever asks the mailbox next is not answered.
- `mailboxtable_race`: `newLocalMailbox` adds atomically and then increments with a plain
  `++` (`mailbox.go` 445): two creations at once can get one ID.

Others met while modelling, which no run of this project keeps as its own:

- `ReceiveAsync` promises a message "if, and only if, there was a message in the
  inbox" (`mailbox.go` 656); between the take and the put-back of a `send`, or the take and
  the refill of another receiver, it finds the channel empty and reports none.
  `NoStranded` is what remains true.
- `MessageCount` leaves out the message in the channel (`mailbox.go` 614).
- `ReceiveMatch` drops a nil that it finds in the channel (`mailbox.go` 733).
- The address of a closed local mailbox cannot be marshalled once it was used:
  `getAddress` caches a pointer to a `noMailbox`, and the encoders look for the value,
  contrary to `mailbox.go` 139-148. `Marshals` in `Addresses` says which can.
- The JSON form of an address that leads nowhere is an unquoted `X`, and `UnmarshalJSON`
  changes the bytes it is given.
- IDs begin anew at each execution: an address written down in an earlier one leads to
  whatever mailbox has the ID now, where `mailbox.go` 823-827 says this "should not
  'magically' turn into a mailbox". `DeadStaysDead` is what remains: once found dead it
  stays so.
- A second registration of a name on one node joins the first, where
  `registry.go` 149 says it overwrites it.
- `MultipleClaim` is sent only for local registrations, where `registry.go` 51
  promises it for those of other nodes; `LocalConflictIsNotified` is what remains.
- `Sync` waits for an answer of the registry's `Serve` and for nothing else
  (`registry.go` 361): once the registry was stopped or terminated it never returns.
  `SyncReturns` says that it does while nobody has.
- Registries are to be "transparently" knit back together after a split
  (`registry.go` 45-48), and the order of steps in `node.go` 345-347 and
  `listener.go` 351-353 is there lest "some registry changes won't sync". Four races
  of `RegistrySync` leave two nodes that stay connected with different claims: an
  `UnregisterName` overtaken by a snapshot that still has the claim (`overtaken`),
  broadcasts queued before a loss and sent on the next connection (`outdated`), a
  broadcast handled after the loss of the connection it came by (`late`), and a loss
  handled when the next connection is up, which takes the node out of
  `nodeRegistries` (`undone`). `ViewsAgree` and `EventuallyAgree` say that nothing else does,
  and that the first leaves a claim too many, never one too few.
- `addNodeRegistry` stores the address of a node before it panics on one that is not
  defined (`registry.go` 263); each later broadcast panics on that entry.
- When the side that is asked for notices is the listener, handlers of an old and a
  new connection overlap, an old removal can be handled after a newer request, and the
  link is gone though no message was lost (`overtaken` in `RemoteLinks`). `LinkInv` says
  that it cannot where that side dials, and that nothing else goes wrong.
- At the listener a delayed handler can set its dead connection after a newer one set
  its own, or report its loss after the newer one reported that it is up, where
  `definition.go` 490-493 guarantees callbacks "in order on a per-node basis".
  `StatusIsTrue` shows that it cannot at the dialer.
- `Serve` of a connector never resets `nc.connection` (`node.go` 169). A `Stop` that comes
  while the next `Serve` is dialing finds the connection of the one before, terminates
  that and does not set `cancel`; the new connection is then handled as if nobody had
  called `Stop`, where `node.go` 126-127 looks at `cancel` to "sync with the Stop method,
  which could conceivably be triggered before we even get here". `StopEndsConnector` says
  that this is the one way to miss a `Stop` (`missed`); without that exception `lifecycle`
  fails.
- `nodeListener.Serve` does not close its socket when `Accept` fails for another reason
  (`listener.go` 131); the next `Serve` cannot listen until the finalizer has closed it.
- The handshakes have no deadline: a peer that accepts and stays silent keeps `Serve`
  waiting (`node.go` 135).
- `createFromSpec` looks at the global `connections` at its beginning and sets it at its
  end, without the lock (`definition.go` 300): two clusters created at once both pass.
- A lost connection tells linked addresses nothing; what was dropped is not sent again.
- Pingers panic in a goroutine of their own: the process ends, where `ping.go` 16 says
  the panic triggers "a service restart if running under suture". In `KeepAlive` a silent
  connection is given up in no other way.

## 6. Not modelled

- Buffers of the network: a write never blocks in these models, so that two readers
  which both answer pings and block in `Encode` (`node.go` 405) are not found waiting for
  each other; the read deadline would end that.
- gob, TCP and TLS beyond delivery in order, loss and end; certificates (`reigntls`).
- A connection that stays open and silent during the handshakes: nothing in the code
  ends that wait, and a model could only repeat it.
- `MessageCount` and `Lookup`, which only read; the number of entries in `mailboxIDs`, which
  grows with each registration and shrinks with none but `UnregisterMailbox`.
- nil messages to a mailbox read by `ReceiveMatch`.
- The end of `remoteMailboxes.Serve` (`terminateRemoteMailbox`), after which nothing
  of the node runs, and what serves tests: `DestroyConnection`, `PanicHandler`,
  `newExamineMessages`, `newDoneProcessing`, the fail flags, `setPeekFunc`,
  `waitForListen`, `blockUntilNotifyStatus`.
- Reading cluster definitions from JSON and files, and their hash, which nothing
  compares; logging; the commands in `cmd/`.
- `RemoteLinks` and `KeepAlive` are not composed with `NodeLifecycle`: their connections
  break at any moment and come again, which includes whatever `NodeLifecycle` does.
