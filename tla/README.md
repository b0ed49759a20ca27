# go-is-is: a TLA+ verification project

go-is-is is a small IS-IS routing daemon. Each node finds its neighbors with
hellos, floods a link-state PDU (LSP) that lists them, computes shortest paths
over the LSPs it holds and installs kernel routes. The modules here model the
daemon's goroutines, check them with TLC on small networks, and prove the main
safety properties of boot, of the bytes on the wire, of the hello, update and
decision process, of the locks and of the network as a whole with TLAPS, for every
network. Line numbers refer to the files under `src/`.

## The system

| Component | State | Operations | Hard behaviour |
|---|---|---|---|
| Hello process, `hello.go` | `intf.adj` (state NEW, INIT, UP; neighbor ID and IP), `cfg.sid` | `isisHelloSend` every 4 s, `isisHelloRecv` per frame, `ConfigureSystemID` | the system ID arrives, changes or goes away in mid-handshake, in any spelling; a node hears its own frames; frames get lost; a daemon restarts while its old hellos are under way |
| Update process, `update.go` | `UpdateDB` (AVL tree of LSPs), `sequenceNumber`, SRM flags per interface (`lspFloodStates`) | `generateLocalLsp`, `isisUpdateInput` with `floodNewLsp`, `isisUpdate` every 5 s | one goroutine of each kind per interface on shared state; several accesses without a lock; no acknowledgements; nothing is persistent |
| Decision process, `decision.go` | `TopoDB`, kernel routes | `isisDecision`, `computeSPF`, `installRouteFromPath` | adjacencies read while they are written and rewritten; LSPs that shrink; triggers that come too early; nothing is ever removed; every node computes on its own |
| AVL tree, `avl.go` | the tree | insert, delete, search, update, in-order list | rotations; readers without a lock |
| Goroutines, `main.go`, `ethernet.go` | `cfg.lock`, `intf.lock`, `DBLock`, unbuffered channels | seven goroutines per interface and the gRPC handlers | lock order; sends that block while a lock is held; starvation |
| Ethernet layer, `ethernet.go` | raw sockets | `recvFrame`, `recvPdus`, `sendPdus`, `parseTLVs` | the filter for own frames; values that run past the frame |
| TLV codec, `update.go`, `hello.go`, `ethernet.go` | none | build, serialize, parse | one-byte lengths |
| Boot, `main.go` | `cfg.interfaces`, `RawSocks` | `initInterfaces`, `ethernetIntfInit` | slots are counted before addresses are |

How they interact: `recvPdus` hands hello frames to `isisHelloRecv` and LSP
frames to `isisUpdateInput` over unbuffered channels. `isisHelloRecv` calls
`generateLocalLsp` when an adjacency comes up. `generateLocalLsp` and
`floodNewLsp` set SRM flags, `isisUpdate` acts on them and hands frames to
`sendPdus`. `isisUpdateInput` sends a trigger to one of the `isisDecision`
goroutines, which reads `UpdateDB` and the adjacencies. gRPC handlers read all of
it and write `cfg.sid`.

## Modules

| Module | Models | State and actions |
|---|---|---|
| `Topology` | nodes, interfaces, segments | constants only. `Heard(i)` contains `i`: the receive socket is bound to ETH_P_ALL and `recvFrame` compares its MAC with an empty buffer (`ethernet.go:236`), so own frames come back |
| `Hello` | `hello.go`, `ConfigureSystemID` | `sid`, `state`, `nbr` are `cfg.sid`, `adj.state`, `adj.neighborSystemID`; `inbox` the receive sockets; `replyTo` the local of `isisHelloRecv` between releasing `intf.lock` and sending. `sid` is the string that was configured, any string or none, frames hold six bytes, and `DecodeSid` and `PrintSid` (`systemIDToBytes`, `systemIDToString`) go between them. One action per branch of `isisHelloRecv`; `Lose` and `Restart` are the faults |
| `LinkState` | what the update process promises | abstract: a store of versioned LSPs with `Originate`, `Adopt`, `Forget` |
| `UpdateProcess` | `update.go` on every node | per interface three program counters (`genPc`: `isisHelloRecv` in `generateLocalLsp`; `inPc`: `isisUpdateInput`; `outPc`: `isisUpdate`). The mutexes are functions of the counters (`DBLocked`, `IntfLocked`). `sequenceNumber += 1` is a load and a store; `AdjViews` is what an unlocked read of an adjacency can return; `OutMiss` is an unlocked `AvlSearch` that misses a key during a rotation; `Restart` is `main` run anew. `LS` maps `updateDB` to the store of `LinkState` |
| `Decision` | `decision.go` on one node | `computeSPF` as `Start`, `Load` per interface, `Extract` per round, `Write` per path; `NewLsp`, `LocalLsp`, `AdjBegin`, `AdjName`, `AdjEnd` are what the other goroutines do meanwhile: an LSP may be replaced by any other of its originator, with fewer neighbors too, and an adjacency that is UP is cleared and written again, ID first, gateway last (`AdjStates`). `rib` keeps the first route of a prefix, as `netlink.RouteAdd` does, and takes none while the gateway is zero (`Accepted`) |
| `ShortestPaths` | hop counts in a graph | the reference `Decision` and `Forwarding` compare with |
| `Forwarding` | hello, update and decision process of all nodes together, down to the kernel routes | per interface the steps of `isisHelloRecv` and `generateLocalLsp` (`AdjBegin` to `GenFlood`), which race as in the code; `Cross` takes an LSP over a link, by the SRM flags; `ComputeSPF` is a run of `computeSPF` as any choice of shortest paths (`SpfShortest`) |
| `Wire` | bytes: headers, TLV builders, `serializeLsp`, frames, `parseTLVs`, the readers of TLVs, `IsisLsp.String` | operators on byte sequences; no state |
| `Boot` | `initInterfaces`, `ethernetIntfInit` | `interfaces`, `index`, `RawSocks`, and the places `iface` and `addr` of the two loops of `initInterfaces`; one action per address looked at. What varies is the host |
| `Advertise` | `Boot` and `Wire` together: from a host's interfaces to what daemons two hops away read | one PDU at a time; `ParseTLV` is one turn of the loop of `parseTLVs` |
| `Avl` | `avl.go` | trees as values, compared with a map |
| `NodeLocks` | blocking operations of all goroutines of a node | each goroutine a set of straight-line programs of lock, unlock and send operations. A lock around code that cannot block is one step (`Touch`) |
| `UpdateProofs`, `ConvergeProofs`, `HelloProofs`, `ShortestPathProofs`, `DecisionProofs`, `ForwardingProofs`, `LockProofs`, `AdvertiseProofs` | | inductive invariants and proofs |
| `MC*` | | networks and bounds for TLC |

Definitions marked "Faulty variant" follow a mistake one could make in the code.
They are used by no specification; putting one in place of the definition it
varies must make TLC report a violation (the list is in `PROJECT.json`).

Abstractions. Outside `Wire` frames are records of the fields the handlers read. An
LSP is its originator, sequence number and neighbor set; its prefixes are fixed per
node, since `initInterfaces` reads routes once. In `UpdateProcess` system IDs are
fixed and the handshake is reduced to "a hello that names this MAC arrives", which
may happen again and again. Logging is left out. In `Decision` the order of `tent` is
left open, so every tie-break is covered, and `pending` counts triggers up to what
the goroutines can hold. `Wire` keeps every byte, because a length that wraps around
makes the receiver read one field as another; system IDs stay bytes there, the dotted
strings in between carry nothing more. Frames are delivered without padding, as the
virtual links between containers do; a link that pads a hello to 60 bytes would turn
it into one with TLVs.

## Runs

Deadlock checking is off where the system may stop because a bound is used up.

| Run | Network and bounds | Shows |
|---|---|---|
| `UpdateRelay` | R1 -- R2 -- R3 (`3node-topo.yml`), two adjacency changes on R1, one on R2, one frame may be lost | no lost flood, remote copies only get newer, neighbors agree when quiet, `LinkState` is implemented |
| `UpdateLink` | R1 -- R2, three changes on R1 and one on R2, R1 may restart once, weak fairness | no lost flood, no copy rolled back and `LinkState` also across a restart; every LSP arrives |
| `HelloPair` | R1 -- R2, R1 configured in lower or upper case, then again or with an empty ID, R2 once, with an ID or with what is none, one loss or restart, weak fairness | the handshake is mutual until a node is configured twice or restarts; it leads to another node if the ID is spelled as frames print it; it needs an ID and ends, also when hellos with an old ID are in flight and after a restart |
| `AvlTree` | 7 keys, 2 values, all operations | balanced, sorted, the keys of a map, and its values until something is deleted |
| `LocksOne` | one interface, no `GetIntf`, strong fairness of each goroutine | no deadlock over locks and channels; every LSP received is dealt with |
| `DecisionNet` | five nodes seen from R1, with two ways to R3 and one neighbor whose LSP loses R3, adjacencies rewritten once, one trigger waiting | Dijkstra is right, `TopoDB` is current but for what it should have forgotten, routes are shortest when they enter the kernel, and none is missing |
| `Advertise` | 410 hosts: two links with no, one or two IPv4 addresses, IPv6, unreadable; 23 and 24 links; 21, 22, 79 and 85 routes. Adjacencies down, UP, UP with a zero or missing ID. Two hops | containers boot with one slot per link; an LSP arrives as it was made, up to 21 routes and 23 neighbors; beyond, receivers agree; the answer to a hello is understood |
| `Forwarding` | four nodes in a ring, of which A joins late and writes one adjacency again at any time, packets for D | without overlapping calls of `generateLocalLsp` on one node every LSP gets everywhere, and next hops chosen independently lead to D |

Four runs show that the code departs from its own documentation:

| Run | Property | What happens |
|---|---|---|
| `UpdateLocalLsp` | `LocalLspCurrent` | an older build overwrites a newer one (`update.go:412-417`) |
| `UpdateTopology` | `TopologyKnownWhenQuiet` | an SPF trigger before the local LSP exists is wasted (`decision.go:143`) |
| `LocksGetIntf` | `ParallelWithQueries` | lock-order deadlock (`hello.go:172`, `main.go:149`) |
| `ForwardLoop` | `RoutesDeliver` | A routes to D over B while its link to D is missing; the link comes up; B, which computes now, routes to D over A; A's route is never replaced (`decision.go:233`) and packets go back and forth |

Other defects met while modelling have no run of their own. The models contain them,
and the properties say where they make an exception:
- two goroutines can lose an increment of `sequenceNumber` (`update.go:409`); two LSPs
  with one number count as equal in `Agree` (`Ambiguous`);
- two calls of `generateLocalLsp` that overlap can also insert their LSPs in the wrong
  order of numbers, as `AvlInsert` overwrites without comparing (`update.go:412`): the
  originator is left with an older LSP than its neighbors, which have no reason to
  send it theirs. No run has bounds for it (it takes three UP interfaces on two
  nodes); the proof of `LinksAgreeWhenQuiet` brought it up, and `Agree` excepts it;
- a node answers hellos before it has an ID, and the asking side stays UP with
  0000.0000.0000 (`hello.go:233`); `UpIsMutual` allows `Zero`;
- a system ID in upper case, or without dots, differs from what its own frames print
  as (`hello.go:211`), so the node answers its own hellos and comes UP with itself.
  `UpIsMutual` promises another node for IDs that are `Dotted` only;
- an empty ID is accepted on a node that is UP (`main.go:126`): it goes on answering
  with zeros, and if it had an ID can still be brought UP. `UnconfiguredNeverUp`
  speaks of nodes that never had one;
- `getNeighborTLV` reads adjacencies that another goroutine is writing
  (`update.go:329`): `AdjViews`, and in `Advertise` an UP adjacency without an ID. All
  receivers read the same wrong neighbor (`HopsAgree`);
- the filter for own frames compares with an empty buffer (`ethernet.go:236`), so a
  node whose ID was changed answers its own older hello. `UpIsMutual` is claimed
  while no node has been configured twice (`Undisturbed`);
- a restarted daemon counts from 1: its neighbors keep its old LSP until the numbers
  catch up (`update.go:149`), and send it nothing again of what it lost, so `Agree`
  leaves out what a restarted node should hold. The answer to a hello it sent
  before the restart brings it UP without an ID (`hello.go:238`);
- an adjacency that is UP is taken apart and put together again on every further
  answer (`hello.go:241-244`): LSPs and `computeSPF` see an ID of nobody meanwhile, and
  the kernel refuses a route whose gateway is zero; it is not tried again before the
  next run (`RoutesComplete` excepts those next hops, `torn`);
- `TopoDB` is never cleared (`decision.go:207`): systems that cannot be reached any
  more stay in it. `TopoCurrent` says that these are all it holds too much;
- 22 routes or 24 neighbors wrap a length byte (`update.go:310,338`): the receivers
  take route bytes for TLVs, and the first may panic; on a neighbor TLV whose length
  wrapped to zero `IsisLsp.String` panics as well (`update.go:70-73`), which
  `HopsAgree`, a property of parsing, does not cover;
- `initInterfaces` panics where links and IPv4 addresses do not match one to one, or
  gives two slots the same sockets where their numbers happen to match
  (`main.go:208`); it also panics where `net.Interfaces` fails, as the list is made
  before `err` is looked at;
- `AvlDelete` of a node with two children copies the successor's key without its data
  (`avl.go:151`); only the tests delete, and `SearchAgrees` claims values only until
  the first delete.

Why the bounds are enough. Two changes on one interface are the least for a newer LSP
to meet an older one in a flooder or a queue, and a line of three the least with a
relay. One loss is the least that breaks a retransmission argument. In `UpdateLink` R1
needs three changes: two before its restart and one after it, whose LSP is older by
number than the copy R2 kept. The proofs cover any number of losses and restarts.
`MaxInFlight` = 1 keeps an interface from queueing a second periodic hello, which
would repeat the first. In `HelloPair` a loss and a restart share one budget
(`MaxFaults` = 1). Seven keys make trees of height four, with rotations below the root
and after deletes on either side. In `DecisionNet` R3 is as far over R2 as over R4 and
R5 is nearer over R4, so that taking candidates out of order gives a wrong distance;
the LSP of R2 then loses R3, and one rewritten adjacency (`MaxRewrites` = 1) is enough
for a run to see it half written. There are no parallel links in it; the theorems
cover those. A second trigger that waits only makes computeSPF run again on unchanged
LSPs, so `MaxPending` = 1 loses nothing but repetitions. One interface keeps
`LocksOne` small; that there is no deadlock with more is proved. A ring of four is the
smallest network with two equal paths and a detour; in `Forwarding` two calls of
`generateLocalLsp` on A can overlap or follow each other, and its LSP meets its
successor on both ways around. A run of `computeSPF` without the own LSP, which gives
up, happens in `UpdateTopology` and `DecisionNet` only. In `Advertise`, 21 and 22
routes, 23 and 24 neighbors are the two sides of each limit, and 79 and 85 routes
reach the end of the 1000-byte read buffer; the second receiver shows what the third
would.

Fairness. `UpdateProcess` and `Hello` assume weak fairness of each goroutine: Go's
scheduler is preemptive, the loops have no exit, and a mutex waiter or sender is not
starved. Nothing is assumed about hellos, configuration, losses or restarts. In
`UpdateProcess` weak fairness of a goroutine that waits for a lock is enough because
the holders' loops are finite. `NodeLocks`, whose other goroutines may go on for ever,
assumes strong fairness of each goroutine's steps, which is what Go's mutexes (they
hand over to a waiter after 1 ms) and its first-in-first-out channel queues provide.
`Decision`, `Forwarding` and the other specifications have no liveness properties and
assume no fairness.

## Proofs

All theorems hold for any set of nodes and interfaces, any bounds, and use only the
named assumptions: `TopologyAssumption` (segments are equivalence classes of
interfaces), `SidAssumption` (IDs printed and read back are the same bytes, and "" is
zeros), `DecisionAssumption` (no node is its own neighbor, and nobody issues an LSP
for the ID of nobody), `ForwardingAssumption` (links have two ends), `LocksAssumption`
(finitely many interfaces, a decision goroutine where there is one), `HostsAssumption`
(what the operating system lists has its types, and no two interfaces of a host have
one name) and `AdvertiseAssumption` (IDs and MACs are six bytes, sequence numbers are
positive and have 32 bits).

`UpdateProofs`:
- `TypeCorrect`.
- `FloodInvariant`, with `FloodInv` the inductive invariant, and from it
  `FloodingNeverForgets` (`NoLostFlood`) and `RemoteLspsGrow`
  (`RemoteLspsOnlyGrow`). `NoLostFlood` alone is not inductive. `isisUpdate` looks an
  LSP up, sends it and clears the flag in separate steps, so `FlooderInv` records
  that the LSP it holds is current or that the goroutine that replaced it will
  still visit the interface. `InputInv` records that what `isisUpdateInput` found
  newer is newer still when it is inserted, which needs `DBLockExclusive`. A step
  that touches none of this is `Quiet`; the others, a restart among them, have a
  lemma each.
- `UpdateImplementsLinkState` (`ImplementsLinkState`): `OriginInvariant` follows an
  LSP through queues and goroutines to the issuing of it, which makes the insertion
  by `isisUpdateInput` an `Adopt`; `generateLocalLsp`'s is an `Originate`, a restart
  a `Forget`, and every other step leaves the store as it is.

`ConvergeProofs`, on top of `UpdateProofs`:
- `FloodingConverges` (`LinksAgreeWhenQuiet`), from `ConvergeInvariant`. `NoLostFlood`
  ends where a frame leaves its interface. `DeliveredInv` goes on from there: while
  nothing is lost, an LSP that crossed one interface of a segment waits at, is being
  filed by, or is covered by the database of every other. `SerialInv` says that calls
  of `generateLocalLsp` that do not overlap number their LSPs upwards, so that one
  number means one LSP; `AbsentInv` that number 0 means no LSP.

`HelloProofs`:
- `TypeCorrect`, `HelloInvariant`, and from it `HandshakeIsMutual` (`UpIsMutual`) and
  `NoIdNoAdjacency` (`UnconfiguredNeverUp`), for any strings an operator may configure.
  The invariant describes each hello in flight (`Sound`): who can have sent it and what
  state its sender was in.

`ShortestPathProofs` has what `Ball`, a recursive function, computes: its equation,
monotonicity, and that it stops growing after as many hops as there are systems.
Induction over the naturals comes from the library's well-founded minimum, with
sets in the place of predicates (`LeastNumber`, `SetInduction`).

`DecisionProofs`:
- `TypeCorrect`, `DecisionInvariant`, and from it `SpfIsShortest` (`SpfShortest`),
  `TopoIsCurrent` (`TopoCurrent`), `RoutesAreShortest` (`RoutesShortest`, of each step
  that adds a route) and `RoutesAreComplete` (`RoutesComplete`). LSPs may change to any
  others between runs and adjacencies at any time, so the properties speak of the LSPs
  the run worked on and of the adjacencies it saw with their IDs (`loaded`).
  `computeSPF` takes candidates off `tent` in any order of equal distances; `RunInv`
  says how far it has got (`AtLevel`): for some d, `paths` holds true distances of at
  most d hops, `tent` true distances of d or d + 1, and between them they hold all that
  is within d hops and all neighbors of what is in `paths`. `WriteInv` says what the
  loop that writes `TopoDB` and the routes has yet to do, `IdleInv` what it has done,
  `ReachedInv` what earlier runs have left in `TopoDB`.

`ForwardingProofs`:
- `ForwardingInvariant`, and from it `FloodingIsComplete` (`FloodedEverywhere`) and
  `NextHopsFitTogether` (`HopsFitTogether`). For each node whose calls of
  `generateLocalLsp` have not overlapped (`Own`): numbers go up, nobody has a newer LSP of
  it than itself, one number means one LSP, and where the other end of a link has an
  older one a flag is set or about to be (`Flagged`). When no flag is left the ends of
  each link agree. A node computes on its own LSPs, with its own taken out;
  `WithoutStart` turns its distances into those in the network of links, and
  `HopLeadsCloser` is the induction step: however ties are broken, a hop brings the
  packet one link closer.

`LockProofs`:
- `NoDeadlock` (`DeadlockFree`), for any number of interfaces and decision goroutines,
  where nobody calls `GetIntf` (with it there is a deadlock, run `LocksGetIntf`).
  `LocksInv` says at which place of its programs a goroutine can be and that it holds
  exactly the mutexes taken on the way there (`Doing`). Who holds a mutex waits only for
  one of lower `Rank`, so nobody waits in a circle of mutexes, or sends to `sendPdus`,
  which waits for nobody; the other sends, made without a mutex, lead to
  `isisDecision`, which sends nothing.

`AdvertiseProofs`, for any host, IDs, MACs, addresses, routes, adjacencies and number
of hops:
- `SlotsMatchLinksAlways` (`SlotsMatchLinks`). `ScanInv` says that the addresses
  looked at so far (`Scanned`) have the slots they should, and that the rest of the
  list is empty; `index` is one more than their number. `ContainerCount` counts a
  container's addresses, so that the list is neither too short nor left with holes.
- `HopsAgreeAlways`, `LspArrivesAlways`, `AnswerUnderstoodAlways` (`HopsAgree`,
  `LspArrives`, `AnswerUnderstood`), from `WireInv`. `FlattenSeq` and the loop of
  `parseTLVs` do the same arithmetic from two sides: `FlattenIs` says where in the
  concatenation each piece begins (`Ends`), `Carries` that a frame holds TLVs whose
  length bytes are right behind its headers, and `Upto` that the loop has found the
  first of them and stands where the next begins (`ParseTurn`, `ParseEnd`). That is
  enough for hellos and for an LSP that fits (`FitLengths`); `TLVsRead` is then about
  the readers of the TLVs. An LSP that does not fit is read by its first receiver as
  it may be, or makes it panic. But what that receiver filed has right lengths and
  ends within the buffer (`TLVAtIs`), so the frame it sends on is one that `Carries`
  it, and no later receiver reads anything else: the invariant speaks of `What`, the
  TLVs written until somebody has read them, those read from then on.

Only model-checked: liveness (`LinksConverge`, `ConfiguredComesUp`, `UpdatesEnd`),
which is out of the prover's reach; the AVL tree (`Balanced`, `GetAllSorted`,
`SearchAgrees`), whose operators are RECURSIVE, as is what they work on: a proof would
be an induction over trees.

## Not modelled

System calls, the wording of replies and logs, generated gRPC code, the `show_run`
client and the scripts. A system ID that is changed while LSPs of the old one are
about: nothing in the code removes them. LANs with more than two nodes are allowed by
`Topology` and the proofs but not by a run: the daemon keeps one adjacency per
interface, and all topologies of the repository are point to point. Losses and
restarts are in `Hello` and `UpdateProcess`, not in `Forwarding`, where in addition an
LSP crosses a link and `computeSPF` runs in one step; their single steps are in
`UpdateProcess` and `Decision`. `Forwarding` leaves IDs of nobody out of LSPs, as they
lead nowhere, and `HopsFitTogether` looks only at `TopoDB` entries of systems that can
be reached. An LSP that a node issues without an ID is not modelled.

## Plan

Done: the modules above; every safety property the passing runs check has a theorem,
but for those of the AVL tree. What could follow:
1. `Avl` as a machine that changes one node at a time, on a tree kept as a function
   from nodes to their fields. Its invariants could be proved without recursion, and
   an unlocked reader (`OutMiss` of `UpdateProcess`) would be a second process on it.
2. A system ID that changes while adjacencies are UP, across the update process.
3. Losses and restarts in `Forwarding`.
