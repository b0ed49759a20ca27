------------------------------ MODULE Decision ------------------------------
(***************************************************************************)
(* The decision process of go-is-is (decision.go) on one node: computeSPF, *)
(* step by step, on an UpdateDB that changes between its runs and on       *)
(* adjacencies that are written and rewritten while it runs, TopoDB and    *)
(* the kernel routes it leaves behind.                                     *)
(*                                                                         *)
(* computeSPF runs under UpdateDB.DBLock, so no LSP changes while it runs; *)
(* it reads the adjacencies of the local interfaces without their lock,    *)
(* the ID when it loads them and the gateway when it installs a route.     *)
(* The order of tent, in the code the order in which neighbors were        *)
(* advertised, only decides between equal candidates; here any of them may *)
(* be taken ("If the paths are equal, pick one arbitrarily?").             *)
(***************************************************************************)
EXTENDS Naturals, FiniteSets, SequencesExt, ShortestPaths

CONSTANTS
  System,     \* system IDs of the network, Phantom included
  Self,       \* cfg.sid, the system ID of this node
  Phantom,    \* what systemIDToString makes of a neighborSystemID that is nil,
              \* zeroed or half copied; LSPs can list it too, none is issued by it
  NoHop,      \* a nil *Adjacency
  Intf,       \* the local interfaces, in the order of cfg.interfaces: 1..n
  Peer,       \* Peer[i]: the system behind interface i
  Advertised, \* Advertised[k]: the neighbor sets that the LSPs of k may list
  MaxPending, \* bound: triggers that wait for a run
  MaxRewrites,\* bound: times an adjacency that is UP is written again
  Networks    \* Networks[k]: the networks k advertises in TLV 128

ASSUME DecisionAssumption ==
  /\ Self \in System /\ Phantom \in System \ {Self} /\ NoHop \notin Intf
  /\ IsFiniteSet(Intf) /\ Intf = 1..Cardinality(Intf)
  /\ Peer \in [Intf -> System \ {Self, Phantom}]
  /\ Advertised \in [System -> SUBSET SUBSET System] /\ Advertised[Phantom] = {}
  /\ IsFiniteSet(System)
  /\ DOMAIN Networks = System
  /\ MaxPending \in 1..(2 * Cardinality(Intf)) /\ MaxRewrites \in Nat

VARIABLES
  lsps,     \* UpdateDB: lsps[k] is TLV 2 of the LSP of k, for the k it holds
  adj,      \* adj[i]: see AdjStates
  rewrites, \* how often an adjacency that was UP has been written again
  pending,  \* isisDecision goroutines that received `true`
  pc,       \* where computeSPF is
  next,     \* the interface to load into tent next
  paths,    \* paths, a sequence of triples
  tent,     \* tent
  topo,     \* TopoDB
  rib,      \* rib[p]: the interface the kernel routes prefix p to
  loaded,   \* history: the interfaces this run saw UP, with the ID of their peer
  torn,     \* history: the interfaces whose gateway was being written when this
            \* run installed a path over them
  reached,  \* history: the systems that could be reached in some run so far
  fresh     \* history: no LSP of another system has come in since the last run

runVars == <<pc, next, paths, tent, topo, rib, loaded, torn, reached>>
vars == <<lsps, adj, rewrites, pending, fresh, runVars>>

-----------------------------------------------------------------------------
Metric == 10

Triple(id, distance, hop) == [id |-> id, distance |-> distance, hop |-> hop]

Ids(trips) == {t.id : t \in trips}

\* f with x mapped to y.
Assign(f, x, y) == [z \in DOMAIN f \cup {x} |-> IF z = x THEN y ELSE f[z]]

\* The routes a node has to its own networks before it learns any.
Connected == [p \in Networks[Self] |-> NoHop]

-----------------------------------------------------------------------------
(* What the other processes of the node do to the data computeSPF reads.   *)

\* Faulty variant of NewLsp: without DBLock, so also while computeSPF runs.
NewLspUnlocked(k) ==
  /\ pending < MaxPending
  /\ \E S \in Advertised[k] : lsps' = Assign(lsps, k, S)
  /\ pending' = pending + 1
  /\ fresh' = FALSE
  /\ UNCHANGED <<adj, rewrites, runVars>>

\* isisUpdateInput accepts an LSP of k under DBLock and triggers SPF.  It looks
\* at sequence numbers only: an LSP that replaces another may list fewer or other
\* neighbors (k has restarted, or built it while an adjacency was being written),
\* and after a restart of our own it may be an LSP of ours.
\* One trigger per isisDecision goroutine can be waiting for DBLock and one per
\* isisUpdateInput goroutine for a receiver; there is one of each per interface,
\* so MaxPending is at most 2 * Cardinality(Intf).
NewLsp(k) ==
  /\ pc = "idle"
  /\ pending < MaxPending
  /\ \E S \in Advertised[k] : lsps' = Assign(lsps, k, S)
  /\ pending' = pending + 1
  /\ fresh' = FALSE
  /\ UNCHANGED <<adj, rewrites, runVars>>

\* What an adjacency goes through.  isisHelloRecv assigns, in this order, state
\* = "UP", metric, a zeroed neighborSystemID, a zeroed neighborIP, and copies the
\* ID and then the gateway, again on every further answer it hears:
\*   NEW      the state is not "UP"
\*   raising  the state is "UP" for the first time, the ID not there yet
\*   clearing the state is "UP" still, the ID gone again
\*   named    the ID is there, the gateway is not
\*   UP       all is written
AdjStates == {"NEW", "raising", "clearing", "named", "UP"}

\* The ID read from interface i, whose state is "UP".
NeighborID(i) == IF adj[i] \in {"named", "UP"} THEN Peer[i] ELSE Phantom

\* generateLocalLsp inserts our own LSP under DBLock; it triggers nothing.  It
\* follows the write of one adjacency, while others may be half written.
LocalLsp ==
  LET listed == {NeighborID(i) : i \in {j \in Intf : adj[j] # "NEW"}} IN
  /\ pc = "idle"
  /\ \E i \in Intf : adj[i] = "UP"
  /\ Self \in DOMAIN lsps => lsps[Self] # listed
  /\ lsps' = Assign(lsps, Self, listed)
  /\ UNCHANGED <<adj, rewrites, pending, fresh, runVars>>

AdjBegin(i) ==
  /\ \/ adj[i] = "NEW" /\ adj' = [adj EXCEPT ![i] = "raising"]
        /\ UNCHANGED rewrites
     \/ adj[i] = "UP" /\ adj' = [adj EXCEPT ![i] = "clearing"]
        /\ rewrites < MaxRewrites /\ rewrites' = rewrites + 1
  /\ UNCHANGED <<lsps, pending, fresh, runVars>>

AdjName(i) ==
  /\ adj[i] \in {"raising", "clearing"}
  /\ adj' = [adj EXCEPT ![i] = "named"]
  /\ UNCHANGED <<lsps, rewrites, pending, fresh, runVars>>

AdjEnd(i) ==
  /\ adj[i] = "named"
  /\ adj' = [adj EXCEPT ![i] = "UP"]
  /\ UNCHANGED <<lsps, rewrites, pending, fresh, runVars>>

-----------------------------------------------------------------------------
(* computeSPF                                                              *)

\* Faulty variant of GiveUp: the goroutine does not wait for a trigger.
GiveUpUnasked ==
  /\ pc = "idle"
  /\ Self \notin DOMAIN lsps
  /\ pending' = pending - 1
  /\ UNCHANGED <<lsps, adj, rewrites, fresh, runVars>>

\* isisDecision calls computeSPF, which takes DBLock and gives up when UpdateDB
\* lacks our own LSP.
GiveUp ==
  /\ pc = "idle" /\ pending > 0
  /\ Self \notin DOMAIN lsps
  /\ pending' = pending - 1
  /\ UNCHANGED <<lsps, adj, rewrites, fresh, runVars>>

Start ==
  /\ pc = "idle" /\ pending > 0
  /\ Self \in DOMAIN lsps
  /\ pending' = pending - 1
  /\ paths' = <<Triple(Self, 0, NoHop)>>
  /\ tent' = {} /\ loaded' = {} /\ torn' = {}
  /\ next' = 1
  /\ fresh' = TRUE
  /\ pc' = "load"
  /\ UNCHANGED <<lsps, adj, rewrites, topo, rib, reached>>

\* What reading the adjacency of interface i without intf.lock can put in tent.
\* The metric of one that comes up for the first time may still be 0.
Seen(i) ==
  CASE adj[i] = "NEW" -> {{}}
    [] adj[i] = "raising" -> {{Triple(Phantom, m, i)} : m \in {0, Metric}}
    [] OTHER -> {{Triple(NeighborID(i), Metric, i)}}

\* The loop that loads the UP adjacencies of localInterfaces.
Load ==
  /\ pc = "load" /\ next \in Intf
  /\ \E T \in Seen(next) : tent' = tent \cup T
  /\ loaded' = IF adj[next] \in {"named", "UP"} THEN loaded \cup {next} ELSE loaded
  /\ next' = next + 1
  /\ UNCHANGED <<lsps, adj, rewrites, pending, pc, paths, topo, rib, torn, reached, fresh>>

\* getAdjacencies: the neighbors in the LSP of k.  Our own LSP was removed from
\* `unknown`, and a system may have none.
GetAdjacencies(k) == IF k \in DOMAIN lsps \ {Self} THEN lsps[k] ELSE {}

\* addAdjToTent for the neighbors S of a system at distance d reached over hop:
\* one that is in paths is ignored, one in tent may only get a smaller distance
\* (its next hop stays), any other is added.
AddAdjToTent(d, hop, S, tnt, pths) ==
  LET new == S \ Ids(ToSet(pths)) IN
  {IF t.id \in new /\ d + Metric < t.distance THEN [t EXCEPT !.distance = d + Metric] ELSE t
     : t \in tnt}
    \cup {Triple(k, d + Metric, hop) : k \in new \ Ids(tnt)}

\* Faulty variant of Extract: any candidate is taken.
ExtractAny ==
  /\ pc = "run"
  /\ \E best \in tent :
       /\ paths' = Append(paths, best)
       /\ tent' = AddAdjToTent(best.distance, best.hop, GetAdjacencies(best.id),
                               tent \ {best}, Append(paths, best))
  /\ UNCHANGED <<lsps, adj, rewrites, pending, pc, next, topo, rib, loaded, torn, reached, fresh>>

\* One round of the main loop: a candidate of least cost moves to paths.
Extract ==
  /\ pc = "run"
  /\ \E best \in tent :
       /\ \A t \in tent : best.distance <= t.distance
       /\ paths' = Append(paths, best)
       /\ tent' = AddAdjToTent(best.distance, best.hop, GetAdjacencies(best.id),
                               tent \ {best}, Append(paths, best))
  /\ UNCHANGED <<lsps, adj, rewrites, pending, pc, next, topo, rib, loaded, torn, reached, fresh>>

\* Faulty variant of Record: overwrite is false.
RecordOnce(db, path) == IF path.id \in DOMAIN db THEN db ELSE Assign(db, path.id, path)

\* AvlInsert(topoDB.Root, ..., path, true).
Record(db, path) == Assign(db, path.id, path)

\* getDirectlyConnectedPrefixes: TLV 128 of the LSP of k, if there is one.
DirectlyConnectedPrefixes(k) == IF k \in DOMAIN lsps THEN Networks[k] ELSE {}

\* The prefixes of a path that the kernel may take.  installRouteFromPath returns
\* early for our own path and when there is no next hop; it reads the gateway
\* only now.  RouteAdd fails while that is 0.0.0.0, and the copy can land between
\* two prefixes.
Accepted(path) ==
  IF path.id = Self \/ path.hop = NoHop THEN {{}}
  ELSE IF adj[path.hop] = "UP" THEN {DirectlyConnectedPrefixes(path.id)}
  ELSE SUBSET DirectlyConnectedPrefixes(path.id)

\* Faulty variant of InstallRoute: a failed RouteAdd ends the loop over the prefixes.
InstallRouteAbort(routes, path, P) ==
  IF P \cap DOMAIN routes # {} THEN routes
  ELSE [p \in DOMAIN routes \cup P |-> IF p \in DOMAIN routes THEN routes[p] ELSE path.hop]

\* RouteAdd fails for a prefix the kernel has a route for, so the first route stays.
InstallRoute(routes, path, P) ==
  [p \in DOMAIN routes \cup P |-> IF p \in DOMAIN routes THEN routes[p] ELSE path.hop]

\* tent is empty: path after path is written to TopoDB and the kernel; DBLock is
\* released after the last one.
Write ==
  LET path == Head(paths) IN
  /\ (pc = "run" /\ tent = {}) \/ pc = "write"
  /\ topo' = Record(topo, path)
  /\ \E P \in Accepted(path) : rib' = InstallRoute(rib, path, P)
  /\ torn' = torn \cup {i \in {path.hop} \cap Intf : adj[i] # "UP"}
  /\ paths' = Tail(paths)
  /\ pc' = IF Len(paths) = 1 THEN "idle" ELSE "write"
  /\ UNCHANGED <<lsps, adj, rewrites, pending, next, tent, loaded, reached, fresh>>

-----------------------------------------------------------------------------
(* Reference definitions: hop counts in the graph UpdateDB describes.      *)

Graph == [k \in System |-> IF k \in DOMAIN lsps \ {Self} THEN lsps[k] ELSE {}]
Behind(I) == {Peer[i] : i \in I}

\* The systems the interfaces I lead to, and the hops it takes.
Reach(I) == Reachable(Graph, Behind(I)) \ {Self, Phantom}
Hops(I, k) == 1 + Distance(Graph, Behind(I), k)

\* The interfaces on a shortest path to k.
BestHops(I, k) == {i \in I : Peer[i] \in Nearest(Graph, Behind(I), k)}

\* All adjacencies are loaded.
Loaded ==
  /\ pc = "load" /\ next \notin Intf
  /\ pc' = "run" /\ next' = 0
  /\ reached' = reached \cup Reach(loaded)
  /\ UNCHANGED <<lsps, adj, rewrites, pending, paths, tent, topo, rib, loaded, torn, fresh>>

-----------------------------------------------------------------------------
Init ==
  /\ lsps = [k \in {} |-> {}]
  /\ adj = [i \in Intf |-> "NEW"] /\ rewrites = 0
  /\ pending = 0
  /\ pc = "idle" /\ next = 0
  /\ paths = <<>> /\ tent = {}
  /\ topo = [k \in {} |-> {}]
  /\ rib = Connected
  /\ loaded = {} /\ torn = {} /\ reached = {} /\ fresh = FALSE

Next ==
  \/ \E k \in System : NewLsp(k)
  \/ LocalLsp
  \/ \E i \in Intf : AdjBegin(i) \/ AdjName(i) \/ AdjEnd(i)
  \/ GiveUp \/ Start \/ Load \/ Loaded \/ Extract \/ Write

Spec == Init /\ [][Next]_vars

-----------------------------------------------------------------------------
(* Properties                                                              *)

Triples == [id : System, distance : Nat, hop : Intf \cup {NoHop}]

TypeOK ==
  /\ DOMAIN lsps \subseteq System \ {Phantom}
  /\ \A k \in DOMAIN lsps : lsps[k] \subseteq System
  /\ adj \in [Intf -> AdjStates] /\ rewrites \in 0..MaxRewrites
  /\ pending \in Nat
  /\ pc \in {"idle", "load", "run", "write"} /\ next \in Nat
  /\ paths \in Seq(Triples) /\ tent \subseteq Triples
  /\ DOMAIN topo \subseteq System /\ \A k \in DOMAIN topo : topo[k] \in Triples
  /\ loaded \subseteq Intf /\ torn \subseteq Intf
  /\ reached \subseteq System \ {Self, Phantom} /\ fresh \in BOOLEAN

\* computeSPF is Dijkstra: when tent is empty, paths holds every system that can
\* be reached and no other, at its least distance, over an interface on a
\* shortest path, whatever the order of equal candidates, with parallel links to
\* one neighbor (the code assumes there are none), one-sided LSPs, IDs that belong
\* to nobody, and adjacencies that are written or rewritten while it runs.  An
\* adjacency caught without its ID is missing from `loaded`.
SpfShortest ==
  pc = "run" /\ tent = {} =>
    /\ Ids(ToSet(paths)) \ {Phantom, Self} = Reach(loaded)
    /\ \A t \in ToSet(paths) : t.id \notin {Phantom, Self} =>
         t.distance = Metric * Hops(loaded, t.id) /\ t.hop \in BestHops(loaded, t.id)

\* TopoDB is never cleared.  After a run it says of every system that can be
\* reached what UpdateDB says now, whatever longer or shorter ways, over whatever
\* interfaces, were there in earlier runs; and what it holds besides are exactly
\* the systems that an earlier run could reach and this one cannot.
TopoCurrent ==
  pc = "idle" /\ fresh =>
    /\ DOMAIN topo \ {Phantom, Self} = reached
    /\ \A k \in Reach(loaded) :
         topo[k].distance = Metric * Hops(loaded, k) /\ topo[k].hop \in BestHops(loaded, k)

\* A route enters the kernel only over an interface on a shortest path to a
\* system that advertises its prefix, as UpdateDB and the adjacencies are in the
\* run that installs it, although the run installs while they are rewritten.
\* (It then stays, whatever later runs find.)
RoutesShortest ==
  [][\A p \in DOMAIN rib' \ DOMAIN rib :
       \E k \in Reach(loaded) \cap DOMAIN lsps :
         p \in Networks[k] /\ rib'[p] \in BestHops(loaded, k)]_vars

\* After a run no route is missing to a network of a system that can be reached,
\* if the gateway of its next hop was not being written as the run installed it:
\* a prefix the kernel refuses because it has it does not keep it from others.
RoutesComplete ==
  pc = "idle" /\ fresh =>
    \A k \in Reach(loaded) \cap DOMAIN lsps :
      topo[k].hop \notin torn => Networks[k] \subseteq DOMAIN rib
=============================================================================
