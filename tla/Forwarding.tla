----------------------------- MODULE Forwarding -----------------------------
(***************************************************************************)
(* The three processes of go-is-is together, on every node of a network of *)
(* point-to-point links, down to the routes in the kernels: adjacencies    *)
(* come up (hello.go), LSPs are built and flooded (update.go), computeSPF  *)
(* runs and installs routes (decision.go), and packets follow the routes.  *)
(*                                                                         *)
(* isisHelloRecv and generateLocalLsp run once per interface, without a    *)
(* common lock, and appear step by step.  The rest is as its own module    *)
(* shows it from outside: an LSP crosses a link in one step, from the SRM  *)
(* flag that makes isisUpdate send it to the flags floodNewLsp sets on the *)
(* other end, and a run of computeSPF is one step that picks shortest      *)
(* paths with ties broken anyhow, which is what Decision's SpfShortest     *)
(* establishes of its single steps.  A neighbor ID that belongs to nobody  *)
(* leads nowhere and is left out of LSPs.  Frames are not lost and daemons *)
(* do not restart.                                                         *)
(***************************************************************************)
EXTENDS ShortestPaths

CONSTANTS
  Node,        \* the daemons
  Link,        \* Link[n]: the nodes n has a link to
  Up,          \* Up[n]: the adjacencies of n that are UP in the initial state
  Known,       \* Known[n]: the nodes whose LSPs n holds in the initial state
  Dest,        \* the nodes whose own network packets are followed to
  MaxRewrites  \* bound: times an adjacency of n that is UP is written again

ASSUME ForwardingAssumption ==
  /\ IsFiniteSet(Node) /\ Dest \subseteq Node
  /\ {Link, Up, Known} \subseteq [Node -> SUBSET Node]
  /\ \A n \in Node : n \notin Link[n] /\ Up[n] \subseteq Link[n] /\ n \in Known[n]
  /\ \A n \in Node : \A m \in Link[n] : n \in Link[m]
  /\ MaxRewrites \in [Node -> Nat]

VARIABLES
  adj,      \* adj[n]: the neighbors with which n's adjacency is UP and written
  seqNum,   \* sequenceNumber of update.go, per node
  pc,       \* pc[n][m]: where isisHelloRecv on n's interface to m is
  tmp,      \* tmp[n][m]: the number it has loaded
  built,    \* built[n][m]: the LSP it has built
  srm,      \* srm[n][m]: the LSPs whose SRM flag is set on n's interface to m
  db,       \* UpdateDB: db[n][k] is the LSP of k that n holds
  trigger,  \* trigger[n]: a `true` sent on triggerSPF is not yet dealt with
  topo,     \* TopoDB: topo[n][k] is the next hop to k, or n itself if unknown
  rib,      \* rib[n][k]: the next hop of the kernel route to k's own network
  informed, \* history: n's last run saw the LSPs and adjacencies it has now
  overlap,  \* history: two calls of generateLocalLsp on n have overlapped
  rewrites  \* rewrites[n]: times n has written an adjacency that was UP again

genVars == <<seqNum, pc, tmp, built>>
spfVars == <<trigger, topo, rib>>
histVars == <<overlap, rewrites>>
vars == <<adj, genVars, srm, db, spfVars, informed, histVars>>

-----------------------------------------------------------------------------
\* An LSP is its sequence number and the neighbors in TLV 2.  Sequence number 0
\* stands for an LSP that is not there.
Absent == [seq |-> 0, nbrs |-> {}]

(* isisHelloRecv, where an answer brings an adjacency UP or finds it UP,   *)
(* and generateLocalLsp, which it calls and which triggers no SPF.         *)

\* The adjacency of n with m is written: the old neighborSystemID is gone.
AdjBegin(n, m) ==
  /\ m \in Link[n] /\ pc[n][m] = "idle"
  /\ \/ m \notin adj[n] /\ UNCHANGED rewrites
     \/ /\ m \in adj[n] /\ rewrites[n] < MaxRewrites[n]
        /\ rewrites' = [rewrites EXCEPT ![n] = @ + 1]
  /\ adj' = [adj EXCEPT ![n] = @ \ {m}]
  /\ pc' = [pc EXCEPT ![n][m] = "adj"]
  /\ overlap' = [overlap EXCEPT ![n] = @ \/ \E p \in Node : pc[n][p] # "idle"]
  /\ informed' = [informed EXCEPT ![n] = FALSE]
  /\ UNCHANGED <<seqNum, tmp, built, srm, db, spfVars>>

\* neighborSystemID and neighborIP are there.
AdjEnd(n, m) ==
  /\ pc[n][m] = "adj"
  /\ adj' = [adj EXCEPT ![n] = @ \cup {m}]
  /\ pc' = [pc EXCEPT ![n][m] = "load"]
  /\ informed' = [informed EXCEPT ![n] = FALSE]
  /\ UNCHANGED <<seqNum, tmp, built, srm, db, spfVars, histVars>>

\* sequenceNumber += 1 is a load ...
GenLoad(n, m) ==
  /\ pc[n][m] = "load"
  /\ tmp' = [tmp EXCEPT ![n][m] = seqNum[n]]
  /\ pc' = [pc EXCEPT ![n][m] = "store"]
  /\ UNCHANGED <<adj, seqNum, built, srm, db, spfVars, informed, histVars>>

\* ... and a store.
GenStore(n, m) ==
  /\ pc[n][m] = "store"
  /\ seqNum' = [seqNum EXCEPT ![n] = tmp[n][m] + 1]
  /\ pc' = [pc EXCEPT ![n][m] = "build"]
  /\ UNCHANGED <<adj, tmp, built, srm, db, spfVars, informed, histVars>>

\* The LSP is built from the adjacencies there are; the number is the one just
\* stored or, if the compiler reloads the global, what it holds by now.
GenBuild(n, m) ==
  /\ pc[n][m] = "build"
  /\ \E s \in {tmp[n][m] + 1, seqNum[n]} :
       built' = [built EXCEPT ![n][m] = [seq |-> s, nbrs |-> adj[n]]]
  /\ tmp' = [tmp EXCEPT ![n][m] = 0]
  /\ pc' = [pc EXCEPT ![n][m] = "insert"]
  /\ UNCHANGED <<adj, seqNum, srm, db, spfVars, informed, histVars>>

\* It overwrites what is there, whatever its number.
GenInsert(n, m) ==
  /\ pc[n][m] = "insert"
  /\ db' = [db EXCEPT ![n][n] = built[n][m]]
  /\ built' = [built EXCEPT ![n][m] = Absent]
  /\ pc' = [pc EXCEPT ![n][m] = "flood"]
  /\ UNCHANGED <<adj, seqNum, tmp, srm, spfVars, informed, histVars>>

\* SRM is set on all interfaces.
GenFlood(n, m) ==
  /\ pc[n][m] = "flood"
  /\ srm' = [srm EXCEPT ![n] = [p \in Node |-> IF p \in Link[n] THEN @[p] \cup {n} ELSE @[p]]]
  /\ pc' = [pc EXCEPT ![n][m] = "idle"]
  /\ UNCHANGED <<adj, seqNum, tmp, built, db, spfVars, informed, histVars>>

HelloRecv(n, m) ==
  \/ AdjBegin(n, m) \/ AdjEnd(n, m)
  \/ GenLoad(n, m) \/ GenStore(n, m) \/ GenBuild(n, m) \/ GenInsert(n, m) \/ GenFlood(n, m)

-----------------------------------------------------------------------------
\* Faulty variant of FloodNewLsp: an LSP is not relayed.
FloodNowhere(flags, n, m, k) == flags

\* floodNewLsp on n: an LSP of k that came from m goes to all others.
FloodNewLsp(flags, n, m, k) ==
  [flags EXCEPT ![n] = [p \in Node |->
     IF p \in Link[n] \ {m} THEN @[p] \cup {k} ELSE @[p] \ {k}]]

\* The LSP of k crosses the link from m to n: isisUpdate on m sends it, once, and
\* isisUpdateInput on n files it if it is newer, floods it and triggers SPF.
\* isisUpdate waits for intf.lock while isisHelloRecv writes the adjacency.
Cross(n, m, k) ==
  LET sent == [srm EXCEPT ![m][n] = @ \ {k}] IN
  /\ n \in adj[m] /\ k \in srm[m][n] /\ db[m][k].seq > 0
  /\ IF db[n][k].seq < db[m][k].seq
     THEN /\ db' = [db EXCEPT ![n][k] = db[m][k]]
          /\ srm' = FloodNewLsp(sent, n, m, k)
          /\ trigger' = [trigger EXCEPT ![n] = TRUE]
          /\ informed' = [informed EXCEPT ![n] = FALSE]
     ELSE /\ srm' = sent
          /\ UNCHANGED <<db, trigger, informed>>
  /\ UNCHANGED <<adj, genVars, topo, rib, histVars>>

-----------------------------------------------------------------------------
\* The graph computeSPF walks: the LSPs of the others, our own taken out.
Graph(n) == [k \in Node |-> IF k = n THEN {} ELSE db[n][k].nbrs]

\* Faulty variant of Best: any neighbor that leads to k, by whatever detour.
BestAny(n, A, k) ==
  IF k \in Reachable(Graph(n), A) \ {n}
  THEN {m \in A : k \in Reachable(Graph(n), {m})} ELSE {n}

\* The neighbors among A through which n has a shortest path to k, n itself
\* without one.
Best(n, A, k) ==
  IF k \in Reachable(Graph(n), A) \ {n} THEN Nearest(Graph(n), A, k) ELSE {n}

\* Adjacencies that are being written: computeSPF may see them or not, and the
\* kernel may refuse a route over them.
Writing(n) == {m \in Link[n] : pc[n][m] = "adj"}

\* computeSPF on n.  Without our own LSP it gives up.  The route to the network
\* of k needs k's LSP (TLV 128), and a route the kernel has stays.
ComputeSPF(n) ==
  /\ trigger[n] /\ trigger' = [trigger EXCEPT ![n] = FALSE]
  /\ IF db[n][n].seq = 0 THEN UNCHANGED <<topo, rib, informed>>
     ELSE /\ \E W \in SUBSET Writing(n), refused \in SUBSET Writing(n) :
             \E hop \in [Dest -> adj[n] \cup W \cup {n}] :
               /\ \A k \in Dest : hop[k] \in Best(n, adj[n] \cup W, k)
               /\ topo' = [topo EXCEPT ![n] =
                    [k \in Dest |-> IF hop[k] = n THEN @[k] ELSE hop[k]]]
               /\ rib' = [rib EXCEPT ![n] = [k \in Dest |->
                    IF @[k] = n /\ db[n][k].seq > 0 /\ hop[k] \notin refused
                    THEN hop[k] ELSE @[k]]]
          /\ informed' = [informed EXCEPT ![n] = TRUE]
  /\ UNCHANGED <<adj, genVars, srm, db, histVars>>

-----------------------------------------------------------------------------
\* The adjacencies in Up are there and have been advertised, the LSPs in Known
\* have got around, to the others on their links they are about to be sent, and
\* computeSPF has not run yet.
Init ==
  /\ adj = Up
  /\ seqNum = [n \in Node |-> Cardinality(Up[n])]
  /\ pc = [n \in Node |-> [m \in Node |-> "idle"]]
  /\ tmp = [n \in Node |-> [m \in Node |-> 0]]
  /\ built = [n \in Node |-> [m \in Node |-> Absent]]
  /\ srm = [n \in Node |-> [m \in Node |->
             IF m \in Link[n]
             THEN {k \in Known[n] : Up[k] # {} /\ (k \notin Known[m] \/ (k = n /\ m \notin Up[n]))}
             ELSE {}]]
  /\ db = [n \in Node |-> [k \in Node |->
             IF k \in Known[n] THEN [seq |-> Cardinality(Up[k]), nbrs |-> Up[k]] ELSE Absent]]
  /\ trigger = [n \in Node |-> Known[n] # {n}]
  /\ topo = [n \in Node |-> [k \in Dest |-> n]]
  /\ rib = [n \in Node |-> [k \in Dest |-> n]]
  /\ informed = [n \in Node |-> FALSE]
  /\ overlap = [n \in Node |-> FALSE] /\ rewrites = [n \in Node |-> 0]

Next ==
  \/ \E n, m \in Node : HelloRecv(n, m)
  \/ \E n, m, k \in Node : Cross(n, m, k)
  \/ \E n \in Node : ComputeSPF(n)

Spec == Init /\ [][Next]_vars

-----------------------------------------------------------------------------
(* Properties                                                              *)

\* Where packets for k go next from each node, by the next hops in `hops`.
Way(hops, k) == [n \in Node |-> {hops[n][k]}]

\* Nothing is left to do anywhere.
Settled ==
  \A n \in Node :
    /\ adj[n] = Link[n] /\ ~trigger[n]
    /\ \A m \in Node : pc[n][m] = "idle" /\ srm[n][m] = {}

\* No generateLocalLsp has got in the way of another one of its node.  (When two
\* overlap, LSPs can have one number and an LSP can lack a link for good.)
Undisturbed == \A n \in Node : ~overlap[n]

\* Every LSP gets everywhere: once nothing is left to do, the LSP of each node
\* lists its links and the nodes on a link hold the same LSPs, although an LSP is
\* sent over a link once, when its flag is cleared for good, around a ring, over
\* links that come up late and while originators issue the next one.
FloodedEverywhere ==
  Settled /\ Undisturbed =>
    \A n \in Node :
      /\ db[n][n].nbrs = Link[n]
      /\ \A m \in Link[n] : \A k \in Node : db[n][k] = db[m][k]

\* Next hops that nodes choose on their own, breaking ties each in its own way,
\* fit together: once nothing is left to do and all have computed from what they
\* hold, following TopoDB from node to node leads to every destination there are
\* links to, and no kernel lacks a route.
HopsFitTogether ==
  Settled /\ Undisturbed /\ (\A n \in Node : informed[n]) =>
    \A n \in Node, k \in Dest : k \in Reachable(Link, {n}) \ {n} =>
      /\ k \in Reachable(Way(topo, k), {n})
      /\ rib[n][k] # n

\* README.md:48, "Installs the routes to make all containers reachable", and
\* README.md:3, "install routes in the containers so containers will be reachable
\* across networks": no packet comes back to a node it has left.  The kernels'
\* routes are never replaced, so a loop would be there to stay.
RoutesDeliver ==
  \A n \in Node, k \in Dest : n # k /\ rib[n][k] # n =>
    n \notin Reachable(Way(rib, k), {rib[n][k]})
=============================================================================
