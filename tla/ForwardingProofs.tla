-------------------------- MODULE ForwardingProofs --------------------------
(***************************************************************************)
(* LSPs get everywhere and next hops chosen independently fit together, in *)
(* every network, as long as no two calls of generateLocalLsp on one node  *)
(* overlap.  Each node computes distances in the graph of its own LSPs,    *)
(* without itself.  Once the databases agree, these are the distances in   *)
(* the network of links less one, so that every hop brings a packet        *)
(* closer.                                                                 *)
(***************************************************************************)
EXTENDS Forwarding, ShortestPathProofs

PCs == {"idle", "adj", "load", "store", "build", "insert", "flood"}
Lsps == [seq : Nat, nbrs : SUBSET Node]

TypeInv ==
  /\ adj \in [Node -> SUBSET Node]
  /\ seqNum \in [Node -> Nat] /\ pc \in [Node -> [Node -> PCs]]
  /\ tmp \in [Node -> [Node -> Nat]] /\ built \in [Node -> [Node -> Lsps]]
  /\ srm \in [Node -> [Node -> SUBSET Node]]
  /\ db \in [Node -> [Node -> Lsps]]
  /\ trigger \in [Node -> BOOLEAN] /\ informed \in [Node -> BOOLEAN]
  /\ topo \in [Node -> [Dest -> Node]] /\ rib \in [Node -> [Dest -> Node]]
  /\ overlap \in [Node -> BOOLEAN]

\* An LSP lists neighbors its node has links to.
LinksInv ==
  \A n \in Node :
    /\ adj[n] \subseteq Link[n]
    /\ \A m \in Node : /\ pc[n][m] = "adj" => m \in Link[n]
                       /\ built[n][m].nbrs \subseteq Link[n]
                       /\ db[n][m].nbrs \subseteq Link[m]

\* One call of generateLocalLsp on k at a time.
Alone(k) == \A p, q \in Node : pc[k][p] # "idle" /\ pc[k][q] # "idle" => p = q

\* Its number is the next one, its LSP lists the adjacencies.
Numbered(k) ==
  /\ \A p \in Node : pc[k][p] = "store" => tmp[k][p] = seqNum[k]
  /\ \A p \in Node : pc[k][p] = "build" => tmp[k][p] + 1 = seqNum[k]
  /\ \A p \in Node : pc[k][p] = "insert" => built[k][p] = [seq |-> seqNum[k], nbrs |-> adj[k]]
  /\ \A p \in Node : pc[k][p] \in {"build", "insert"} => seqNum[k] = db[k][k].seq + 1
  /\ (\A p \in Node : pc[k][p] \notin {"build", "insert"}) => seqNum[k] = db[k][k].seq

\* When there is no call, or only one that has inserted, k's own LSP is current.
Listed(k) ==
  (\A p \in Node : pc[k][p] \in {"idle", "flood"}) =>
    db[k][k].nbrs = adj[k] /\ (adj[k] # {} => db[k][k].seq > 0)

\* Nobody has a newer LSP of k than k, and one number means one LSP.
Newest(k) == \A m \in Node : db[m][k].seq <= db[k][k].seq
Same(k) == \A m, p \in Node : db[m][k].seq = db[p][k].seq => db[m][k] = db[p][k]

\* Where the other end of a link has an older LSP of k, a flag is set or about to be.
Flagged(k) ==
  \A m \in Node : \A p \in Link[m] : db[p][k].seq < db[m][k].seq =>
    k \in srm[m][p] \/ (m = k /\ \E q \in Node : pc[k][q] = "flood")

Own(k) == Alone(k) /\ Numbered(k) /\ Listed(k) /\ Newest(k) /\ Same(k) /\ Flagged(k)

OwnInv == \A k \in Node : ~overlap[k] => Own(k)

\* TopoDB and the routes of n are what computeSPF makes of its LSPs now.
Computed(n) ==
  \A k \in Dest : k \in Reachable(Graph(n), adj[n]) \ {n} =>
    /\ topo[n][k] \in Nearest(Graph(n), adj[n], k)
    /\ db[n][k].seq > 0 => rib[n][k] # n

ComputedInv == \A n \in Node : informed[n] /\ Writing(n) = {} => Computed(n)

Inv == TypeInv /\ LinksInv /\ OwnInv /\ ComputedInv

-----------------------------------------------------------------------------
LEMMA InitHolds == Init => Inv
  <1> SUFFICES ASSUME Init PROVE Inv
    OBVIOUS
  <1> USE ForwardingAssumption
  <1>1. ASSUME NEW k \in Node
        PROVE  /\ Cardinality(Up[k]) \in Nat
               /\ Up[k] # {} <=> Cardinality(Up[k]) > 0
               /\ Up[k] \subseteq Node /\ Up[k] \subseteq Link[k] /\ Known[k] \subseteq Node
    <2>1. Up[k] \subseteq Node /\ Up[k] \subseteq Link[k] /\ Known[k] \subseteq Node
      OBVIOUS
    <2>2. IsFiniteSet(Up[k])
      BY <2>1, FS_Subset
    <2>3. Cardinality(Up[k]) \in Nat /\ (Cardinality(Up[k]) = 0 <=> Up[k] = {})
      BY <2>2, FS_CardinalityType, FS_EmptySet
    <2> QED BY <2>1, <2>3
  <1> DEFINE Lsp(k) == [seq |-> Cardinality(Up[k]), nbrs |-> Up[k]]
  <1>2. ASSUME NEW n \in Node, NEW k \in Node
        PROVE  /\ db[n][k] = IF k \in Known[n] THEN Lsp(k) ELSE Absent
               /\ db[n][k] \in Lsps
               /\ db[n][k].nbrs \subseteq Link[k]
               /\ db[n][k].seq <= Cardinality(Up[k])
    BY <1>1 DEF Init, Absent, Lsps
  <1>3. ASSUME NEW n \in Node PROVE db[n][n] = Lsp(n)
    BY <1>2, <1>3
  <1>4. TypeInv
    <2>1. Absent \in Lsps
      BY DEF Absent, Lsps
    <2>2. seqNum \in [Node -> Nat] /\ db \in [Node -> [Node -> Lsps]]
      BY <1>1, <1>2 DEF Init
    <2>3. srm \in [Node -> [Node -> SUBSET Node]]
      BY <1>1 DEF Init
    <2> QED BY <2>1, <2>2, <2>3 DEF Init, TypeInv, PCs
  <1>5. LinksInv
    BY <1>1, <1>2 DEF Init, LinksInv, Absent
  <1>6. ASSUME NEW k \in Node PROVE Own(k)
    <2>1. \A p \in Node : pc[k][p] = "idle"
      BY DEF Init
    <2>2. Alone(k) /\ Numbered(k)
      BY <1>3, <2>1 DEF Init, Alone, Numbered
    <2>3. Listed(k)
      BY <1>1, <1>3 DEF Init, Listed
    <2>4. Newest(k)
      <3>1. db[k][k].seq = Cardinality(Up[k])
        <4>1. db[k][k] = Lsp(k)
          BY <1>3, Zenon
        <4> QED BY <4>1
      <3> HIDE DEF Lsp
      <3>2. \A m \in Node : db[m][k].seq <= Cardinality(Up[k])
        BY <1>2, Zenon
      <3> QED BY <3>1, <3>2 DEF Newest
    <2>5. Same(k)
      <3> SUFFICES ASSUME NEW m \in Node, NEW p \in Node, db[m][k].seq = db[p][k].seq
                   PROVE  db[m][k] = db[p][k]
        BY DEF Same
      <3>1. Cardinality(Up[k]) = 0 => Lsp(k) = Absent
        <4>1. Cardinality(Up[k]) = 0 => Up[k] = {}
          BY <1>1
        <4> QED BY <4>1 DEF Absent
      <3>2. /\ db[m][k] = IF k \in Known[m] THEN Lsp(k) ELSE Absent
            /\ db[p][k] = IF k \in Known[p] THEN Lsp(k) ELSE Absent
        BY <1>2
      <3>3. Lsp(k).seq = Cardinality(Up[k]) /\ Absent.seq = 0
        BY DEF Absent
      <3> HIDE DEF Lsp
      <3> QED BY <3>1, <3>2, <3>3
    <2>6. Flagged(k)
      <3> SUFFICES ASSUME NEW m \in Node, NEW p \in Link[m], db[p][k].seq < db[m][k].seq
                   PROVE  k \in srm[m][p]
        BY DEF Flagged
      <3>0. p \in Node
        OBVIOUS
      <3> DEFINE c == Cardinality(Up[k])
      <3>1. c \in Nat /\ (Up[k] # {} <=> c > 0)
        BY <1>1
      <3>2. /\ db[m][k].seq = IF k \in Known[m] THEN c ELSE 0
            /\ db[p][k].seq = IF k \in Known[p] THEN c ELSE 0
        <4>1. ASSUME NEW x \in Node PROVE db[x][k].seq = IF k \in Known[x] THEN c ELSE 0
          <5>1. CASE k \in Known[x]
            <6>1. db[x][k] = Lsp(k)
              BY <1>2, <5>1, Zenon
            <6> QED BY <5>1, <6>1
          <5>2. CASE k \notin Known[x]
            <6>1. db[x][k] = Absent
              BY <1>2, <5>2, Zenon
            <6> QED BY <5>2, <6>1 DEF Absent
          <5> QED BY <5>1, <5>2
        <4> QED BY <3>0, <4>1, Zenon
      <3> HIDE DEF c
      <3>3. k \in Known[m] /\ Up[k] # {} /\ k \notin Known[p]
        BY <3>1, <3>2
      <3> QED BY <3>0, <3>3 DEF Init
    <2> QED BY <2>2, <2>3, <2>4, <2>5, <2>6 DEF Own
  <1>7. ComputedInv
    BY DEF Init, ComputedInv
  <1> QED BY <1>4, <1>5, <1>6, <1>7 DEF Inv, OwnInv

-----------------------------------------------------------------------------
(* What a step leaves alone                                                *)

\* What computeSPF has computed on n stays right while n sees nothing new.
LEMMA ComputedStays ==
  ASSUME NEW n \in Node, Computed(n), \A k \in Node \ {n} : db'[n][k] = db[n][k],
         adj'[n] = adj[n], topo'[n] = topo[n], rib'[n] = rib[n]
  PROVE  Computed(n)'
  <1>1. Graph(n)' = Graph(n)
    BY DEF Graph
  <1>2. \A k \in Dest : k # n => db'[n][k] = db[n][k]
    BY ForwardingAssumption
  <1> QED BY <1>1, <1>2 DEF Computed

LEMMA ComputedInvStays ==
  ASSUME ComputedInv,
         \A n \in Node : informed'[n] =>
           /\ informed[n] /\ Writing(n)' = Writing(n)
           /\ \A k \in Node \ {n} : db'[n][k] = db[n][k]
           /\ adj'[n] = adj[n] /\ topo'[n] = topo[n] /\ rib'[n] = rib[n]
  PROVE  ComputedInv'
  <1> SUFFICES ASSUME NEW n \in Node, informed'[n], Writing(n)' = {} PROVE Computed(n)'
    BY DEF ComputedInv
  <1>1. Computed(n)
    BY DEF ComputedInv
  <1> QED BY <1>1, ComputedStays

\* The claims about k's LSP stay while nothing happens to it and no flag is cleared.
LEMMA OwnStays ==
  ASSUME NEW k \in Node, Own(k), \A m \in Node : db'[m][k] = db[m][k],
         pc'[k] = pc[k], tmp'[k] = tmp[k], built'[k] = built[k], seqNum'[k] = seqNum[k],
         adj'[k] = adj[k], \A m, p \in Node : k \in srm[m][p] => k \in srm'[m][p]
  PROVE  Own(k)'
  <1>1. Alone(k)' /\ Numbered(k)' /\ Listed(k)'
    BY DEF Own, Alone, Numbered, Listed
  <1>2. Newest(k)' /\ Same(k)'
    BY DEF Own, Newest, Same
  <1>3. Flagged(k)'
    BY ForwardingAssumption DEF Own, Flagged
  <1> QED BY <1>1, <1>2, <1>3 DEF Own

\* A step of isisHelloRecv on n matters to n's LSP only.
LEMMA OwnInvOf ==
  ASSUME Inv, NEW n \in Node,
         \A k \in Node \ {n} :
           /\ \A m \in Node : db'[m][k] = db[m][k]
           /\ pc'[k] = pc[k] /\ tmp'[k] = tmp[k] /\ built'[k] = built[k]
           /\ seqNum'[k] = seqNum[k] /\ adj'[k] = adj[k] /\ overlap'[k] = overlap[k],
         \A m, p \in Node : srm[m][p] \subseteq srm'[m][p],
         ~overlap'[n] => Own(n)'
  PROVE  OwnInv'
  <1>1. ASSUME NEW k \in Node, k # n, ~overlap'[k] PROVE Own(k)'
    <2>1. Own(k)
      BY <1>1 DEF Inv, OwnInv
    <2> QED BY <1>1, <2>1, OwnStays
  <1> QED BY <1>1 DEF OwnInv

-----------------------------------------------------------------------------
(* isisHelloRecv and generateLocalLsp                                      *)

LEMMA AdjBeginKeeps ==
  ASSUME Inv, NEW n \in Node, NEW m \in Node, AdjBegin(n, m)
  PROVE  Inv'
  <1> USE ForwardingAssumption
  <1>1. /\ m \in Link[n] /\ pc[n][m] = "idle"
        /\ adj' = [adj EXCEPT ![n] = adj[n] \ {m}]
        /\ pc' = [pc EXCEPT ![n] = [pc[n] EXCEPT ![m] = "adj"]]
        /\ overlap' = [overlap EXCEPT ![n] = overlap[n] \/ \E p \in Node : pc[n][p] # "idle"]
        /\ informed' = [informed EXCEPT ![n] = FALSE]
        /\ UNCHANGED <<seqNum, tmp, built, srm, db, trigger, topo, rib>>
    BY DEF AdjBegin, spfVars
  <1>2. TypeInv'
    BY <1>1 DEF Inv, TypeInv, PCs
  <1>3. ASSUME NEW p \in Node, NEW q \in Node
        PROVE  pc'[p][q] = IF p = n /\ q = m THEN "adj" ELSE pc[p][q]
    BY <1>1 DEF Inv, TypeInv
  <1>4. LinksInv'
    BY <1>1, <1>3 DEF Inv, TypeInv, LinksInv
  <1>5. ASSUME ~overlap'[n] PROVE Own(n)'
    <2>1. ~overlap[n] /\ \A p \in Node : pc[n][p] = "idle"
      BY <1>1, <1>5 DEF Inv, TypeInv
    <2>2. Own(n)
      BY <2>1 DEF Inv, OwnInv
    <2>3. Alone(n)' /\ Numbered(n)' /\ Listed(n)'
      BY <1>1, <1>3, <2>1, <2>2 DEF Own, Alone, Numbered, Listed
    <2>4. Newest(n)' /\ Same(n)'
      BY <1>1, <2>2 DEF Own, Newest, Same
    <2>5. Flagged(n)'
      BY <1>1, <1>3, <2>1, <2>2 DEF Own, Flagged
    <2> QED BY <2>3, <2>4, <2>5 DEF Own
  <1>6. OwnInv'
    BY <1>1, <1>5, OwnInvOf DEF Inv, TypeInv
  <1>7. ComputedInv'
    <2>1. ASSUME NEW p \in Node, informed'[p]
          PROVE  /\ informed[p] /\ Writing(p)' = Writing(p)
                 /\ adj'[p] = adj[p] /\ db'[p] = db[p] /\ topo'[p] = topo[p] /\ rib'[p] = rib[p]
      <3>1. p # n
        BY <1>1, <2>1 DEF Inv, TypeInv
      <3> QED BY <1>1, <1>3, <2>1, <3>1 DEF Inv, TypeInv, Writing
    <2> QED BY <2>1, ComputedInvStays DEF Inv
  <1> QED BY <1>2, <1>4, <1>6, <1>7 DEF Inv

LEMMA AdjEndKeeps ==
  ASSUME Inv, NEW n \in Node, NEW m \in Node, AdjEnd(n, m)
  PROVE  Inv'
  <1> USE ForwardingAssumption
  <1>1. /\ pc[n][m] = "adj"
        /\ adj' = [adj EXCEPT ![n] = adj[n] \cup {m}]
        /\ pc' = [pc EXCEPT ![n] = [pc[n] EXCEPT ![m] = "load"]]
        /\ informed' = [informed EXCEPT ![n] = FALSE]
        /\ UNCHANGED <<seqNum, tmp, built, srm, db, trigger, topo, rib, overlap>>
    BY DEF AdjEnd, spfVars, histVars
  <1>2. TypeInv'
    BY <1>1 DEF Inv, TypeInv, PCs
  <1>3. ASSUME NEW p \in Node, NEW q \in Node
        PROVE  pc'[p][q] = IF p = n /\ q = m THEN "load" ELSE pc[p][q]
    BY <1>1 DEF Inv, TypeInv
  <1>4. LinksInv'
    BY <1>1, <1>3 DEF Inv, TypeInv, LinksInv
  <1>5. ASSUME ~overlap'[n] PROVE Own(n)'
    <2>1. Own(n)
      BY <1>1, <1>5 DEF Inv, OwnInv
    <2>2. \A p \in Node : p # m => pc[n][p] = "idle"
      BY <1>1, <2>1 DEF Own, Alone
    <2>3. Alone(n)' /\ Numbered(n)' /\ Listed(n)'
      BY <1>1, <1>3, <2>1, <2>2 DEF Own, Alone, Numbered, Listed
    <2>4. Newest(n)' /\ Same(n)'
      BY <1>1, <2>1 DEF Own, Newest, Same
    <2>5. Flagged(n)'
      BY <1>1, <1>3, <2>1, <2>2 DEF Own, Flagged
    <2> QED BY <2>3, <2>4, <2>5 DEF Own
  <1>6. OwnInv'
    BY <1>1, <1>5, OwnInvOf DEF Inv, TypeInv
  <1>7. ComputedInv'
    <2>1. ASSUME NEW p \in Node, informed'[p]
          PROVE  /\ informed[p] /\ Writing(p)' = Writing(p)
                 /\ adj'[p] = adj[p] /\ db'[p] = db[p] /\ topo'[p] = topo[p] /\ rib'[p] = rib[p]
      <3>1. p # n
        BY <1>1, <2>1 DEF Inv, TypeInv
      <3> QED BY <1>1, <1>3, <2>1, <3>1 DEF Inv, TypeInv, Writing
    <2> QED BY <2>1, ComputedInvStays DEF Inv
  <1> QED BY <1>2, <1>4, <1>6, <1>7 DEF Inv

\* In generateLocalLsp a call goes from one step to the next; adjacencies and what
\* computeSPF has computed are left alone.
GenStep(n, m, from, to) ==
  /\ pc[n][m] = from /\ pc' = [pc EXCEPT ![n] = [pc[n] EXCEPT ![m] = to]]
  /\ UNCHANGED <<adj, trigger, topo, rib, informed, overlap>>
  /\ \A k \in Node : \A p \in Node : p # n \/ k # n => db'[p][k] = db[p][k]

LEMMA GenKeeps ==
  ASSUME Inv, NEW n \in Node, NEW m \in Node,
         NEW from \in PCs \ {"adj"}, NEW to \in PCs \ {"adj"}, GenStep(n, m, from, to),
         seqNum' \in [Node -> Nat], tmp' \in [Node -> [Node -> Nat]],
         built' \in [Node -> [Node -> Lsps]], db' \in [Node -> [Node -> Lsps]],
         srm' \in [Node -> [Node -> SUBSET Node]],
         \A k \in Node \ {n} : seqNum'[k] = seqNum[k] /\ tmp'[k] = tmp[k] /\ built'[k] = built[k],
         \A p \in Node : built'[n][p].nbrs \subseteq Link[n],
         db'[n][n].nbrs \subseteq Link[n],
         \A p, q \in Node : srm[p][q] \subseteq srm'[p][q],
         ~overlap[n] => Own(n)'
  PROVE  Inv'
  <1> USE ForwardingAssumption
  <1>1. ASSUME NEW p \in Node, NEW q \in Node
        PROVE  pc'[p][q] = IF p = n /\ q = m THEN to ELSE pc[p][q]
    BY DEF GenStep, Inv, TypeInv
  <1>2. TypeInv'
    <2>1. pc' \in [Node -> [Node -> PCs]]
      BY DEF GenStep, Inv, TypeInv
    <2> QED BY <2>1 DEF GenStep, Inv, TypeInv
  <1>3. LinksInv'
    <2> SUFFICES ASSUME NEW p \in Node, NEW q \in Node
                 PROVE  /\ adj'[p] \subseteq Link[p] /\ (pc'[p][q] = "adj" => q \in Link[p])
                        /\ built'[p][q].nbrs \subseteq Link[p] /\ db'[p][q].nbrs \subseteq Link[q]
      BY DEF LinksInv
    <2>1. /\ adj[p] \subseteq Link[p] /\ (pc[p][q] = "adj" => q \in Link[p])
          /\ built[p][q].nbrs \subseteq Link[p] /\ db[p][q].nbrs \subseteq Link[q]
      BY DEF Inv, LinksInv
    <2>2. adj'[p] \subseteq Link[p]
      BY <2>1 DEF GenStep
    <2>3. pc'[p][q] = "adj" => q \in Link[p]
      BY <1>1, <2>1
    <2>4. built'[p][q].nbrs \subseteq Link[p]
      <3>1. CASE p = n
        BY <3>1
      <3>2. CASE p # n
        <4>1. built'[p] = built[p]
          BY <3>2
        <4> QED BY <2>1, <4>1
      <3> QED BY <3>1, <3>2
    <2>5. db'[p][q].nbrs \subseteq Link[q]
      <3>1. CASE p = n /\ q = n
        BY <3>1
      <3>2. CASE p # n \/ q # n
        <4>1. db'[p][q] = db[p][q]
          BY <3>2 DEF GenStep
        <4> QED BY <2>1, <4>1
      <3> QED BY <3>1, <3>2
    <2> QED BY <2>2, <2>3, <2>4, <2>5
  <1>4. OwnInv'
    <2>1. \A k \in Node \ {n} : pc'[k] = pc[k]
      BY DEF GenStep, Inv, TypeInv
    <2>2. /\ \A k \in Node \ {n} : adj'[k] = adj[k] /\ overlap'[k] = overlap[k]
          /\ overlap'[n] = overlap[n]
          /\ \A k \in Node \ {n} : \A p \in Node : db'[p][k] = db[p][k]
      BY DEF GenStep
    <2>3. ~overlap'[n] => Own(n)'
      BY <2>2
    <2>4. \A k \in Node \ {n} :
            /\ \A p \in Node : db'[p][k] = db[p][k]
            /\ pc'[k] = pc[k] /\ tmp'[k] = tmp[k] /\ built'[k] = built[k]
            /\ seqNum'[k] = seqNum[k] /\ adj'[k] = adj[k] /\ overlap'[k] = overlap[k]
      BY <2>1, <2>2
    <2> QED BY <2>3, <2>4, OwnInvOf, Zenon
  <1>5. ComputedInv'
    <2>1. \A p \in Node : Writing(p)' = Writing(p)
      BY <1>1 DEF GenStep, Writing
    <2> QED BY <2>1, ComputedInvStays DEF GenStep, Inv
  <1> QED BY <1>2, <1>3, <1>4, <1>5 DEF Inv

\* Without overlap the other interfaces of n are idle.
LEMMA OthersIdle ==
  ASSUME Inv, NEW n \in Node, NEW m \in Node, ~overlap[n], pc[n][m] # "idle"
  PROVE  Own(n) /\ \A p \in Node : p # m => pc[n][p] = "idle"
  BY DEF Inv, OwnInv, Own, Alone

LEMMA GenLoadKeeps ==
  ASSUME Inv, NEW n \in Node, NEW m \in Node, GenLoad(n, m)
  PROVE  Inv'
  <1>1. /\ pc[n][m] = "load" /\ pc' = [pc EXCEPT ![n] = [pc[n] EXCEPT ![m] = "store"]]
        /\ tmp' = [tmp EXCEPT ![n] = [tmp[n] EXCEPT ![m] = seqNum[n]]]
        /\ UNCHANGED <<adj, seqNum, built, srm, db, trigger, topo, rib, informed, overlap>>
    BY DEF GenLoad, spfVars, histVars
  <1>2. ASSUME NEW p \in Node
        PROVE  /\ pc'[n][p] = IF p = m THEN "store" ELSE pc[n][p]
               /\ tmp'[n][p] = IF p = m THEN seqNum[n] ELSE tmp[n][p]
    BY <1>1 DEF Inv, TypeInv
  <1>3. ASSUME ~overlap[n] PROVE Own(n)'
    <2>1. Own(n) /\ \A p \in Node : p # m => pc[n][p] = "idle"
      BY <1>1, <1>3, OthersIdle
    <2>2. Alone(n)' /\ Numbered(n)' /\ Listed(n)'
      BY <1>1, <1>2, <2>1 DEF Own, Alone, Numbered, Listed
    <2>3. Newest(n)' /\ Same(n)'
      BY <1>1, <2>1 DEF Own, Newest, Same
    <2>4. Flagged(n)'
      BY <1>1, <1>2, <2>1 DEF Own, Flagged
    <2> QED BY <2>2, <2>3, <2>4 DEF Own
  <1>4. GenStep(n, m, "load", "store")
    BY <1>1 DEF GenStep
  <1>5. "load" \in PCs \ {"adj"} /\ "store" \in PCs \ {"adj"}
    BY DEF PCs
  <1>6. tmp' \in [Node -> [Node -> Nat]] /\ \A k \in Node \ {n} : tmp'[k] = tmp[k]
    BY <1>1 DEF Inv, TypeInv
  <1> QED BY <1>1, <1>3, <1>4, <1>5, <1>6, GenKeeps DEF Inv, TypeInv, LinksInv

LEMMA GenStoreKeeps ==
  ASSUME Inv, NEW n \in Node, NEW m \in Node, GenStore(n, m)
  PROVE  Inv'
  <1>1. /\ pc[n][m] = "store" /\ pc' = [pc EXCEPT ![n] = [pc[n] EXCEPT ![m] = "build"]]
        /\ seqNum' = [seqNum EXCEPT ![n] = tmp[n][m] + 1]
        /\ UNCHANGED <<adj, tmp, built, srm, db, trigger, topo, rib, informed, overlap>>
    BY DEF GenStore, spfVars, histVars
  <1>2. ASSUME NEW p \in Node
        PROVE  pc'[n][p] = IF p = m THEN "build" ELSE pc[n][p]
    BY <1>1 DEF Inv, TypeInv
  <1>3. ASSUME ~overlap[n] PROVE Own(n)'
    <2>1. Own(n) /\ \A p \in Node : p # m => pc[n][p] = "idle"
      BY <1>1, <1>3, OthersIdle
    <2>2. seqNum'[n] = tmp[n][m] + 1 /\ tmp[n][m] = seqNum[n] /\ seqNum[n] = db[n][n].seq
      BY <1>1, <2>1 DEF Own, Numbered, Inv, TypeInv
    <2>3. Alone(n)' /\ Listed(n)'
      BY <1>1, <1>2, <2>1 DEF Own, Alone, Listed
    <2>4. Numbered(n)'
      BY <1>1, <1>2, <2>1, <2>2 DEF Numbered
    <2>5. Newest(n)' /\ Same(n)'
      BY <1>1, <2>1 DEF Own, Newest, Same
    <2>6. Flagged(n)'
      BY <1>1, <1>2, <2>1 DEF Own, Flagged
    <2> QED BY <2>3, <2>4, <2>5, <2>6 DEF Own
  <1>4. GenStep(n, m, "store", "build")
    BY <1>1 DEF GenStep
  <1>5. "store" \in PCs \ {"adj"} /\ "build" \in PCs \ {"adj"}
    BY DEF PCs
  <1>6. seqNum' \in [Node -> Nat] /\ \A k \in Node \ {n} : seqNum'[k] = seqNum[k]
    BY <1>1 DEF Inv, TypeInv
  <1> QED BY <1>1, <1>3, <1>4, <1>5, <1>6, GenKeeps DEF Inv, TypeInv, LinksInv

LEMMA GenBuildKeeps ==
  ASSUME Inv, NEW n \in Node, NEW m \in Node, GenBuild(n, m)
  PROVE  Inv'
  <1>1. PICK s \in {tmp[n][m] + 1, seqNum[n]} :
          built' = [built EXCEPT ![n] = [built[n] EXCEPT ![m] = [seq |-> s, nbrs |-> adj[n]]]]
    BY DEF GenBuild
  <1>2. /\ pc[n][m] = "build" /\ pc' = [pc EXCEPT ![n] = [pc[n] EXCEPT ![m] = "insert"]]
        /\ tmp' = [tmp EXCEPT ![n] = [tmp[n] EXCEPT ![m] = 0]]
        /\ UNCHANGED <<adj, seqNum, srm, db, trigger, topo, rib, informed, overlap>>
    BY DEF GenBuild, spfVars, histVars
  <1> DEFINE lsp == [seq |-> s, nbrs |-> adj[n]]
  <1>3. lsp \in Lsps /\ lsp.nbrs \subseteq Link[n]
    BY DEF Inv, TypeInv, LinksInv, Lsps
  <1>4. ASSUME NEW p \in Node
        PROVE  /\ pc'[n][p] = IF p = m THEN "insert" ELSE pc[n][p]
               /\ built'[n][p] = IF p = m THEN lsp ELSE built[n][p]
    BY <1>1, <1>2 DEF Inv, TypeInv
  <1>5. ASSUME ~overlap[n] PROVE Own(n)'
    <2>1. Own(n) /\ \A p \in Node : p # m => pc[n][p] = "idle"
      BY <1>2, <1>5, OthersIdle
    <2>2. s = seqNum[n] /\ seqNum[n] = db[n][n].seq + 1
      BY <1>1, <1>2, <2>1 DEF Own, Numbered
    <2>3. Alone(n)' /\ Listed(n)'
      BY <1>2, <1>4, <2>1 DEF Own, Alone, Listed
    <2>4. Numbered(n)'
      BY <1>2, <1>4, <2>1, <2>2 DEF Numbered
    <2>5. Newest(n)' /\ Same(n)'
      BY <1>2, <2>1 DEF Own, Newest, Same
    <2>6. Flagged(n)'
      BY <1>2, <1>4, <2>1 DEF Own, Flagged
    <2> QED BY <2>3, <2>4, <2>5, <2>6 DEF Own
  <1>6. GenStep(n, m, "build", "insert")
    BY <1>2 DEF GenStep
  <1>7. "build" \in PCs \ {"adj"} /\ "insert" \in PCs \ {"adj"}
    BY DEF PCs
  <1>8. tmp' \in [Node -> [Node -> Nat]] /\ \A k \in Node \ {n} : tmp'[k] = tmp[k]
    BY <1>2 DEF Inv, TypeInv
  <1>9. built' \in [Node -> [Node -> Lsps]] /\ \A k \in Node \ {n} : built'[k] = built[k]
    BY <1>1, <1>3 DEF Inv, TypeInv
  <1>10. \A p \in Node : built'[n][p].nbrs \subseteq Link[n]
    BY <1>3, <1>4 DEF Inv, LinksInv
  <1> QED BY <1>2, <1>5, <1>6, <1>7, <1>8, <1>9, <1>10, GenKeeps DEF Inv, TypeInv, LinksInv

LEMMA GenInsertKeeps ==
  ASSUME Inv, NEW n \in Node, NEW m \in Node, GenInsert(n, m)
  PROVE  Inv'
  <1>1. /\ pc[n][m] = "insert" /\ pc' = [pc EXCEPT ![n] = [pc[n] EXCEPT ![m] = "flood"]]
        /\ db' = [db EXCEPT ![n] = [db[n] EXCEPT ![n] = built[n][m]]]
        /\ built' = [built EXCEPT ![n] = [built[n] EXCEPT ![m] = Absent]]
        /\ UNCHANGED <<adj, seqNum, tmp, srm, trigger, topo, rib, informed, overlap>>
    BY DEF GenInsert, spfVars, histVars
  <1>2. Absent \in Lsps /\ Absent.nbrs = {}
    BY DEF Absent, Lsps
  <1>3. ASSUME NEW p \in Node
        PROVE  /\ pc'[n][p] = IF p = m THEN "flood" ELSE pc[n][p]
               /\ built'[n][p] = IF p = m THEN Absent ELSE built[n][p]
    BY <1>1 DEF Inv, TypeInv
  <1>4. ASSUME NEW p \in Node, NEW k \in Node
        PROVE  db'[p][k] = IF p = n /\ k = n THEN built[n][m] ELSE db[p][k]
    BY <1>1 DEF Inv, TypeInv
  <1>5. ASSUME ~overlap[n] PROVE Own(n)'
    <2>1. Own(n) /\ \A p \in Node : p # m => pc[n][p] = "idle"
      BY <1>1, <1>5, OthersIdle
    <2>2. /\ db'[n][n] = [seq |-> seqNum[n], nbrs |-> adj[n]]
          /\ seqNum[n] = db[n][n].seq + 1
      BY <1>1, <1>4, <2>1 DEF Own, Numbered
    <2>3. \A p \in Node : db[p][n].seq \in Nat /\ db[p][n].seq <= db[n][n].seq
      BY <2>1 DEF Own, Newest, Inv, TypeInv, Lsps
    <2>4. db'[n][n].seq = db[n][n].seq + 1 /\ db'[n][n].nbrs = adj[n]
      BY <2>2
    <2>5. Alone(n)'
      BY <1>3, <2>1 DEF Alone
    <2>6. Numbered(n)'
      BY <1>1, <1>3, <2>1, <2>2, <2>4 DEF Numbered
    <2>7. Listed(n)'
      BY <1>1, <2>3, <2>4 DEF Listed
    <2>8. Newest(n)'
      BY <1>4, <2>3, <2>4 DEF Newest
    <2>9. Same(n)'
      <3> SUFFICES ASSUME NEW p \in Node, NEW q \in Node, db'[p][n].seq = db'[q][n].seq
                   PROVE  db'[p][n] = db'[q][n]
        BY DEF Same
      <3>1. CASE p = n /\ q = n
        BY <3>1
      <3>2. CASE p # n /\ q # n
        BY <1>4, <2>1, <3>2 DEF Own, Same
      <3>3. CASE p = n /\ q # n
        BY <1>4, <2>3, <2>4, <3>3
      <3>4. CASE p # n /\ q = n
        BY <1>4, <2>3, <2>4, <3>4
      <3> QED BY <3>1, <3>2, <3>3, <3>4
    <2>10. Flagged(n)'
      <3> SUFFICES ASSUME NEW p \in Node, NEW q \in Link[p], db'[q][n].seq < db'[p][n].seq, p # n
                   PROVE  n \in srm'[p][q]
        BY <1>3 DEF Flagged
      <3>1. q \in Node /\ q # n
        BY <1>4, <2>3, <2>4, ForwardingAssumption
      <3>2. n \in srm[p][q]
        BY <1>4, <2>1, <3>1 DEF Own, Flagged
      <3> QED BY <1>1, <3>2
    <2> QED BY <2>5, <2>6, <2>7, <2>8, <2>9, <2>10 DEF Own
  <1>6. GenStep(n, m, "insert", "flood")
    BY <1>1, <1>4 DEF GenStep
  <1>7. "insert" \in PCs \ {"adj"} /\ "flood" \in PCs \ {"adj"}
    BY DEF PCs
  <1>8. built' \in [Node -> [Node -> Lsps]] /\ \A k \in Node \ {n} : built'[k] = built[k]
    BY <1>1, <1>2 DEF Inv, TypeInv
  <1>9. db' \in [Node -> [Node -> Lsps]]
    BY <1>1 DEF Inv, TypeInv
  <1>10. /\ \A p \in Node : built'[n][p].nbrs \subseteq Link[n]
         /\ db'[n][n].nbrs \subseteq Link[n]
    BY <1>2, <1>3, <1>4 DEF Inv, LinksInv
  <1> QED BY <1>1, <1>5, <1>6, <1>7, <1>8, <1>9, <1>10, GenKeeps DEF Inv, TypeInv

LEMMA GenFloodKeeps ==
  ASSUME Inv, NEW n \in Node, NEW m \in Node, GenFlood(n, m)
  PROVE  Inv'
  <1> USE ForwardingAssumption
  <1>1. /\ pc[n][m] = "flood" /\ pc' = [pc EXCEPT ![n] = [pc[n] EXCEPT ![m] = "idle"]]
        /\ srm' = [srm EXCEPT ![n] =
             [p \in Node |-> IF p \in Link[n] THEN srm[n][p] \cup {n} ELSE srm[n][p]]]
        /\ UNCHANGED <<adj, seqNum, tmp, built, db, trigger, topo, rib, informed, overlap>>
    BY DEF GenFlood, spfVars, histVars
  <1>2. ASSUME NEW p \in Node
        PROVE  pc'[n][p] = IF p = m THEN "idle" ELSE pc[n][p]
    BY <1>1 DEF Inv, TypeInv
  <1>3. ASSUME NEW p \in Node, NEW q \in Node
        PROVE  srm'[p][q] = IF p = n /\ q \in Link[n] THEN srm[p][q] \cup {n} ELSE srm[p][q]
    BY <1>1 DEF Inv, TypeInv
  <1>4. ASSUME ~overlap[n] PROVE Own(n)'
    <2>1. Own(n) /\ \A p \in Node : p # m => pc[n][p] = "idle"
      BY <1>1, <1>4, OthersIdle
    <2>2. Alone(n)' /\ Numbered(n)' /\ Listed(n)'
      BY <1>1, <1>2, <2>1 DEF Own, Alone, Numbered, Listed
    <2>3. Newest(n)' /\ Same(n)'
      BY <1>1, <2>1 DEF Own, Newest, Same
    <2>4. Flagged(n)'
      <3> SUFFICES ASSUME NEW p \in Node, NEW q \in Link[p], db[q][n].seq < db[p][n].seq
                   PROVE  n \in srm'[p][q]
        BY <1>1 DEF Flagged
      <3>1. q \in Node /\ (n \in srm[p][q] \/ p = n)
        BY <2>1 DEF Own, Flagged
      <3>2. CASE p = n
        <4>1. srm'[p][q] = srm[p][q] \cup {n}
          BY <1>3, <3>1, <3>2, Zenon
        <4> QED BY <4>1
      <3>3. CASE n \in srm[p][q] /\ p # n
        <4>1. srm'[p][q] = srm[p][q]
          BY <1>3, <3>1, <3>3, Zenon
        <4> QED BY <3>3, <4>1
      <3> QED BY <3>1, <3>2, <3>3
    <2> QED BY <2>2, <2>3, <2>4 DEF Own
  <1>5. GenStep(n, m, "flood", "idle")
    BY <1>1 DEF GenStep
  <1>6. "flood" \in PCs \ {"adj"} /\ "idle" \in PCs \ {"adj"}
    BY DEF PCs
  <1>7. srm' \in [Node -> [Node -> SUBSET Node]] /\ \A p, q \in Node : srm[p][q] \subseteq srm'[p][q]
    <2>1. ASSUME NEW p \in Node, NEW q \in Node PROVE srm[p][q] \subseteq srm'[p][q]
      <3>1. CASE p = n /\ q \in Link[n]
        <4>1. srm'[p][q] = srm[p][q] \cup {n}
          BY <1>3, <3>1, Zenon
        <4> QED BY <4>1
      <3>2. CASE ~(p = n /\ q \in Link[n])
        <4>1. srm'[p][q] = srm[p][q]
          BY <1>3, <3>2, Zenon
        <4> QED BY <4>1
      <3> QED BY <3>1, <3>2
    <2>2. [p \in Node |-> IF p \in Link[n] THEN srm[n][p] \cup {n} ELSE srm[n][p]]
            \in [Node -> SUBSET Node]
      BY DEF Inv, TypeInv
    <2> QED BY <1>1, <2>1, <2>2 DEF Inv, TypeInv
  <1> QED BY <1>1, <1>4, <1>5, <1>6, <1>7, GenKeeps DEF Inv, TypeInv, LinksInv

-----------------------------------------------------------------------------
(* An LSP crosses a link                                                   *)

LEMMA CrossKeeps ==
  ASSUME Inv, NEW n \in Node, NEW m \in Node, NEW k \in Node, Cross(n, m, k)
  PROVE  Inv'
  <1> USE ForwardingAssumption
  <1> DEFINE sent == [srm EXCEPT ![m] = [srm[m] EXCEPT ![n] = srm[m][n] \ {k}]]
             newer == db[n][k].seq < db[m][k].seq
             row == [p \in Node |-> IF p \in Link[n] \ {m} THEN sent[n][p] \cup {k} ELSE sent[n][p] \ {k}]
  <1>1. /\ n \in adj[m]
        /\ newer => /\ db' = [db EXCEPT ![n] = [db[n] EXCEPT ![k] = db[m][k]]]
                    /\ srm' = [sent EXCEPT ![n] = row]
                    /\ trigger' = [trigger EXCEPT ![n] = TRUE]
                    /\ informed' = [informed EXCEPT ![n] = FALSE]
        /\ ~newer => srm' = sent /\ db' = db /\ trigger' = trigger /\ informed' = informed
        /\ UNCHANGED <<adj, seqNum, pc, tmp, built, topo, rib, overlap>>
    BY DEF Cross, FloodNewLsp, genVars, histVars
  <1>2. n \in Link[m] /\ m # n
    BY <1>1 DEF Inv, LinksInv
  <1>3. ASSUME NEW p \in Node, NEW q \in Node
        PROVE  sent[p][q] = IF p = m /\ q = n THEN srm[p][q] \ {k} ELSE srm[p][q]
    BY DEF Inv, TypeInv
  <1>4. sent \in [Node -> [Node -> SUBSET Node]]
    BY DEF Inv, TypeInv
  <1>5. row \in [Node -> SUBSET Node]
    <2> HIDE DEF sent
    <2> QED BY <1>4
  <1>a. ASSUME NEW q \in Node
        PROVE  row[q] = IF q \in Link[n] \ {m} THEN srm[n][q] \cup {k} ELSE srm[n][q] \ {k}
    <2>1. sent[n][q] = srm[n][q]
      BY <1>2, <1>3
    <2> HIDE DEF sent
    <2> QED BY <2>1
  <1> HIDE DEF sent, row, newer
  <1>6. ASSUME NEW p \in Node, NEW q \in Node
        PROVE  db'[p][q] = IF newer /\ p = n /\ q = k THEN db[m][k] ELSE db[p][q]
    BY <1>1 DEF Inv, TypeInv
  <1>7. ASSUME NEW p \in Node, NEW q \in Node
        PROVE  srm'[p][q] = IF newer /\ p = n
                            THEN IF q \in Link[n] \ {m} THEN srm[n][q] \cup {k} ELSE srm[n][q] \ {k}
                            ELSE IF p = m /\ q = n THEN srm[p][q] \ {k} ELSE srm[p][q]
    <2> DEFINE x == IF q \in Link[n] \ {m} THEN srm[n][q] \cup {k} ELSE srm[n][q] \ {k}
               y == IF p = m /\ q = n THEN srm[p][q] \ {k} ELSE srm[p][q]
    <2>1. row[q] = x
      BY <1>a
    <2>2. sent[p][q] = y
      BY <1>3
    <2> SUFFICES srm'[p][q] = IF newer /\ p = n THEN x ELSE y
      OBVIOUS
    <2> HIDE DEF x, y
    <2>3. CASE newer /\ p = n
      <3>1. srm'[p] = row
        BY <1>1, <1>4, <2>3
      <3> QED BY <2>1, <2>3, <3>1
    <2>4. CASE newer /\ p # n
      <3>1. srm'[p] = sent[p]
        BY <1>1, <1>4, <2>4
      <3> QED BY <2>2, <2>4, <3>1
    <2>5. CASE ~newer
      <3>1. srm'[p] = sent[p]
        BY <1>1, <2>5, Zenon
      <3> QED BY <2>2, <2>5, <3>1
    <2> QED BY <2>3, <2>4, <2>5
  <1>8. TypeInv'
    <2>1. db' \in [Node -> [Node -> Lsps]]
      <3>1. [db[n] EXCEPT ![k] = db[m][k]] \in [Node -> Lsps]
        BY DEF Inv, TypeInv
      <3>2. db \in [Node -> [Node -> Lsps]]
        BY DEF Inv, TypeInv
      <3>3. CASE newer
        <4>1. db' = [db EXCEPT ![n] = [db[n] EXCEPT ![k] = db[m][k]]]
          BY <1>1, <3>3, Zenon
        <4> QED BY <3>1, <3>2, <4>1
      <3>4. CASE ~newer
        BY <1>1, <3>2, <3>4, Zenon
      <3> QED BY <3>3, <3>4
    <2>2. srm' \in [Node -> [Node -> SUBSET Node]]
      <3>1. CASE newer
        <4>1. srm' = [sent EXCEPT ![n] = row]
          BY <1>1, <3>1, Zenon
        <4> QED BY <1>4, <1>5, <4>1
      <3>2. CASE ~newer
        BY <1>1, <1>4, <3>2, Zenon
      <3> QED BY <3>1, <3>2
    <2>3. trigger' \in [Node -> BOOLEAN] /\ informed' \in [Node -> BOOLEAN]
      BY <1>1 DEF Inv, TypeInv
    <2> QED BY <1>1, <2>1, <2>2, <2>3 DEF Inv, TypeInv
  <1>9. LinksInv'
    <2> SUFFICES ASSUME NEW p \in Node, NEW q \in Node PROVE db'[p][q].nbrs \subseteq Link[q]
      BY <1>1 DEF Inv, LinksInv
    <2>1. db[p][q].nbrs \subseteq Link[q] /\ db[m][k].nbrs \subseteq Link[k]
      BY DEF Inv, LinksInv
    <2>2. db'[p][q] = db[p][q] \/ (q = k /\ db'[p][q] = db[m][k])
      BY <1>6, Zenon
    <2> QED BY <2>1, <2>2
  <1>10. ASSUME NEW j \in Node, j # k, ~overlap'[j] PROVE Own(j)'
    <2>1. Own(j)
      BY <1>1, <1>10 DEF Inv, OwnInv
    <2>2. \A p, q \in Node : j \in srm[p][q] => j \in srm'[p][q]
      <3> SUFFICES ASSUME NEW p \in Node, NEW q \in Node, j \in srm[p][q] PROVE j \in srm'[p][q]
        OBVIOUS
      <3>1. srm'[p][q] \in {srm[p][q], srm[p][q] \cup {k}, srm[p][q] \ {k}}
        BY <1>7
      <3> QED BY <1>10, <3>1
    <2>3. \A p \in Node : db'[p][j] = db[p][j]
      BY <1>6, <1>10
    <2> QED BY <1>1, <2>1, <2>2, <2>3, OwnStays
  <1>11. ASSUME ~overlap'[k] PROVE Own(k)'
    <2>1. Own(k)
      BY <1>1, <1>11 DEF Inv, OwnInv
    <2>2. \A p \in Node : db[p][k].seq \in Nat /\ db[p][k].seq <= db[k][k].seq
      BY <2>1 DEF Own, Newest, Inv, TypeInv, Lsps
    <2>3. newer => n # k
      BY <2>2 DEF newer
    <2>4. db'[k][k] = db[k][k]
      BY <1>6, <2>3
    <2>5. Alone(k)' /\ Numbered(k)' /\ Listed(k)'
      BY <1>1, <2>1, <2>4 DEF Own, Alone, Numbered, Listed
    <2>6. Newest(k)'
      BY <1>6, <2>2, <2>4 DEF Newest
    <2>7. Same(k)'
      BY <1>6, <2>1 DEF Own, Same
    <2>8. Flagged(k)'
      <3> SUFFICES ASSUME NEW p \in Node, NEW q \in Link[p], db'[q][k].seq < db'[p][k].seq,
                          k \notin srm'[p][q]
                   PROVE  p = k /\ \E r \in Node : pc[k][r] = "flood"
        BY <1>1 DEF Flagged
      <3>1. q \in Node /\ p # q
        OBVIOUS
      <3>2. CASE newer /\ p = n
        <4>1. q = m
          <5>1. srm'[n][q] = IF q \in Link[n] \ {m} THEN srm[n][q] \cup {k} ELSE srm[n][q] \ {k}
            BY <1>7, <3>1, <3>2
          <5> QED BY <3>1, <3>2, <5>1
        <4>2. db'[m][k] = db[m][k] /\ db'[n][k] = db[m][k]
          BY <1>2, <1>6, <3>2
        <4>3. db[m][k].seq < db[m][k].seq
          BY <3>2, <4>1, <4>2
        <4> QED BY <2>2, <4>3
      <3>3. CASE newer /\ p # n /\ q = n
        <4>1. db'[n][k] = db[m][k] /\ db'[p][k] = db[p][k]
          BY <1>6, <3>3
        <4>a. db[n][k].seq < db[m][k].seq /\ db[m][k].seq < db[p][k].seq
          BY <3>3, <4>1 DEF newer
        <4>b. p # m /\ db[q][k].seq < db[p][k].seq
          BY <2>2, <3>3, <4>a
        <4>2. k \notin srm[p][q]
          <5>1. srm'[p][q] = srm[p][q]
            BY <1>7, <3>1, <3>3, <4>b
          <5> QED BY <5>1
        <4> QED BY <2>1, <4>b, <4>2 DEF Own, Flagged
      <3>4. CASE newer /\ p # n /\ q # n
        <4>1. db[q][k].seq < db[p][k].seq /\ k \notin srm[p][q]
          <5>1. srm'[p][q] = srm[p][q] /\ db'[q][k] = db[q][k] /\ db'[p][k] = db[p][k]
            BY <1>6, <1>7, <3>1, <3>4
          <5> QED BY <5>1
        <4> QED BY <2>1, <4>1 DEF Own, Flagged
      <3>5. CASE ~newer
        <4>1. db[q][k].seq < db[p][k].seq
          BY <1>6, <3>1, <3>5
        <4>2. ~(p = m /\ q = n)
          BY <3>5, <4>1 DEF newer
        <4>3. k \notin srm[p][q]
          BY <1>7, <3>1, <3>5, <4>2
        <4> QED BY <2>1, <4>1, <4>3 DEF Own, Flagged
      <3> QED BY <3>2, <3>3, <3>4, <3>5
    <2> QED BY <2>5, <2>6, <2>7, <2>8 DEF Own
  <1>12. OwnInv'
    BY <1>10, <1>11 DEF OwnInv
  <1>13. ComputedInv'
    <2>1. ASSUME NEW p \in Node, informed'[p]
          PROVE  informed[p] /\ \A j \in Node : db'[p][j] = db[p][j]
      <3>1. CASE newer
        <4>1. p # n /\ informed[p]
          BY <1>1, <2>1, <3>1 DEF Inv, TypeInv
        <4> QED BY <1>6, <4>1
      <3>2. CASE ~newer
        BY <1>1, <2>1, <3>2
      <3> QED BY <3>1, <3>2
    <2>2. \A p \in Node : Writing(p)' = Writing(p)
      BY <1>1 DEF Writing
    <2> QED BY <1>1, <2>1, <2>2, ComputedInvStays DEF Inv
  <1> QED BY <1>8, <1>9, <1>12, <1>13 DEF Inv

-----------------------------------------------------------------------------
(* computeSPF                                                              *)

\* computeSPF on n sees the half-written adjacencies W, picks the hops `hop`, and
\* the kernel refuses routes over the neighbors in `refused`.
Chosen(n, W, refused, hop) ==
  /\ \A k \in Dest : hop[k] \in Best(n, adj[n] \cup W, k)
  /\ topo' = [topo EXCEPT ![n] = [k \in Dest |-> IF hop[k] = n THEN topo[n][k] ELSE hop[k]]]
  /\ rib' = [rib EXCEPT ![n] = [k \in Dest |->
       IF rib[n][k] = n /\ db[n][k].seq > 0 /\ hop[k] \notin refused
       THEN hop[k] ELSE rib[n][k]]]
  /\ informed' = [informed EXCEPT ![n] = TRUE]

LEMMA ComputeSPFKeeps ==
  ASSUME Inv, NEW n \in Node, ComputeSPF(n)
  PROVE  Inv'
  <1> USE ForwardingAssumption
  <1>1. /\ trigger' = [trigger EXCEPT ![n] = FALSE]
        /\ UNCHANGED <<adj, seqNum, pc, tmp, built, srm, db, overlap>>
    BY DEF ComputeSPF, genVars, histVars
  <1>2. LinksInv'
    BY <1>1 DEF Inv, LinksInv
  <1>3. OwnInv'
    BY <1>1, OwnStays DEF Inv, OwnInv
  <1>4. \A p \in Node : Writing(p)' = Writing(p)
    BY <1>1 DEF Writing
  <1>5. CASE UNCHANGED <<topo, rib, informed>>
    <2>1. TypeInv'
      BY <1>1, <1>5 DEF Inv, TypeInv
    <2>2. ComputedInv'
      BY <1>1, <1>4, <1>5, ComputedInvStays DEF Inv
    <2> QED BY <1>2, <1>3, <2>1, <2>2 DEF Inv
  <1>6. ASSUME NEW W \in SUBSET Writing(n), NEW refused \in SUBSET Writing(n),
               NEW hop \in [Dest -> adj[n] \cup W \cup {n}], Chosen(n, W, refused, hop)
        PROVE  Inv'
    <2>0. /\ \A k \in Dest : hop[k] \in Best(n, adj[n] \cup W, k)
          /\ topo' = [topo EXCEPT ![n] = [k \in Dest |-> IF hop[k] = n THEN topo[n][k] ELSE hop[k]]]
          /\ rib' = [rib EXCEPT ![n] = [k \in Dest |->
               IF rib[n][k] = n /\ db[n][k].seq > 0 /\ hop[k] \notin refused
               THEN hop[k] ELSE rib[n][k]]]
          /\ informed' = [informed EXCEPT ![n] = TRUE]
      BY <1>6, Zenon DEF Chosen
    <2>1. hop \in [Dest -> Node]
      BY DEF Inv, TypeInv, Writing
    <2>2. TypeInv'
      <3> DEFINE t == [k \in Dest |-> IF hop[k] = n THEN topo[n][k] ELSE hop[k]]
                 u == [k \in Dest |->
                  IF rib[n][k] = n /\ db[n][k].seq > 0 /\ hop[k] \notin refused
                  THEN hop[k] ELSE rib[n][k]]
      <3>1. topo \in [Node -> [Dest -> Node]] /\ rib \in [Node -> [Dest -> Node]]
        BY DEF Inv, TypeInv
      <3>2. t \in [Dest -> Node] /\ u \in [Dest -> Node]
        BY <2>1, <3>1
      <3> HIDE DEF t, u
      <3>3. topo' \in [Node -> [Dest -> Node]]
        <4>1. topo' = [topo EXCEPT ![n] = t]
          BY <2>0 DEF t
        <4> QED BY <3>1, <3>2, <4>1
      <3>4. rib' \in [Node -> [Dest -> Node]]
        <4>1. rib' = [rib EXCEPT ![n] = u]
          BY <2>0 DEF u
        <4> QED BY <3>1, <3>2, <4>1
      <3>5. trigger' \in [Node -> BOOLEAN] /\ informed' \in [Node -> BOOLEAN]
        BY <1>1, <2>0 DEF Inv, TypeInv
      <3> QED BY <1>1, <3>3, <3>4, <3>5 DEF Inv, TypeInv
    <2>3. ASSUME Writing(n) = {}, NEW k \in Dest, k \in Reachable(Graph(n), adj[n]) \ {n}
          PROVE  /\ topo'[n][k] \in Nearest(Graph(n), adj[n], k)
                 /\ db[n][k].seq > 0 => rib'[n][k] # n
      <3>1. adj[n] \cup W = adj[n] /\ refused = {}
        BY <2>3
      <3>2. hop[k] \in Nearest(Graph(n), adj[n], k)
        BY <2>0, <2>3, <3>1 DEF Best
      <3>3. hop[k] \in adj[n]
        BY <3>2 DEF Nearest
      <3>4. hop[k] # n
        BY <3>3 DEF Inv, LinksInv
      <3>5. topo'[n][k] = hop[k]
        BY <2>0, <3>4 DEF Inv, TypeInv
      <3>6. rib'[n][k] = IF rib[n][k] = n /\ db[n][k].seq > 0 THEN hop[k] ELSE rib[n][k]
        BY <2>0, <3>1 DEF Inv, TypeInv
      <3> QED BY <3>2, <3>4, <3>5, <3>6
    <2>4. ASSUME Writing(n) = {} PROVE Computed(n)'
      <3>1. Graph(n)' = Graph(n)
        BY <1>1 DEF Graph
      <3> QED BY <1>1, <2>3, <2>4, <3>1 DEF Computed
    <2>5. ASSUME NEW p \in Node, informed'[p], Writing(p)' = {}, p # n PROVE Computed(p)'
      <3>1. informed[p] /\ topo'[p] = topo[p] /\ rib'[p] = rib[p]
        BY <2>0, <2>5 DEF Inv, TypeInv
      <3>2. Computed(p)
        BY <1>4, <2>5, <3>1 DEF Inv, ComputedInv
      <3> QED BY <1>1, <3>1, <3>2, ComputedStays
    <2>6. ComputedInv'
      BY <1>4, <2>4, <2>5 DEF ComputedInv
    <2> QED BY <1>2, <1>3, <2>2, <2>6 DEF Inv
  <1>7. CASE db[n][n].seq = 0
    <2>1. UNCHANGED <<topo, rib, informed>>
      BY <1>7 DEF ComputeSPF
    <2> QED BY <1>5, <2>1
  <1>8. CASE db[n][n].seq # 0
    <2>1. PICK W \in SUBSET Writing(n), refused \in SUBSET Writing(n) :
            \E hop \in [Dest -> adj[n] \cup W \cup {n}] : Chosen(n, W, refused, hop)
      BY <1>8, Zenon DEF ComputeSPF, Chosen
    <2>2. PICK hop \in [Dest -> adj[n] \cup W \cup {n}] : Chosen(n, W, refused, hop)
      BY <2>1, Zenon
    <2> QED BY <1>6, <2>2, Zenon
  <1> QED BY <1>7, <1>8

\* The invariant of the three processes together.
THEOREM ForwardingInvariant == Spec => []Inv
  <1>1. Inv /\ [Next]_vars => Inv'
    <2> SUFFICES ASSUME Inv, [Next]_vars PROVE Inv'
      OBVIOUS
    <2>1. CASE Next
      BY <2>1, AdjBeginKeeps, AdjEndKeeps, GenLoadKeeps, GenStoreKeeps, GenBuildKeeps,
         GenInsertKeeps, GenFloodKeeps, CrossKeeps, ComputeSPFKeeps DEF Next, HelloRecv
    <2>2. CASE UNCHANGED vars
      <3>1. UNCHANGED <<adj, seqNum, pc, tmp, built, srm, db, trigger, topo, rib, informed, overlap>>
        BY <2>2 DEF vars, genVars, spfVars, histVars
      <3>2. TypeInv' /\ LinksInv'
        BY <3>1 DEF Inv, TypeInv, LinksInv
      <3>3. OwnInv'
        BY <3>1, OwnStays DEF Inv, OwnInv
      <3>4. ComputedInv'
        BY <3>1, ComputedInvStays DEF Inv, Writing
      <3> QED BY <3>2, <3>3, <3>4 DEF Inv
    <2> QED BY <2>1, <2>2
  <1> QED BY <1>1, InitHolds, PTL DEF Spec

\* When nothing is left to do, the two ends of a link hold the same LSPs.
LEMMA LinkAgrees ==
  ASSUME Inv, Settled, Undisturbed, NEW n \in Node, NEW m \in Link[n], NEW k \in Node
  PROVE  db[n][k] = db[m][k]
  <1>1. m \in Node /\ n \in Link[m]
    BY ForwardingAssumption
  <1>2. Own(k)
    BY DEF Undisturbed, Inv, OwnInv
  <1>3. srm[n][m] = {} /\ srm[m][n] = {} /\ \A q \in Node : pc[k][q] = "idle"
    BY <1>1 DEF Settled
  <1>4. ~(db[m][k].seq < db[n][k].seq) /\ ~(db[n][k].seq < db[m][k].seq)
    BY <1>1, <1>2, <1>3 DEF Own, Flagged
  <1>5. db[m][k].seq \in Nat /\ db[n][k].seq \in Nat
    BY <1>1 DEF Inv, TypeInv, Lsps
  <1>6. db[m][k].seq = db[n][k].seq
    BY <1>4, <1>5
  <1> QED BY <1>1, <1>2, <1>6 DEF Own, Same

\* ... and the LSP of a node lists its links.
LEMMA OwnLinks ==
  ASSUME Inv, Settled, Undisturbed, NEW n \in Node
  PROVE  db[n][n].nbrs = Link[n] /\ (Link[n] # {} => db[n][n].seq > 0)
  BY DEF Settled, Undisturbed, Inv, OwnInv, Own, Listed

\* Whatever network and whatever history without overlapping generateLocalLsp
\* calls on one node: when nothing is left to do, every LSP is everywhere.
THEOREM FloodingIsComplete == Spec => []FloodedEverywhere
  <1>1. Inv => FloodedEverywhere
    BY LinkAgrees, OwnLinks DEF FloodedEverywhere
  <1> QED BY <1>1, ForwardingInvariant, PTL

-----------------------------------------------------------------------------
\* Going from n through g is going from the neighbors of n through h, where h is
\* g on the component C but for what leads back out of n.
LEMMA WithoutStart ==
  ASSUME NEW g, NEW h, NEW C, NEW n \in C, C \subseteq DOMAIN g, DOMAIN h = DOMAIN g,
         \A k \in C : g[k] \subseteq C, h[n] = {}, \A k \in C \ {n} : h[k] = g[k]
  PROVE  \A d \in Nat : Ball(g, {n})[d + 1] = Ball(h, g[n])[d] \cup {n}
  <1> DEFINE B == Ball(g, {n})
             A == Ball(h, g[n])
             T == {d \in Nat : B[d + 1] = A[d] \cup {n}}
  <1>1. 0 \in T
    <2>1. B[0] = {n} /\ B[0 + 1] = Widen(g, B[0]) /\ A[0] = g[n]
      BY BallEquation
    <2>2. Widen(g, {n}) = g[n] \cup {n}
      BY DEF Widen
    <2> QED BY <2>1, <2>2
  <1>2. ASSUME NEW d \in Nat, d \in T PROVE d + 1 \in T
    <2>1. B[(d + 1) + 1] = Widen(g, B[d + 1]) /\ A[d + 1] = Widen(h, A[d])
      BY BallEquation
    <2>2. B[d + 1] = A[d] \cup {n}
      BY <1>2
    <2>3. A[d] \subseteq C
      BY <1>1, BallClosed
    <2>4. g[n] \subseteq A[d]
      BY BallGrows, BallEquation
    <2> HIDE DEF A, B, T
    <2>5. Widen(g, A[d] \cup {n}) = Widen(h, A[d]) \cup {n}
      BY <2>3, <2>4 DEF Widen
    <2>6. B[(d + 1) + 1] = A[d + 1] \cup {n}
      <3>1. B[(d + 1) + 1] = Widen(g, A[d] \cup {n})
        BY <2>1, <2>2, Zenon
      <3> QED BY <3>1, <2>1, <2>5, Zenon
    <2> QED BY <2>6 DEF T
  <1> HIDE DEF T
  <1>3. Nat \subseteq T
    BY <1>1, <1>2, SetInduction
  <1> QED BY <1>3 DEF T

\* The least number of hops to what can be reached.
LEMMA LeastBall ==
  ASSUME NEW g, NEW S, NEW e \in Nat, NEW k, k \in Ball(g, S)[e]
  PROVE  \E d \in Nat : k \in Ball(g, S)[d] /\ \A c \in Nat : c < d => k \notin Ball(g, S)[c]
  <1> DEFINE T == {d \in Nat : k \in Ball(g, S)[d]}
  <1>1. PICK d \in T : \A c \in T : d <= c
    BY LeastNumber
  <1> QED BY <1>1

\* In a settled network all nodes n has links to, directly or not, hold what n
\* holds.
LEMMA SettledAgree ==
  ASSUME Inv, Settled, Undisturbed, NEW n \in Node
  PROVE  \E C : /\ n \in C /\ C \subseteq Node
                /\ \A k \in C : Link[k] \subseteq C
                /\ \A k \in C : db[n][k].nbrs = Link[k] /\ (Link[k] # {} => db[n][k].seq > 0)
  <1> USE ForwardingAssumption
  <1> DEFINE C == {m \in Node : \A k \in Node : db[m][k] = db[n][k]}
  <1>1. n \in C /\ C \subseteq Node
    OBVIOUS
  <1>2. ASSUME NEW k \in C, NEW j \in Link[k] PROVE j \in C
    <2>1. j \in Node /\ k \in Node
      OBVIOUS
    <2>2. \A x \in Node : db[k][x] = db[j][x]
      BY <2>1, LinkAgrees
    <2> QED BY <2>1, <2>2
  <1>3. ASSUME NEW k \in C
        PROVE  db[n][k].nbrs = Link[k] /\ (Link[k] # {} => db[n][k].seq > 0)
    <2>1. k \in Node /\ db[n][k] = db[k][k]
      OBVIOUS
    <2> QED BY <2>1, OwnLinks
  <1> HIDE DEF C
  <1> QED BY <1>1, <1>2, <1>3

\* In a settled network where all have computed, the hop from n towards k leaves
\* k less than d + 1 links away, if it was d + 1.
LEMMA HopLeadsCloser ==
  ASSUME Inv, Settled, Undisturbed, NEW n \in Node, informed[n], NEW k \in Dest, NEW d \in Nat,
         k \in Ball(Link, {n})[d + 1],
         \A e \in Nat : e < d + 1 => k \notin Ball(Link, {n})[e]
  PROVE  /\ topo[n][k] \in Node
         /\ k \in Ball(Link, {topo[n][k]})[d]
         /\ rib[n][k] # n
  <1> USE ForwardingAssumption
  <1> DEFINE g == Graph(n)
  <1>1. PICK C : /\ n \in C /\ C \subseteq Node
                 /\ \A j \in C : Link[j] \subseteq C
                 /\ \A j \in C : db[n][j].nbrs = Link[j] /\ (Link[j] # {} => db[n][j].seq > 0)
    BY SettledAgree
  <1>2. /\ DOMAIN g = Node /\ DOMAIN Link = Node /\ g[n] = {}
        /\ \A j \in C \ {n} : g[j] = Link[j]
        /\ \A j \in Node : g[j] \subseteq Link[j] /\ g[j] \subseteq Node
    <2>1. DOMAIN g = Node /\ DOMAIN Link = Node /\ g[n] = {}
      BY DEF Graph
    <2>2. ASSUME NEW j \in C \ {n} PROVE g[j] = Link[j]
      BY <1>1, <2>2 DEF Graph
    <2>3. ASSUME NEW j \in Node PROVE g[j] \subseteq Link[j] /\ g[j] \subseteq Node
      <3>1. db[n][j].nbrs \subseteq Link[j] /\ Link[j] \subseteq Node
        BY DEF Inv, LinksInv
      <3> QED BY <3>1 DEF Graph
    <2> QED BY <2>1, <2>2, <2>3
  <1> HIDE DEF g
  <1>3. adj[n] = Link[n] /\ Link[n] \subseteq Node
    BY DEF Settled
  <1>4. \A e \in Nat : Ball(Link, {n})[e + 1] = Ball(g, adj[n])[e] \cup {n}
    BY <1>1, <1>2, <1>3, WithoutStart
  <1>5. k # n
    <2>1. Ball(Link, {n})[0] = {n}
      BY BallEquation
    <2>2. 0 \in Nat /\ 0 < d + 1
      OBVIOUS
    <2>3. k \notin Ball(Link, {n})[0]
      BY <2>2, Zenon
    <2> QED BY <2>1, <2>3, Zenon
  <1>6. k \in Ball(g, adj[n])[d] /\ \A e \in Nat : e < d => k \notin Ball(g, adj[n])[e]
    <2>1. k \in Ball(g, adj[n])[d]
      <3>1. Ball(Link, {n})[d + 1] = Ball(g, adj[n])[d] \cup {n}
        BY <1>4
      <3> QED BY <1>5, <3>1, Zenon
    <2>2. ASSUME NEW e \in Nat, e < d PROVE k \notin Ball(g, adj[n])[e]
      <3>1. e + 1 \in Nat /\ e + 1 < d + 1
        BY <2>2
      <3>2. k \notin Ball(Link, {n})[e + 1]
        BY <3>1, Zenon
      <3> QED BY <3>2, <1>4, Zenon
    <2> QED BY <2>1, <2>2
  <1>7. IsGraph(g, Node)
    BY <1>2 DEF IsGraph
  <1>8. Distance(g, adj[n], k) = d
    BY <1>3, <1>6, <1>7, DistanceIsLeast
  <1>9. k \in Reachable(g, adj[n])
    BY <1>3, <1>6, <1>7, ReachableIsAll
  <1>10. Computed(n)
    <2>1. Writing(n) = {}
      BY DEF Settled, Writing
    <2> QED BY <2>1 DEF Inv, ComputedInv
  <1>11. topo[n][k] \in Nearest(g, adj[n], k) /\ (db[n][k].seq > 0 => rib[n][k] # n)
    BY <1>5, <1>9, <1>10 DEF Computed, g
  <1>12. topo[n][k] \in adj[n] /\ k \in Ball(g, {topo[n][k]})[d]
    BY <1>8, <1>11 DEF Nearest
  <1>13. k \in Ball(Link, {topo[n][k]})[d]
    BY <1>2, <1>12, BallMonotone
  <1>14. k \in C
    BY <1>1, <1>2, BallClosed
  <1>15. Link[k] # {}
    <2> SUFFICES ASSUME Link[k] = {} PROVE FALSE
      OBVIOUS
    <2>1. k \in Node
      BY <1>1, <1>14
    <2>2. ASSUME NEW j \in Node \ {k} PROVE Link[j] \subseteq Node \ {k}
      BY <2>1
    <2> DEFINE R == Node \ {k}
    <2>3. {n} \subseteq R /\ \A j \in R \cap DOMAIN Link : Link[j] \subseteq R
      BY <1>5, <2>2
    <2>4. \A e \in Nat : Ball(Link, {n})[e] \subseteq R
      <3> HIDE DEF R
      <3> QED BY <2>3, BallClosed
    <2>5. d + 1 \in Nat
      OBVIOUS
    <2>6. Ball(Link, {n})[d + 1] \subseteq R
      BY <2>4, <2>5
    <2> QED BY <2>6
  <1>16. rib[n][k] # n
    BY <1>1, <1>11, <1>14, <1>15
  <1> QED BY <1>3, <1>12, <1>13, <1>16

\* Following TopoDB from node to node arrives, within as many hops as there are
\* links in between.
LEMMA HopsArrive ==
  ASSUME Inv, Settled, Undisturbed, \A n \in Node : informed[n], NEW k \in Dest
  PROVE  \A d \in Nat : \A n \in Node :
           k \in Ball(Link, {n})[d] => k \in Ball(Way(topo, k), {n})[d]
  <1> DEFINE w == Way(topo, k)
             Arrives(d) == \A n \in Node : k \in Ball(Link, {n})[d] => k \in Ball(w, {n})[d]
             T == {d \in Nat : Arrives(d)}
  <1>1. 0 \in T
    BY BallEquation
  <1>2. ASSUME NEW d \in Nat, d \in T, NEW n \in Node, k \in Ball(Link, {n})[d + 1]
        PROVE  k \in Ball(w, {n})[d + 1]
    <2>1. CASE \E e \in Nat : e < d + 1 /\ k \in Ball(Link, {n})[e]
      <3>1. k \in Ball(Link, {n})[d]
        BY <2>1, BallGrows
      <3>2. k \in Ball(w, {n})[d]
        BY <1>2, <3>1
      <3> QED BY <3>2, BallGrows
    <2>2. CASE \A e \in Nat : e < d + 1 => k \notin Ball(Link, {n})[e]
      <3>1. topo[n][k] \in Node /\ k \in Ball(Link, {topo[n][k]})[d]
        BY <1>2, <2>2, HopLeadsCloser
      <3>2. k \in Ball(w, {topo[n][k]})[d]
        BY <1>2, <3>1
      <3>3. n \in DOMAIN w /\ w[n] = {topo[n][k]}
        BY DEF Way
      <3> HIDE DEF w
      <3>4. Ball(w, {n})[1] = {n, topo[n][k]}
        <4>1. Ball(w, {n})[0] = {n} /\ Ball(w, {n})[0 + 1] = Widen(w, Ball(w, {n})[0])
          BY BallEquation
        <4>2. Widen(w, {n}) = {n, topo[n][k]}
          BY <3>3 DEF Widen
        <4> QED BY <4>1, <4>2
      <3>5. k \in Ball(w, {n})[d + 1]
        BY <3>2, <3>4, BallShift
      <3> QED BY <3>5
    <2> QED BY <2>1, <2>2
  <1> HIDE DEF w
  <1>3. ASSUME NEW d \in Nat, d \in T PROVE d + 1 \in T
    BY <1>2, <1>3
  <1> HIDE DEF T
  <1>4. Nat \subseteq T
    BY <1>1, <1>3, SetInduction
  <1> QED BY <1>4 DEF T, w

\* Whatever network and whatever history without overlapping generateLocalLsp
\* calls on one node: once nothing is left to do and all have computed, next hops
\* chosen independently by computeSPF lead to every destination, and each kernel
\* has a route to it.
THEOREM NextHopsFitTogether == Spec => []HopsFitTogether
  <1>1. Inv => HopsFitTogether
    <2> SUFFICES ASSUME Inv, Settled, Undisturbed, \A n \in Node : informed[n],
                        NEW n \in Node, NEW k \in Dest, k \in Reachable(Link, {n}), k # n
                 PROVE  k \in Reachable(Way(topo, k), {n}) /\ rib[n][k] # n
      BY DEF HopsFitTogether
    <2> USE ForwardingAssumption
    <2>1. IsGraph(Link, Node)
      BY DEF IsGraph
    <2>2. PICK e \in Nat : k \in Ball(Link, {n})[e]
      BY <2>1, ReachableInBall
    <2>3. PICK d \in Nat : k \in Ball(Link, {n})[d] /\ \A c \in Nat : c < d => k \notin Ball(Link, {n})[c]
      BY <2>2, LeastBall
    <2>4. d # 0
      BY <2>3, BallEquation
    <2>5. PICK c \in Nat : d = c + 1
      <3>1. d - 1 \in Nat /\ d = (d - 1) + 1
        BY <2>4
      <3> QED BY <3>1
    <2>6. rib[n][k] # n
      BY <2>3, <2>5, HopLeadsCloser
    <2>7. k \in Ball(Way(topo, k), {n})[d]
      BY <2>3, HopsArrive
    <2>8. IsGraph(Way(topo, k), Node)
      BY DEF IsGraph, Way, Inv, TypeInv
    <2> QED BY <2>6, <2>7, <2>8, ReachableIsAll
  <1> QED BY <1>1, ForwardingInvariant, PTL
=============================================================================
