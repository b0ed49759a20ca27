--------------------------- MODULE UpdateProcess ---------------------------
(***************************************************************************)
(* The update process of go-is-is (update.go) on every node of a network:  *)
(* originating the local LSP, accepting received LSPs into UpdateDB,       *)
(* marking SRM flags and flooding, and the SPF triggers sent to the        *)
(* decision process.                                                       *)
(*                                                                         *)
(* Each interface i of a node runs three goroutines that touch this state: *)
(*   gen  isisHelloRecv(i), from the moment it writes an UP adjacency to   *)
(*        its return from generateLocalLsp;                                *)
(*   in   isisUpdateInput(i);                                              *)
(*   out  isisUpdate(i), the periodic flooder.                             *)
(* A step is what a goroutine does between two operations another one can  *)
(* observe.  The mutexes UpdateDB.DBLock and intf.lock are held exactly at *)
(* the program counters DBLocked and IntfLocked list.  Go locals that are   *)
(* out of scope are reset.                                                 *)
(*                                                                         *)
(* The network may lose frames and daemons may restart; both are bounded.  *)
(* ImplementsLinkState relates all this to the store LinkState describes.  *)
(***************************************************************************)
EXTENDS Topology, Naturals, Sequences, FiniteSets, FiniteSetsExt

CONSTANTS
  None,      \* the adjacency on the interface is not UP
  Bogus,     \* a neighbor ID that belongs to no node
  MaxCalls,  \* bound: MaxCalls[i] generateLocalLsp calls by isisHelloRecv(i)
  MaxLoss,   \* bound: frames the network loses
  MaxRestarts \* bound: MaxRestarts[n] restarts of the daemon on n

ASSUME IdsAssumption == None \notin Node /\ Bogus \notin Node /\ None # Bogus
ASSUME BoundsAssumption ==
  MaxCalls \in [Intf -> Nat] /\ MaxLoss \in Nat /\ MaxRestarts \in [Node -> Nat]

VARIABLES
  adj,             \* adj[i]: the neighbor of the UP adjacency on i, or None
  sequenceNumber,  \* the global of update.go, per node
  updateDB,        \* UpdateDB: updateDB[n][k] is the LSP of k that n holds
  srm,             \* srm[i]: the LSP keys whose SRM flag is set on i
  topoDB,          \* what the last successful computeSPF was computed from
  spfPending,      \* isisDecision goroutines that have received `true`
  wire,            \* wire[i]: LSP frames in the receive socket of i
  genPc, genTmp, genLsp, genTodo,
  inPc, inLsp, inTodo,
  outPc, outLsp, outScan,
  calls,           \* history: generateLocalLsp calls per interface
  overlap,         \* history: two such calls of the node have overlapped
  crossed,         \* history: LSPs sent out of or received on i since the last start
  issued,          \* history: issued[n] are the LSPs generateLocalLsp inserted on n
  lost,            \* frames lost so far
  restarts         \* restarts[n]: restarts of n so far

genVars == <<genPc, genTmp, genLsp, genTodo>>
inVars  == <<inPc, inLsp, inTodo>>
outVars == <<outPc, outLsp, outScan>>
dbVars  == <<adj, sequenceNumber, updateDB, srm, topoDB, spfPending>>
histVars == <<calls, overlap, crossed, issued, lost, restarts>>
vars == <<dbVars, wire, genVars, inVars, outVars, histVars>>

-----------------------------------------------------------------------------
\* An LSP: the key (the originator's LSP ID), the sequence number, and the
\* system IDs of TLV 2.  Prefixes (TLV 128) are fixed per originator.
Lsp == [id : Node, seq : Nat, nbrs : SUBSET (Node \cup {Bogus})]

\* AvlSearch returning nil.  Real sequence numbers start at 1.
Absent(k) == [id |-> k, seq |-> 0, nbrs |-> {}]

Has(n, k) == updateDB[n][k].seq > 0

\* UpdateDB.DBLock of node n is held from one step to the next.
DBLocked(n) ==
  \E i \in IntfsOf(n) : inPc[i] \in {"insert", "flood"}

\* Faulty variant of IntfLocked: isisUpdate scans and sends without intf.lock.
IntfUnlockedFlooder(i) == genPc[i] = "adj"

\* intf.lock of interface i is held.
IntfLocked(i) == genPc[i] = "adj" \/ outPc[i] \in {"scan", "send"}

\* Faulty variant of HelloSources: the neighbor's MAC is stored, not its system ID.
HelloMacs(i) == Peers(i)

\* The neighbors isisHelloRecv(i) can find in a hello that names i's MAC.
HelloSources(i) == {Owner[p] : p \in Peers(i)}

UpNeighbors(n) == {adj[i] : i \in IntfsOf(n)} \ {None}

-----------------------------------------------------------------------------
(* isisHelloRecv, the branch that brings the adjacency up, and             *)
(* generateLocalLsp, which it then calls without any lock.                 *)

\* intf.lock is taken to write the adjacency.
AdjBegin(i) ==
  /\ genPc[i] = "idle"
  /\ calls[i] < MaxCalls[i]
  /\ ~IntfLocked(i)
  /\ genPc' = [genPc EXCEPT ![i] = "adj"]
  /\ calls' = [calls EXCEPT ![i] = @ + 1]
  /\ overlap' = [overlap EXCEPT ![Owner[i]] =
                   @ \/ \E j \in IntfsOf(Owner[i]) : genPc[j] # "idle"]
  /\ UNCHANGED <<dbVars, wire, genTmp, genLsp, genTodo, inVars, outVars, crossed, issued, lost, restarts>>

\* state, metric, neighborSystemID and neighborIP are written; intf.lock is released.
AdjEnd(i) ==
  /\ genPc[i] = "adj"
  /\ \E s \in HelloSources(i) : adj' = [adj EXCEPT ![i] = s]
  /\ genPc' = [genPc EXCEPT ![i] = "load"]
  /\ UNCHANGED <<sequenceNumber, updateDB, srm, topoDB, spfPending, wire,
                 genTmp, genLsp, genTodo, inVars, outVars, histVars>>

\* sequenceNumber += 1 is a load ...
GenLoad(i) ==
  /\ genPc[i] = "load"
  /\ genTmp' = [genTmp EXCEPT ![i] = sequenceNumber[Owner[i]]]
  /\ genPc' = [genPc EXCEPT ![i] = "store"]
  /\ UNCHANGED <<dbVars, wire, genLsp, genTodo, inVars, outVars, histVars>>

\* ... and a store, with no lock around the two.
GenStore(i) ==
  /\ genPc[i] = "store"
  /\ sequenceNumber' = [sequenceNumber EXCEPT ![Owner[i]] = genTmp[i] + 1]
  /\ genPc' = [genPc EXCEPT ![i] = "build"]
  /\ UNCHANGED <<adj, updateDB, srm, topoDB, spfPending, wire,
                 genTmp, genLsp, genTodo, inVars, outVars, histVars>>

\* What getNeighborTLV can read from interface j without its lock: while
\* isisHelloRecv(j) is writing, also an UP state whose neighborSystemID is
\* still nil or zero.
AdjViews(j) ==
  IF genPc[j] = "adj" THEN {adj[j], Bogus} \cup HelloSources(j) ELSE {adj[j]}

\* buildEmptyLSP and getNeighborTLV.  The argument sequenceNumber is the value
\* just stored or, if the compiler reloads the global, what it holds by now.
GenBuild(i) ==
  LET n == Owner[i] IN
  /\ genPc[i] = "build"
  /\ \E s \in {genTmp[i] + 1, sequenceNumber[n]} :
     \E view \in [IntfsOf(n) -> UNION {AdjViews(j) : j \in IntfsOf(n)}] :
       /\ \A j \in IntfsOf(n) : view[j] \in AdjViews(j)
       /\ genLsp' = [genLsp EXCEPT ![i] =
            [id |-> n, seq |-> s, nbrs |-> {view[j] : j \in IntfsOf(n)} \ {None}]]
  /\ genTmp' = [genTmp EXCEPT ![i] = 0]
  /\ genPc' = [genPc EXCEPT ![i] = "insert"]
  /\ UNCHANGED <<dbVars, wire, genTodo, inVars, outVars, histVars>>

\* Under DBLock, AvlInsert with overwrite = true: no sequence number is compared.
GenInsert(i) ==
  LET n == Owner[i] IN
  /\ genPc[i] = "insert"
  /\ ~DBLocked(n)
  /\ updateDB' = [updateDB EXCEPT ![n][n] = genLsp[i]]
  /\ issued' = [issued EXCEPT ![n] = @ \cup {genLsp[i]}]
  /\ genLsp' = [genLsp EXCEPT ![i] = Absent(n)]
  /\ genTodo' = [genTodo EXCEPT ![i] = IntfsOf(n)]
  /\ genPc' = [genPc EXCEPT ![i] = "flood"]
  /\ UNCHANGED <<adj, sequenceNumber, srm, topoDB, spfPending, wire,
                 genTmp, inVars, outVars, calls, overlap, crossed, lost, restarts>>

\* One iteration of the loop that sets SRM on every interface, under its lock.
GenFlood(i, j) ==
  /\ genPc[i] = "flood"
  /\ j \in genTodo[i]
  /\ ~IntfLocked(j)
  /\ srm' = [srm EXCEPT ![j] = @ \cup {Owner[i]}]
  /\ genTodo' = [genTodo EXCEPT ![i] = @ \ {j}]
  /\ genPc' = [genPc EXCEPT ![i] = IF genTodo[i] = {j} THEN "idle" ELSE "flood"]
  /\ UNCHANGED <<adj, sequenceNumber, updateDB, topoDB, spfPending, wire,
                 genTmp, genLsp, inVars, outVars, histVars>>

-----------------------------------------------------------------------------
(* isisUpdateInput                                                         *)

\* Faulty variant of Newer: any copy that differs is taken.
Different(l, n) == updateDB[n][l.id] # l

\* Faulty variant of Newer: an LSP that is already there is never overwritten.
OnlyNew(l, n) == ~Has(n, l.id)

\* AvlSearch found nothing, or an older sequence number.
Newer(l, n) == updateDB[n][l.id].seq < l.seq

\* recvPdus has handed over the next LSP frame on the unbuffered update channel
\* and the goroutine gets DBLock.
Receive(i) ==
  /\ inPc[i] = "idle"
  /\ wire[i] # <<>>
  /\ ~DBLocked(Owner[i])
  /\ wire' = [wire EXCEPT ![i] = Tail(@)]
  /\ crossed' = [crossed EXCEPT ![i] = @ \cup {Head(wire[i])}]

\* A new or newer LSP: DBLock is kept.
InAccept(i) ==
  /\ Receive(i)
  /\ Newer(Head(wire[i]), Owner[i])
  /\ inLsp' = [inLsp EXCEPT ![i] = Head(wire[i])]
  /\ inPc' = [inPc EXCEPT ![i] = "insert"]
  /\ UNCHANGED <<dbVars, genVars, inTodo, outVars, calls, overlap, issued, lost, restarts>>

\* isisDecision goroutines (main starts one per interface) ready to receive.
DecisionReady(n) == spfPending[n] < Cardinality(IntfsOf(n))

\* A copy that is not newer: DBLock is released, triggerSPF <- false does nothing.
InDiscard(i) ==
  /\ Receive(i)
  /\ ~Newer(Head(wire[i]), Owner[i])
  /\ DecisionReady(Owner[i])
  /\ UNCHANGED <<dbVars, genVars, inVars, outVars, calls, overlap, issued, lost, restarts>>

\* Faulty variant of InInsert: the header of the LSP is stored, not its TLVs.
InInsertHeader(i) ==
  LET n == Owner[i] IN
  /\ inPc[i] = "insert"
  /\ updateDB' = [updateDB EXCEPT ![n][inLsp[i].id].seq = inLsp[i].seq]
  /\ inTodo' = [inTodo EXCEPT ![i] = IntfsOf(n)]
  /\ inPc' = [inPc EXCEPT ![i] = "flood"]
  /\ UNCHANGED <<adj, sequenceNumber, srm, topoDB, spfPending, wire,
                 genVars, inLsp, outVars, histVars>>

\* AvlInsert of the LSP, still under DBLock.
InInsert(i) ==
  LET n == Owner[i] IN
  /\ inPc[i] = "insert"
  /\ updateDB' = [updateDB EXCEPT ![n][inLsp[i].id] = inLsp[i]]
  /\ inTodo' = [inTodo EXCEPT ![i] = IntfsOf(n)]
  /\ inPc' = [inPc EXCEPT ![i] = "flood"]
  /\ UNCHANGED <<adj, sequenceNumber, srm, topoDB, spfPending, wire,
                 genVars, inLsp, outVars, histVars>>

\* floodNewLsp's assignment to the flag on interface j.
MarkSRM(i, j) ==
  IF j = i THEN srm[j] \ {inLsp[i].id} ELSE srm[j] \cup {inLsp[i].id}

\* One iteration of floodNewLsp.  DBLock is released after the last one.
InFlood(i, j) ==
  /\ inPc[i] = "flood"
  /\ j \in inTodo[i]
  /\ ~IntfLocked(j)
  /\ srm' = [srm EXCEPT ![j] = MarkSRM(i, j)]
  /\ inTodo' = [inTodo EXCEPT ![i] = @ \ {j}]
  /\ inPc' = [inPc EXCEPT ![i] = IF inTodo[i] = {j} THEN "trigger" ELSE "flood"]
  /\ UNCHANGED <<adj, sequenceNumber, updateDB, topoDB, spfPending, wire,
                 genVars, inLsp, outVars, histVars>>

\* triggerSPF <- true.
InTrigger(i) ==
  LET n == Owner[i] IN
  /\ inPc[i] = "trigger"
  /\ DecisionReady(n)
  /\ spfPending' = [spfPending EXCEPT ![n] = @ + 1]
  /\ inLsp' = [inLsp EXCEPT ![i] = Absent(n)]
  /\ inPc' = [inPc EXCEPT ![i] = "idle"]
  /\ UNCHANGED <<adj, sequenceNumber, updateDB, srm, topoDB, wire,
                 genVars, inTodo, outVars, histVars>>

\* computeSPF, all of it under DBLock.  It gives up when the local LSP is
\* missing; otherwise TopoDB is computed from UpdateDB and the UP adjacencies.
Decision(n) ==
  /\ spfPending[n] > 0
  /\ ~DBLocked(n)
  /\ spfPending' = [spfPending EXCEPT ![n] = @ - 1]
  /\ topoDB' = IF Has(n, n)
               THEN [topoDB EXCEPT ![n] = [lsps |-> updateDB[n], nbrs |-> UpNeighbors(n)]]
               ELSE topoDB
  /\ UNCHANGED <<adj, sequenceNumber, updateDB, srm, wire, genVars, inVars, outVars, histVars>>

-----------------------------------------------------------------------------
(* isisUpdate                                                              *)

\* intf.lock is taken and held over the whole scan of lspFloodStates.  A scan
\* that finds nothing to send, or no UP adjacency, is a stuttering step.
OutLock(i) ==
  /\ outPc[i] = "sleep"
  /\ ~IntfLocked(i)
  /\ adj[i] # None
  /\ srm[i] # {}
  /\ outScan' = [outScan EXCEPT ![i] = srm[i]]
  /\ outPc' = [outPc EXCEPT ![i] = "scan"]
  /\ UNCHANGED <<dbVars, wire, genVars, inVars, outLsp, histVars>>

\* AvlSearch without DBLock.
OutLookup(i, k) ==
  /\ outPc[i] = "scan"
  /\ k \in outScan[i]
  /\ Has(Owner[i], k)
  /\ outLsp' = [outLsp EXCEPT ![i] = updateDB[Owner[i]][k]]
  /\ outPc' = [outPc EXCEPT ![i] = "send"]
  /\ UNCHANGED <<dbVars, wire, genVars, inVars, outScan, histVars>>

\* A new key is being inserted, so subtrees of UpdateDB may be rotating.
Rotating(n) ==
  \E i \in IntfsOf(n) :
    \/ genPc[i] = "insert" /\ ~DBLocked(n) /\ ~Has(n, n)
    \/ inPc[i] = "insert" /\ ~Has(n, inLsp[i].id)

\* The search returns nil ("Unable to find"): the flag stays set.
OutMiss(i, k) ==
  /\ outPc[i] = "scan"
  /\ k \in outScan[i]
  /\ ~Has(Owner[i], k) \/ Rotating(Owner[i])
  /\ outScan' = [outScan EXCEPT ![i] = @ \ {k}]
  /\ outPc' = [outPc EXCEPT ![i] = IF outScan[i] = {k} THEN "sleep" ELSE "scan"]
  /\ UNCHANGED <<dbVars, wire, genVars, inVars, outLsp, histVars>>

\* The frame goes out through sendPdus and the SRM flag is cleared.
OutSend(i) ==
  LET k == outLsp[i].id IN
  /\ outPc[i] = "send"
  /\ wire' = [j \in Intf |-> IF j \in Heard(i) THEN Append(wire[j], outLsp[i]) ELSE wire[j]]
  /\ srm' = [srm EXCEPT ![i] = @ \ {k}]
  /\ crossed' = [crossed EXCEPT ![i] = @ \cup {outLsp[i]}]
  /\ outScan' = [outScan EXCEPT ![i] = @ \ {k}]
  /\ outPc' = [outPc EXCEPT ![i] = IF outScan[i] = {k} THEN "sleep" ELSE "scan"]
  /\ outLsp' = [outLsp EXCEPT ![i] = Absent(Owner[i])]
  /\ UNCHANGED <<adj, sequenceNumber, updateDB, topoDB, spfPending,
                 genVars, inVars, calls, overlap, issued, lost, restarts>>

\* The network drops a frame (a full socket buffer, a bridge).
Lose(i) ==
  /\ wire[i] # <<>>
  /\ lost < MaxLoss
  /\ wire' = [wire EXCEPT ![i] = Tail(@)]
  /\ lost' = lost + 1
  /\ UNCHANGED <<dbVars, genVars, inVars, outVars, calls, overlap, crossed, issued, restarts>>

\* f with the interfaces of n set to x.
Reset(f, n, x) == [i \in Intf |-> IF i \in IntfsOf(n) THEN x ELSE f[i]]

\* The daemon of n dies and main runs again.  Nothing is persistent: the globals
\* are back at their initial values and the new sockets are empty.  The others
\* do not notice, their adjacencies with n stay UP.  A frame sent while n is down
\* is one that dies with its old socket.
Restart(n) ==
  /\ restarts[n] < MaxRestarts[n]
  /\ restarts' = [restarts EXCEPT ![n] = @ + 1]
  /\ adj' = Reset(adj, n, None)
  /\ sequenceNumber' = [sequenceNumber EXCEPT ![n] = 0]
  /\ updateDB' = [updateDB EXCEPT ![n] = [k \in Node |-> Absent(k)]]
  /\ srm' = Reset(srm, n, {})
  /\ topoDB' = [topoDB EXCEPT ![n] = [lsps |-> [k \in Node |-> Absent(k)], nbrs |-> {}]]
  /\ spfPending' = [spfPending EXCEPT ![n] = 0]
  /\ wire' = Reset(wire, n, <<>>)
  /\ genPc' = Reset(genPc, n, "idle") /\ inPc' = Reset(inPc, n, "idle")
  /\ outPc' = Reset(outPc, n, "sleep")
  /\ genTmp' = Reset(genTmp, n, 0)
  /\ genLsp' = Reset(genLsp, n, Absent(n)) /\ inLsp' = Reset(inLsp, n, Absent(n))
  /\ outLsp' = Reset(outLsp, n, Absent(n))
  /\ genTodo' = Reset(genTodo, n, {}) /\ inTodo' = Reset(inTodo, n, {})
  /\ outScan' = Reset(outScan, n, {})
  /\ crossed' = Reset(crossed, n, {})
  /\ UNCHANGED <<calls, overlap, issued, lost>>

-----------------------------------------------------------------------------
Init ==
  /\ adj = [i \in Intf |-> None]
  /\ sequenceNumber = [n \in Node |-> 0]
  /\ updateDB = [n \in Node |-> [k \in Node |-> Absent(k)]]
  /\ srm = [i \in Intf |-> {}]
  /\ topoDB = [n \in Node |-> [lsps |-> [k \in Node |-> Absent(k)], nbrs |-> {}]]
  /\ spfPending = [n \in Node |-> 0]
  /\ wire = [i \in Intf |-> <<>>]
  /\ genPc = [i \in Intf |-> "idle"]
  /\ genTmp = [i \in Intf |-> 0]
  /\ genLsp = [i \in Intf |-> Absent(Owner[i])]
  /\ genTodo = [i \in Intf |-> {}]
  /\ inPc = [i \in Intf |-> "idle"]
  /\ inLsp = [i \in Intf |-> Absent(Owner[i])]
  /\ inTodo = [i \in Intf |-> {}]
  /\ outPc = [i \in Intf |-> "sleep"]
  /\ outLsp = [i \in Intf |-> Absent(Owner[i])]
  /\ outScan = [i \in Intf |-> {}]
  /\ calls = [i \in Intf |-> 0]
  /\ overlap = [n \in Node |-> FALSE]
  /\ crossed = [i \in Intf |-> {}]
  /\ issued = [n \in Node |-> {}]
  /\ lost = 0 /\ restarts = [n \in Node |-> 0]

\* What isisHelloRecv(i) does once it has begun to write the adjacency.
HelloUp(i) ==
  \/ AdjEnd(i)
  \/ GenLoad(i) \/ GenStore(i) \/ GenBuild(i) \/ GenInsert(i)
  \/ \E j \in Intf : GenFlood(i, j)

UpdateInput(i) ==
  \/ InAccept(i) \/ InDiscard(i) \/ InInsert(i)
  \/ \E j \in Intf : InFlood(i, j)
  \/ InTrigger(i)

Flooder(i) ==
  \/ OutLock(i) \/ OutSend(i)
  \/ \E k \in Node : OutLookup(i, k) \/ OutMiss(i, k)

Next ==
  \/ \E i \in Intf : AdjBegin(i) \/ HelloUp(i) \/ UpdateInput(i) \/ Flooder(i) \/ Lose(i)
  \/ \E n \in Node : Decision(n) \/ Restart(n)

Spec == Init /\ [][Next]_vars

\* Every goroutine keeps running.  Nothing is assumed of the arrival of hellos.
Fairness ==
  /\ \A i \in Intf : WF_vars(HelloUp(i)) /\ WF_vars(UpdateInput(i)) /\ WF_vars(Flooder(i))
  /\ \A n \in Node : WF_vars(Decision(n))

FairSpec == Spec /\ Fairness

-----------------------------------------------------------------------------
(* Properties                                                              *)

TypeOK ==
  /\ adj \in [Intf -> Node \cup {None}]
  /\ sequenceNumber \in [Node -> Nat]
  /\ updateDB \in [Node -> [Node -> Lsp]]
  /\ srm \in [Intf -> SUBSET Node]
  /\ topoDB \in [Node -> [lsps : [Node -> Lsp], nbrs : SUBSET Node]]
  /\ spfPending \in [Node -> Nat]
  /\ wire \in [Intf -> Seq(Lsp)]
  /\ genPc \in [Intf -> {"idle", "adj", "load", "store", "build", "insert", "flood"}]
  /\ genTmp \in [Intf -> Nat]
  /\ genLsp \in [Intf -> Lsp]
  /\ genTodo \in [Intf -> SUBSET Intf]
  /\ inPc \in [Intf -> {"idle", "insert", "flood", "trigger"}]
  /\ inLsp \in [Intf -> Lsp]
  /\ inTodo \in [Intf -> SUBSET Intf]
  /\ outPc \in [Intf -> {"sleep", "scan", "send"}]
  /\ outLsp \in [Intf -> Lsp]
  /\ outScan \in [Intf -> SUBSET Node]
  /\ calls \in [Intf -> Nat]
  /\ overlap \in [Node -> BOOLEAN]
  /\ crossed \in [Intf -> SUBSET Lsp]
  /\ issued \in [Node -> SUBSET Lsp]
  /\ lost \in Nat /\ restarts \in [Node -> Nat]

\* A goroutine has changed UpdateDB's entry k and has still to visit interface
\* i in its flooding loop.
Pending(i, k) ==
  \E g \in IntfsOf(Owner[i]) :
    \/ genPc[g] = "flood" /\ i \in genTodo[g] /\ k = Owner[i]
    \/ inPc[g] = "flood" /\ i \in inTodo[g] /\ k = inLsp[g].id

\* No update is lost between the database and the link: the LSP a node holds
\* has crossed each of its interfaces in its current version, or SRM is set
\* for it there, or a goroutine is on its way to that interface.  isisUpdate
\* reads UpdateDB without DBLock and clears SRM after a blocking send; what
\* saves it is that SRM is only ever touched under intf.lock.
NoLostFlood ==
  \A i \in Intf, k \in Node :
    \/ ~Has(Owner[i], k)
    \/ k \in srm[i]
    \/ Pending(i, k)
    \/ updateDB[Owner[i]][k] \in crossed[i]

\* isisUpdateInput never trades the copy of another node's LSP for one that is
\* not newer, although the comparison and AvlInsert are separate steps and two
\* of its goroutines can hold copies of the same LSP.  A node that restarts and
\* counts from 1 again rolls no other node back.
RemoteLspsOnlyGrow ==
  [][\A n, k \in Node :
       k # n /\ updateDB'[n][k] # updateDB[n][k]
         => \/ updateDB[n][k].seq < updateDB'[n][k].seq
            \/ updateDB'[n] = [m \in Node |-> Absent(m)]]_vars

\* Seen from outside, the databases of all nodes are a store of versioned LSPs:
\* a node files only LSPs their originator has issued, bit for bit, goes forward
\* in versions, and forgets everything at once if it restarts.  The queues, SRM
\* flags, locks and goroutines are invisible.
LS == INSTANCE LinkState WITH Id <- Node \cup {Bogus}, held <- updateDB

ImplementsLinkState == LS!Spec

-----------------------------------------------------------------------------
(* What the network is left with once every goroutine is back at its       *)
(* blocking receive or sleep with nothing to do.                           *)

Quiescent ==
  /\ \A i \in Intf : /\ genPc[i] = "idle" /\ inPc[i] = "idle" /\ outPc[i] = "sleep"
                     /\ wire[i] = <<>>
                     /\ adj[i] = None \/ srm[i] = {}
  /\ \A n \in Node : spfPending[n] = 0

\* Different LSPs of k can bear one sequence number: calls of generateLocalLsp
\* overlapped on k, or k restarted and counts from 1 again.
Ambiguous(k) == overlap[k] \/ restarts[k] > 0

\* Every LSP that i's node holds is also held behind i, in that version or a
\* newer one, by the nodes that have not forgotten it in a restart.  An originator
\* may itself be left with an older one: generateLocalLsp overwrites without a
\* comparison, so overlapping calls can store their LSPs in the wrong order.
Agree(i) ==
  \A p \in Peers(i), k \in Node :
    LET l == updateDB[Owner[p]][k]
        m == updateDB[Owner[i]][k]
    IN restarts[Owner[p]] = 0 => \/ l = m
                                 \/ m.seq < l.seq
                                 \/ m.seq = l.seq /\ Ambiguous(k)
                                 \/ k = Owner[p] /\ overlap[k]

\* Flooding converges: when the network is quiet and no frame was lost, nodes
\* agree over every UP interface.
LinksAgreeWhenQuiet ==
  Quiescent /\ lost = 0 => \A i \in Intf : adj[i] # None => Agree(i)

\* ... and it gets there: behind an interface whose adjacency is UP every LSP of
\* this node arrives, through misses of the unlocked AvlSearch, duplicate
\* copies, the node's own frames coming back and a restart of the sender.
LinksConverge == \A i \in Intf : (adj[i] # None) ~> (lost = 0 => Agree(i))

\* update.go:404-405, "Triggered on adjacency change / Build a local LSP from
\* the information in adjacency database": a quiet node advertises exactly the
\* neighbors it has.
LocalLspCurrent ==
  Quiescent => \A n \in Node : updateDB[n][n].nbrs = UpNeighbors(n)

\* README.md:10, after LSPs were exchanged "then each node will know the full
\* topology of the network": TopoDB was computed from the LSPs of the others.
TopologyKnownWhenQuiet ==
  Quiescent /\ lost = 0 /\ (\A i \in Intf : adj[i] # None) =>
    \A n, k \in Node : k # n => topoDB[n].lsps[k] = updateDB[n][k]

=============================================================================
