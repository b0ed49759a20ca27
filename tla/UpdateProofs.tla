---------------------------- MODULE UpdateProofs ----------------------------
(***************************************************************************)
(* Proofs about the update process, for every network: any number of nodes *)
(* and interfaces, any segments, any number of generateLocalLsp calls,     *)
(* lost frames and restarts.                                               *)
(***************************************************************************)
EXTENDS UpdateProcess, TLAPS

USE DEF genVars, inVars, outVars, dbVars, histVars

-----------------------------------------------------------------------------
(* The inductive invariant behind NoLostFlood and RemoteLspsOnlyGrow.      *)

HasDBLock(i) == inPc[i] \in {"insert", "flood"}

\* One isisUpdateInput goroutine of a node at a time holds DBLock.
DBLockExclusive ==
  \A i, j \in Intf :
    Owner[i] = Owner[j] /\ HasDBLock(i) /\ HasDBLock(j) => i = j

\* Entries of UpdateDB are filed under their own key.
Keyed == \A n, k \in Node : updateDB[n][k].id = k

\* What isisUpdateInput knows while it holds DBLock.
InputInv ==
  \A i \in Intf :
    /\ HasDBLock(i) => inLsp[i] \in crossed[i]
    /\ inPc[i] = "insert" => Newer(inLsp[i], Owner[i])
    /\ inPc[i] = "flood" => updateDB[Owner[i]][inLsp[i].id] = inLsp[i]

\* generateLocalLsp builds LSPs of its own node.
LocalInv == \A i \in Intf : genLsp[i].id = Owner[i]

\* What isisUpdate knows while it holds intf.lock: flags it has seen stay set,
\* and an LSP it is about to send is the current one, or a goroutine that
\* replaced it will set the flag again.
FlooderInv ==
  \A i \in Intf :
    /\ outPc[i] \in {"scan", "send"} => outScan[i] \subseteq srm[i]
    /\ \A k \in Node : outPc[i] = "send" /\ k = outLsp[i].id =>
         \/ updateDB[Owner[i]][k] = outLsp[i]
         \/ Pending(i, k)

FloodInv ==
  /\ TypeOK
  /\ DBLockExclusive
  /\ Keyed
  /\ InputInv
  /\ LocalInv
  /\ FlooderInv
  /\ NoLostFlood

-----------------------------------------------------------------------------
(* Typing                                                                  *)

\* The stand-in for an LSP AvlSearch does not find is an LSP record of its key.
LEMMA AbsentType == ASSUME NEW k \in Node PROVE Absent(k) \in Lsp /\ Absent(k).id = k
BY DEF Absent, Lsp

\* The initial state is well typed.
LEMMA InitType == Init => TypeOK
<1> SUFFICES ASSUME Init PROVE TypeOK
    OBVIOUS
<1>1. \A i \in Intf : Absent(Owner[i]) \in Lsp
    BY AbsentType, TopologyAssumption
<1>2. \A k \in Node : Absent(k) \in Lsp
    BY AbsentType
<1> QED
    BY <1>1, <1>2 DEF Init, TypeOK

\* Every step keeps the types.
LEMMA StepType == TypeOK /\ [Next]_vars => TypeOK'
<1> SUFFICES ASSUME TypeOK, [Next]_vars PROVE TypeOK'
    OBVIOUS
<1> USE TopologyAssumption DEF TypeOK
<1>1. ASSUME NEW i \in Intf, AdjBegin(i) PROVE TypeOK'
  <2>1. overlap' \in [Node -> BOOLEAN]
    BY <1>1 DEF AdjBegin
  <2>2. genPc' \in [Intf -> {"idle", "adj", "load", "store", "build", "insert", "flood"}]
    BY <1>1 DEF AdjBegin
  <2>3. calls' \in [Intf -> Nat]
    BY <1>1 DEF AdjBegin
  <2>4. UNCHANGED <<adj, sequenceNumber, updateDB, srm, topoDB, spfPending, wire, genTmp, genLsp, genTodo,
                    inVars, outVars, crossed, issued, lost, restarts>>
    BY <1>1 DEF AdjBegin
  <2> QED
    BY <2>1, <2>2, <2>3, <2>4
<1>2. ASSUME NEW i \in Intf, AdjEnd(i) PROVE TypeOK'
  <2>1. HelloSources(i) \subseteq Node
    BY DEF HelloSources, Peers
  <2>2. adj' \in [Intf -> Node \cup {None}]
    BY <1>2, <2>1 DEF AdjEnd
  <2>3. genPc' \in [Intf -> {"idle", "adj", "load", "store", "build", "insert", "flood"}]
    BY <1>2 DEF AdjEnd
  <2>4. UNCHANGED <<sequenceNumber, updateDB, srm, topoDB, spfPending, wire,
                    genTmp, genLsp, genTodo, inVars, outVars, histVars>>
    BY <1>2 DEF AdjEnd
  <2> QED
    BY <2>2, <2>3, <2>4
<1>3. ASSUME NEW i \in Intf, GenLoad(i) PROVE TypeOK'
  <2>1. genTmp' \in [Intf -> Nat]
    BY <1>3 DEF GenLoad
  <2>2. genPc' \in [Intf -> {"idle", "adj", "load", "store", "build", "insert", "flood"}]
    BY <1>3 DEF GenLoad
  <2>3. UNCHANGED <<dbVars, wire, genLsp, genTodo, inVars, outVars, histVars>>
    BY <1>3 DEF GenLoad
  <2> QED
    BY <2>1, <2>2, <2>3
<1>4. ASSUME NEW i \in Intf, GenStore(i) PROVE TypeOK'
  <2>1. sequenceNumber' \in [Node -> Nat]
    BY <1>4 DEF GenStore
  <2>2. genPc' \in [Intf -> {"idle", "adj", "load", "store", "build", "insert", "flood"}]
    BY <1>4 DEF GenStore
  <2>3. UNCHANGED <<adj, updateDB, srm, topoDB, spfPending, wire, genTmp, genLsp, genTodo,
                    inVars, outVars, histVars>>
    BY <1>4 DEF GenStore
  <2> QED
    BY <2>1, <2>2, <2>3
<1>5. ASSUME NEW i \in Intf, GenBuild(i) PROVE TypeOK'
  <2>1. PICK s \in {genTmp[i] + 1, sequenceNumber[Owner[i]]},
             view \in [IntfsOf(Owner[i]) -> UNION {AdjViews(j) : j \in IntfsOf(Owner[i])}] :
          /\ \A j \in IntfsOf(Owner[i]) : view[j] \in AdjViews(j)
          /\ genLsp' = [genLsp EXCEPT ![i] =
               [id |-> Owner[i], seq |-> s, nbrs |-> {view[j] : j \in IntfsOf(Owner[i])} \ {None}]]
    BY <1>5 DEF GenBuild
  <2>2. ASSUME NEW j \in IntfsOf(Owner[i]) PROVE view[j] \in Node \cup {Bogus, None}
    <3>1. j \in Intf /\ adj[j] \in Node \cup {None}
      BY DEF IntfsOf
    <3>2. HelloSources(j) \subseteq Node
      BY <3>1 DEF HelloSources, Peers
    <3>3. AdjViews(j) \subseteq Node \cup {Bogus, None}
      BY <3>1, <3>2 DEF AdjViews
    <3> QED
      BY <2>1, <3>3
  <2>3. {view[j] : j \in IntfsOf(Owner[i])} \ {None} \in SUBSET (Node \cup {Bogus})
    BY <2>2
  <2>4. s \in Nat /\ Owner[i] \in Node
    BY <2>1
  <2>5. [id |-> Owner[i], seq |-> s, nbrs |-> {view[j] : j \in IntfsOf(Owner[i])} \ {None}] \in Lsp
    BY <2>3, <2>4 DEF Lsp
  <2>6. genLsp' \in [Intf -> Lsp]
    BY <2>1, <2>5
  <2>7. genTmp' \in [Intf -> Nat]
    BY <1>5 DEF GenBuild
  <2>8. genPc' \in [Intf -> {"idle", "adj", "load", "store", "build", "insert", "flood"}]
    BY <1>5 DEF GenBuild
  <2>9. UNCHANGED <<dbVars, wire, genTodo, inVars, outVars, histVars>>
    BY <1>5 DEF GenBuild
  <2> QED
    BY <2>6, <2>7, <2>8, <2>9
<1>6. ASSUME NEW i \in Intf, GenInsert(i) PROVE TypeOK'
  <2>1. updateDB' \in [Node -> [Node -> Lsp]] /\ issued' \in [Node -> SUBSET Lsp]
    BY <1>6 DEF GenInsert
  <2>2. genLsp' \in [Intf -> Lsp]
    BY <1>6, AbsentType DEF GenInsert
  <2>3. genTodo' \in [Intf -> SUBSET Intf]
    BY <1>6 DEF GenInsert, IntfsOf
  <2>4. genPc' \in [Intf -> {"idle", "adj", "load", "store", "build", "insert", "flood"}]
    BY <1>6 DEF GenInsert
  <2>5. UNCHANGED <<adj, sequenceNumber, srm, topoDB, spfPending, wire,
                    genTmp, inVars, outVars, calls, overlap, crossed, lost, restarts>>
    BY <1>6 DEF GenInsert
  <2> QED
    BY <2>1, <2>2, <2>3, <2>4, <2>5
<1>7. ASSUME NEW i \in Intf, NEW j \in Intf, GenFlood(i, j) PROVE TypeOK'
  <2>1. srm' \in [Intf -> SUBSET Node]
    <3>1. srm[j] \cup {Owner[i]} \in SUBSET Node
      OBVIOUS
    <3>2. srm' = [srm EXCEPT ![j] = @ \cup {Owner[i]}]
      BY <1>7 DEF GenFlood
    <3> QED
      BY <3>1, <3>2
  <2>2. genTodo' \in [Intf -> SUBSET Intf]
    BY <1>7 DEF GenFlood
  <2>3. genPc' \in [Intf -> {"idle", "adj", "load", "store", "build", "insert", "flood"}]
    BY <1>7 DEF GenFlood
  <2>4. UNCHANGED <<adj, sequenceNumber, updateDB, topoDB, spfPending, wire,
                    genTmp, genLsp, inVars, outVars, histVars>>
    BY <1>7 DEF GenFlood
  <2> QED
    BY <2>1, <2>2, <2>3, <2>4
<1>8. ASSUME NEW i \in Intf, InAccept(i) PROVE TypeOK'
  <2>1. Head(wire[i]) \in Lsp /\ Tail(wire[i]) \in Seq(Lsp)
    BY <1>8 DEF InAccept, Receive
  <2>2. wire' \in [Intf -> Seq(Lsp)]
    BY <1>8, <2>1 DEF InAccept, Receive
  <2>3. crossed' \in [Intf -> SUBSET Lsp]
    BY <1>8, <2>1 DEF InAccept, Receive
  <2>4. inLsp' \in [Intf -> Lsp]
    BY <1>8, <2>1 DEF InAccept
  <2>5. inPc' \in [Intf -> {"idle", "insert", "flood", "trigger"}]
    BY <1>8 DEF InAccept
  <2>6. UNCHANGED <<dbVars, genVars, inTodo, outVars, calls, overlap, issued, lost, restarts>>
    BY <1>8 DEF InAccept, Receive
  <2> QED
    BY <2>2, <2>3, <2>4, <2>5, <2>6
<1>9. ASSUME NEW i \in Intf, InDiscard(i) PROVE TypeOK'
  <2>1. Head(wire[i]) \in Lsp /\ Tail(wire[i]) \in Seq(Lsp)
    BY <1>9 DEF InDiscard, Receive
  <2>2. wire' \in [Intf -> Seq(Lsp)]
    BY <1>9, <2>1 DEF InDiscard, Receive
  <2>3. crossed' \in [Intf -> SUBSET Lsp]
    BY <1>9, <2>1 DEF InDiscard, Receive
  <2>4. UNCHANGED <<dbVars, genVars, inVars, outVars, calls, overlap, issued, lost, restarts>>
    BY <1>9 DEF InDiscard, Receive
  <2> QED
    BY <2>2, <2>3, <2>4
<1>10. ASSUME NEW i \in Intf, InInsert(i) PROVE TypeOK'
  <2>1. updateDB' \in [Node -> [Node -> Lsp]]
    BY <1>10 DEF InInsert, Lsp
  <2>2. inTodo' \in [Intf -> SUBSET Intf]
    BY <1>10 DEF InInsert, IntfsOf
  <2>3. inPc' \in [Intf -> {"idle", "insert", "flood", "trigger"}]
    BY <1>10 DEF InInsert
  <2>4. UNCHANGED <<adj, sequenceNumber, srm, topoDB, spfPending, wire, genVars, inLsp,
                    outVars, histVars>>
    BY <1>10 DEF InInsert
  <2> QED
    BY <2>1, <2>2, <2>3, <2>4
<1>11. ASSUME NEW i \in Intf, NEW j \in Intf, InFlood(i, j) PROVE TypeOK'
  <2>1. inLsp[i].id \in Node
    BY DEF Lsp
  <2>2. MarkSRM(i, j) \in SUBSET Node
    BY <2>1 DEF MarkSRM
  <2>3. srm' \in [Intf -> SUBSET Node]
    BY <1>11, <2>2 DEF InFlood
  <2>4. inTodo' \in [Intf -> SUBSET Intf]
    BY <1>11 DEF InFlood
  <2>5. inPc' \in [Intf -> {"idle", "insert", "flood", "trigger"}]
    BY <1>11 DEF InFlood
  <2>6. UNCHANGED <<adj, sequenceNumber, updateDB, topoDB, spfPending, wire,
                    genVars, inLsp, outVars, histVars>>
    BY <1>11 DEF InFlood
  <2> QED
    BY <2>3, <2>4, <2>5, <2>6
<1>12. ASSUME NEW i \in Intf, InTrigger(i) PROVE TypeOK'
  <2>1. inLsp' \in [Intf -> Lsp]
    BY <1>12, AbsentType DEF InTrigger
  <2>2. spfPending' \in [Node -> Nat]
    BY <1>12 DEF InTrigger
  <2>3. inPc' \in [Intf -> {"idle", "insert", "flood", "trigger"}]
    BY <1>12 DEF InTrigger
  <2>4. UNCHANGED <<adj, sequenceNumber, updateDB, srm, topoDB, wire,
                    genVars, inTodo, outVars, histVars>>
    BY <1>12 DEF InTrigger
  <2> QED
    BY <2>1, <2>2, <2>3, <2>4
<1>13. ASSUME NEW n \in Node, Decision(n) PROVE TypeOK'
  <2>1. UpNeighbors(n) \in SUBSET Node
    BY DEF UpNeighbors, IntfsOf
  <2>2. topoDB' \in [Node -> [lsps : [Node -> Lsp], nbrs : SUBSET Node]]
    BY <1>13, <2>1 DEF Decision
  <2>3. spfPending' \in [Node -> Nat]
    BY <1>13 DEF Decision
  <2>4. UNCHANGED <<adj, sequenceNumber, updateDB, srm, wire, genVars, inVars, outVars, histVars>>
    BY <1>13 DEF Decision
  <2> QED
    BY <2>2, <2>3, <2>4
<1>14. ASSUME NEW i \in Intf, OutLock(i) PROVE TypeOK'
  <2>1. outScan' \in [Intf -> SUBSET Node]
    BY <1>14 DEF OutLock
  <2>2. outPc' \in [Intf -> {"sleep", "scan", "send"}]
    BY <1>14 DEF OutLock
  <2>3. UNCHANGED <<dbVars, wire, genVars, inVars, outLsp, histVars>>
    BY <1>14 DEF OutLock
  <2> QED
    BY <2>1, <2>2, <2>3
<1>15. ASSUME NEW i \in Intf, NEW k \in Node, OutLookup(i, k) PROVE TypeOK'
  <2>1. outLsp' \in [Intf -> Lsp]
    BY <1>15 DEF OutLookup
  <2>2. outPc' \in [Intf -> {"sleep", "scan", "send"}]
    BY <1>15 DEF OutLookup
  <2>3. UNCHANGED <<dbVars, wire, genVars, inVars, outScan, histVars>>
    BY <1>15 DEF OutLookup
  <2> QED
    BY <2>1, <2>2, <2>3
<1>16. ASSUME NEW i \in Intf, NEW k \in Node, OutMiss(i, k) PROVE TypeOK'
  <2>1. outScan' \in [Intf -> SUBSET Node]
    BY <1>16 DEF OutMiss
  <2>2. outPc' \in [Intf -> {"sleep", "scan", "send"}]
    BY <1>16 DEF OutMiss
  <2>3. UNCHANGED <<dbVars, wire, genVars, inVars, outLsp, histVars>>
    BY <1>16 DEF OutMiss
  <2> QED
    BY <2>1, <2>2, <2>3
<1>17. ASSUME NEW i \in Intf, OutSend(i) PROVE TypeOK'
  <2>1. \A j \in Intf : Append(wire[j], outLsp[i]) \in Seq(Lsp)
    OBVIOUS
  <2>2. wire' \in [Intf -> Seq(Lsp)]
    BY <1>17, <2>1 DEF OutSend
  <2>3. outLsp' \in [Intf -> Lsp]
    BY <1>17, AbsentType DEF OutSend
  <2>4. srm' \in [Intf -> SUBSET Node] /\ outScan' \in [Intf -> SUBSET Node]
    BY <1>17 DEF OutSend
  <2>5. crossed' \in [Intf -> SUBSET Lsp]
    BY <1>17 DEF OutSend
  <2>6. outPc' \in [Intf -> {"sleep", "scan", "send"}]
    BY <1>17 DEF OutSend
  <2>7. UNCHANGED <<adj, sequenceNumber, updateDB, topoDB, spfPending,
                    genVars, inVars, calls, overlap, issued, lost, restarts>>
    BY <1>17 DEF OutSend
  <2> QED
    BY <2>2, <2>3, <2>4, <2>5, <2>6, <2>7
<1>18. ASSUME NEW i \in Intf, Lose(i) PROVE TypeOK'
  <2>1. wire' \in [Intf -> Seq(Lsp)]
    BY <1>18 DEF Lose
  <2>2. lost' \in Nat
    BY <1>18 DEF Lose
  <2>3. UNCHANGED <<dbVars, genVars, inVars, outVars, calls, overlap, crossed, issued, restarts>>
    BY <1>18 DEF Lose
  <2> QED
    BY <2>1, <2>2, <2>3
<1>20. ASSUME NEW n \in Node, Restart(n) PROVE TypeOK'
  <2>1. Absent(n) \in Lsp /\ [k \in Node |-> Absent(k)] \in [Node -> Lsp]
    BY AbsentType
  <2>2. /\ updateDB' \in [Node -> [Node -> Lsp]]
        /\ topoDB' \in [Node -> [lsps : [Node -> Lsp], nbrs : SUBSET Node]]
    BY <1>20, <2>1 DEF Restart
  <2>3. wire' \in [Intf -> Seq(Lsp)]
    BY <1>20 DEF Restart, Reset
  <2>4. /\ genLsp' \in [Intf -> Lsp] /\ inLsp' \in [Intf -> Lsp] /\ outLsp' \in [Intf -> Lsp]
        /\ crossed' \in [Intf -> SUBSET Lsp]
    BY <1>20, <2>1 DEF Restart, Reset
  <2>5. /\ adj' \in [Intf -> Node \cup {None}]
        /\ sequenceNumber' \in [Node -> Nat] /\ spfPending' \in [Node -> Nat]
        /\ restarts' \in [Node -> Nat]
        /\ srm' \in [Intf -> SUBSET Node] /\ outScan' \in [Intf -> SUBSET Node]
        /\ genTmp' \in [Intf -> Nat]
        /\ genTodo' \in [Intf -> SUBSET Intf] /\ inTodo' \in [Intf -> SUBSET Intf]
    BY <1>20 DEF Restart, Reset
  <2>6. /\ genPc' \in [Intf -> {"idle", "adj", "load", "store", "build", "insert", "flood"}]
        /\ inPc' \in [Intf -> {"idle", "insert", "flood", "trigger"}]
        /\ outPc' \in [Intf -> {"sleep", "scan", "send"}]
    BY <1>20 DEF Restart, Reset
  <2>7. UNCHANGED <<calls, overlap, issued, lost>>
    BY <1>20 DEF Restart
  <2> QED
    BY <2>2, <2>3, <2>4, <2>5, <2>6, <2>7
<1>19. CASE UNCHANGED vars
    BY <1>19 DEF vars
<1> QED
    BY <1>1, <1>2, <1>3, <1>4, <1>5, <1>6, <1>7, <1>8, <1>9, <1>10, <1>11, <1>12,
       <1>13, <1>14, <1>15, <1>16, <1>17, <1>18, <1>19, <1>20
    DEF Next, HelloUp, UpdateInput, Flooder

\* The state of every goroutine and database stays well typed; in particular
\* no LSP has a neighbor that is neither a node nor the bogus ID, and
\* spfPending never goes below zero.
THEOREM TypeCorrect == Spec => []TypeOK
<1>1. Init => TypeOK
    BY InitType
<1>2. TypeOK /\ [Next]_vars => TypeOK'
    BY StepType
<1> QED
    BY <1>1, <1>2, PTL DEF Spec

-----------------------------------------------------------------------------
(* The steps that matter to the invariant, and what the others leave alone. *)

\* Steps of the goroutines that touch neither UpdateDB, the SRM flags, nor the
\* program counters and locals of isisUpdateInput and isisUpdate.
Quiet ==
  /\ UNCHANGED <<updateDB, srm, inVars, outVars>>
  /\ \A i \in Intf : crossed[i] \subseteq crossed'[i]
  /\ \A i \in Intf : genLsp'[i].id = genLsp[i].id
  /\ \A i \in Intf : genPc[i] = "flood" => genPc'[i] = "flood" /\ genTodo'[i] = genTodo[i]

\* Every step is quiet or one of the steps the invariant is about.
LEMMA StepCases ==
  ASSUME TypeOK, LocalInv, [Next]_vars
  PROVE  \/ Quiet
         \/ \E i \in Intf : GenInsert(i) \/ InAccept(i) \/ InInsert(i) \/ InTrigger(i)
                            \/ OutLock(i) \/ OutSend(i)
         \/ \E i, j \in Intf : GenFlood(i, j) \/ InFlood(i, j)
         \/ \E i \in Intf, k \in Node : OutLookup(i, k) \/ OutMiss(i, k)
         \/ \E n \in Node : Restart(n)
<1> USE TopologyAssumption DEF TypeOK, Quiet
<1>1. ASSUME NEW i \in Intf, AdjBegin(i) PROVE Quiet
    BY <1>1 DEF AdjBegin
<1>2. ASSUME NEW i \in Intf, AdjEnd(i) PROVE Quiet
    BY <1>2 DEF AdjEnd
<1>3. ASSUME NEW i \in Intf, GenLoad(i) PROVE Quiet
    BY <1>3 DEF GenLoad
<1>4. ASSUME NEW i \in Intf, GenStore(i) PROVE Quiet
    BY <1>4 DEF GenStore
<1>5. ASSUME NEW i \in Intf, GenBuild(i) PROVE Quiet
    BY <1>5 DEF GenBuild, LocalInv
<1>6. ASSUME NEW i \in Intf, InDiscard(i) PROVE Quiet
    BY <1>6 DEF InDiscard, Receive
<1>7. ASSUME NEW n \in Node, Decision(n) PROVE Quiet
    BY <1>7 DEF Decision
<1>8. ASSUME NEW i \in Intf, Lose(i) PROVE Quiet
    BY <1>8 DEF Lose
<1>9. CASE UNCHANGED vars
    BY <1>9 DEF vars
<1> QED
    BY <1>1, <1>2, <1>3, <1>4, <1>5, <1>6, <1>7, <1>8, <1>9
    DEF Next, HelloUp, UpdateInput, Flooder

\* A goroutine on its way to interface i stays on its way in a quiet step.
LEMMA QuietPending ==
  ASSUME TypeOK, Quiet, NEW i \in Intf, NEW k \in Node, Pending(i, k)
  PROVE  Pending(i, k)'
BY DEF Quiet, Pending, TypeOK, IntfsOf

\* A quiet step keeps the invariant.
LEMMA QuietKeeps == FloodInv /\ TypeOK' /\ Quiet => FloodInv'
<1> SUFFICES ASSUME FloodInv, TypeOK', Quiet PROVE FloodInv'
    OBVIOUS
<1> USE TopologyAssumption DEF FloodInv
<1>1. DBLockExclusive'
    BY DEF Quiet, DBLockExclusive, HasDBLock
<1>2. Keyed'
    BY DEF Quiet, Keyed
<1>3. InputInv'
    BY DEF Quiet, InputInv, HasDBLock, Newer
<1>4. LocalInv'
    BY DEF Quiet, LocalInv
<1>5. FlooderInv'
  <2> SUFFICES ASSUME NEW i \in Intf, NEW k \in Node
               PROVE  (/\ outPc[i] \in {"scan", "send"} => outScan[i] \subseteq srm[i]
                       /\ outPc[i] = "send" /\ k = outLsp[i].id =>
                            updateDB[Owner[i]][k] = outLsp[i] \/ Pending(i, k))'
    BY DEF FlooderInv
  <2> QED
    BY QuietPending DEF FlooderInv, Quiet
<1>6. NoLostFlood'
  <2> SUFFICES ASSUME NEW i \in Intf, NEW k \in Node
               PROVE  (\/ ~Has(Owner[i], k)
                       \/ k \in srm[i]
                       \/ Pending(i, k)
                       \/ updateDB[Owner[i]][k] \in crossed[i])'
    BY DEF NoLostFlood
  <2> QED
    BY QuietPending DEF NoLostFlood, Quiet, Has
<1> QED
    BY <1>1, <1>2, <1>3, <1>4, <1>5, <1>6

-----------------------------------------------------------------------------
(* One lemma per step that is not quiet.                                   *)

\* generateLocalLsp replaces the node's own entry and turns to flooding it, so
\* every interface of the node has the key pending.
LEMMA GenInsertKeeps ==
  ASSUME FloodInv, TypeOK', NEW g \in Intf, GenInsert(g)
  PROVE  FloodInv'
<1> USE TopologyAssumption DEF FloodInv
<1> DEFINE n == Owner[g]
<1>1. /\ n \in Node /\ genLsp[g].id = n
      /\ updateDB' = [updateDB EXCEPT ![n][n] = genLsp[g]]
      /\ UNCHANGED <<srm, inVars, outVars, crossed>>
    BY DEF GenInsert, LocalInv
<1>2. \A i \in IntfsOf(n) : ~HasDBLock(i)
    BY DEF GenInsert, DBLocked, HasDBLock
<1>3. \A m, k \in Node : m # n \/ k # n => updateDB'[m][k] = updateDB[m][k]
    BY <1>1 DEF TypeOK
<1>4. updateDB'[n][n] = genLsp[g]
    BY <1>1 DEF TypeOK
<1>5. ASSUME NEW i \in Intf, NEW k \in Node, Pending(i, k) PROVE Pending(i, k)'
  <2>1. \A h \in Intf : genPc[h] = "flood" => genPc'[h] = "flood" /\ genTodo'[h] = genTodo[h]
    BY DEF GenInsert, TypeOK
  <2> QED
    BY <1>1, <1>5, <2>1 DEF Pending, IntfsOf
<1>6. ASSUME NEW i \in Intf, Owner[i] = n PROVE Pending(i, n)'
    BY <1>6 DEF GenInsert, Pending, TypeOK, IntfsOf
<1>7. DBLockExclusive'
    BY <1>1 DEF DBLockExclusive, HasDBLock
<1>8. Keyed'
    BY <1>1, <1>3, <1>4 DEF Keyed
<1>9. InputInv'
  <2> SUFFICES ASSUME NEW i \in Intf
               PROVE  (/\ HasDBLock(i) => inLsp[i] \in crossed[i]
                       /\ inPc[i] = "insert" => Newer(inLsp[i], Owner[i])
                       /\ inPc[i] = "flood" => updateDB[Owner[i]][inLsp[i].id] = inLsp[i])'
    BY DEF InputInv
  <2>1. inLsp[i].id \in Node
    BY DEF TypeOK, Lsp
  <2>2. HasDBLock(i) => Owner[i] # n
    BY <1>2 DEF IntfsOf
  <2> QED
    BY <1>1, <1>3, <2>1, <2>2 DEF InputInv, HasDBLock, Newer
<1>10. LocalInv'
    BY AbsentType DEF LocalInv, GenInsert, TypeOK
<1>11. FlooderInv'
  <2> SUFFICES ASSUME NEW i \in Intf, NEW k \in Node
               PROVE  (/\ outPc[i] \in {"scan", "send"} => outScan[i] \subseteq srm[i]
                       /\ outPc[i] = "send" /\ k = outLsp[i].id =>
                            updateDB[Owner[i]][k] = outLsp[i] \/ Pending(i, k))'
    BY DEF FlooderInv
  <2> QED
    BY <1>1, <1>3, <1>5, <1>6 DEF FlooderInv
<1>12. NoLostFlood'
  <2> SUFFICES ASSUME NEW i \in Intf, NEW k \in Node
               PROVE  (\/ ~Has(Owner[i], k) \/ k \in srm[i] \/ Pending(i, k)
                       \/ updateDB[Owner[i]][k] \in crossed[i])'
    BY DEF NoLostFlood
  <2> QED
    BY <1>1, <1>3, <1>5, <1>6 DEF NoLostFlood, Has
<1> QED
    BY <1>7, <1>8, <1>9, <1>10, <1>11, <1>12

\* isisUpdateInput replaces an entry under DBLock by one that crossed its
\* interface, and turns to flooding it.
LEMMA InInsertKeeps ==
  ASSUME FloodInv, TypeOK', NEW g \in Intf, InInsert(g)
  PROVE  FloodInv'
<1> USE TopologyAssumption DEF FloodInv
<1> DEFINE n == Owner[g]
           l == inLsp[g]
<1>1. /\ n \in Node /\ l.id \in Node
      /\ updateDB' = [updateDB EXCEPT ![n][l.id] = l]
      /\ UNCHANGED <<srm, inLsp, genVars, outVars, crossed>>
      /\ HasDBLock(g)
    BY DEF InInsert, TypeOK, Lsp, HasDBLock
<1>2. \A i \in Intf : i # g /\ Owner[i] = n => ~HasDBLock(i)
    BY <1>1 DEF DBLockExclusive
<1>3. \A m, k \in Node : m # n \/ k # l.id => updateDB'[m][k] = updateDB[m][k]
    BY <1>1 DEF TypeOK
<1>4. updateDB'[n][l.id] = l
    BY <1>1 DEF TypeOK
<1>5. ASSUME NEW i \in Intf, NEW k \in Node, Pending(i, k) PROVE Pending(i, k)'
  <2>1. \A h \in Intf : inPc[h] = "flood" => inPc'[h] = "flood" /\ inTodo'[h] = inTodo[h]
    BY DEF InInsert, TypeOK
  <2> QED
    BY <1>1, <1>5, <2>1 DEF Pending, IntfsOf
<1>6. ASSUME NEW i \in Intf, Owner[i] = n PROVE Pending(i, l.id)'
    BY <1>6 DEF InInsert, Pending, TypeOK, IntfsOf
<1>7. DBLockExclusive'
    BY <1>1 DEF DBLockExclusive, HasDBLock, InInsert, TypeOK
<1>8. Keyed'
    BY <1>1, <1>3, <1>4 DEF Keyed
<1>9. InputInv'
  <2> SUFFICES ASSUME NEW i \in Intf
               PROVE  (/\ HasDBLock(i) => inLsp[i] \in crossed[i]
                       /\ inPc[i] = "insert" => Newer(inLsp[i], Owner[i])
                       /\ inPc[i] = "flood" => updateDB[Owner[i]][inLsp[i].id] = inLsp[i])'
    BY DEF InputInv
  <2>1. inLsp[i].id \in Node
    BY DEF TypeOK, Lsp
  <2>2. CASE i = g
    BY <1>1, <1>4, <2>2 DEF InputInv, HasDBLock, InInsert, TypeOK
  <2>3. CASE i # g
    <3>1. inPc'[i] = inPc[i]
      BY <2>3 DEF InInsert, TypeOK
    <3> QED
      BY <1>1, <1>2, <1>3, <2>1, <2>3, <3>1 DEF InputInv, HasDBLock, Newer
  <2> QED
    BY <2>2, <2>3
<1>10. LocalInv'
    BY <1>1 DEF LocalInv
<1>11. FlooderInv'
  <2> SUFFICES ASSUME NEW i \in Intf, NEW k \in Node
               PROVE  (/\ outPc[i] \in {"scan", "send"} => outScan[i] \subseteq srm[i]
                       /\ outPc[i] = "send" /\ k = outLsp[i].id =>
                            updateDB[Owner[i]][k] = outLsp[i] \/ Pending(i, k))'
    BY DEF FlooderInv
  <2> QED
    BY <1>1, <1>3, <1>5, <1>6 DEF FlooderInv
<1>12. NoLostFlood'
  <2> SUFFICES ASSUME NEW i \in Intf, NEW k \in Node
               PROVE  (\/ ~Has(Owner[i], k) \/ k \in srm[i] \/ Pending(i, k)
                       \/ updateDB[Owner[i]][k] \in crossed[i])'
    BY DEF NoLostFlood
  <2> QED
    BY <1>1, <1>3, <1>5, <1>6 DEF NoLostFlood, Has
<1> QED
    BY <1>7, <1>8, <1>9, <1>10, <1>11, <1>12

\* A flooding loop that visits interface j sets the flag there, so the pending
\* visit it gives up is no longer needed; it needs j's lock, so isisUpdate is
\* not between its lookup and its reset of the flag on j.
LEMMA GenFloodKeeps ==
  ASSUME FloodInv, TypeOK', NEW g \in Intf, NEW j \in Intf, GenFlood(g, j)
  PROVE  FloodInv'
<1> USE TopologyAssumption DEF FloodInv
<1>1. /\ UNCHANGED <<updateDB, inVars, outVars, crossed, genLsp>>
      /\ outPc[j] \notin {"scan", "send"}
      /\ srm' = [srm EXCEPT ![j] = @ \cup {Owner[g]}]
    BY DEF GenFlood, IntfLocked
<1>2. \A i \in Intf : srm[i] \subseteq srm'[i]
    BY <1>1 DEF TypeOK
<1>3. ASSUME NEW i \in Intf, NEW k \in Node, Pending(i, k)
      PROVE  Pending(i, k)' \/ (i = j /\ k \in srm'[j])
  <2>1. PICK h \in IntfsOf(Owner[i]) :
          \/ genPc[h] = "flood" /\ i \in genTodo[h] /\ k = Owner[i]
          \/ inPc[h] = "flood" /\ i \in inTodo[h] /\ k = inLsp[h].id
    BY <1>3 DEF Pending
  <2>2. h \in Intf /\ Owner[h] = Owner[i]
    BY DEF IntfsOf
  <2>3. CASE inPc[h] = "flood" /\ i \in inTodo[h] /\ k = inLsp[h].id
    BY <1>1, <2>3 DEF Pending
  <2>4. CASE genPc[h] = "flood" /\ i \in genTodo[h] /\ k = Owner[i]
    <3>1. CASE h = g /\ i = j
      BY <1>1, <2>2, <2>4, <3>1 DEF TypeOK
    <3>2. CASE h # g \/ i # j
      <4>1. genPc'[h] = "flood" /\ i \in genTodo'[h]
        BY <2>2, <2>4, <3>2 DEF GenFlood, TypeOK
      <4> QED
        BY <2>4, <4>1 DEF Pending
    <3> QED
      BY <3>1, <3>2
  <2> QED
    BY <2>1, <2>3, <2>4
<1>4. DBLockExclusive' /\ Keyed' /\ LocalInv'
    BY <1>1 DEF DBLockExclusive, HasDBLock, Keyed, LocalInv
<1>5. InputInv'
    BY <1>1 DEF InputInv, HasDBLock, Newer
<1>6. FlooderInv'
  <2> SUFFICES ASSUME NEW i \in Intf, NEW k \in Node
               PROVE  (/\ outPc[i] \in {"scan", "send"} => outScan[i] \subseteq srm[i]
                       /\ outPc[i] = "send" /\ k = outLsp[i].id =>
                            updateDB[Owner[i]][k] = outLsp[i] \/ Pending(i, k))'
    BY DEF FlooderInv
  <2> QED
    BY <1>1, <1>2, <1>3 DEF FlooderInv
<1>7. NoLostFlood'
  <2> SUFFICES ASSUME NEW i \in Intf, NEW k \in Node
               PROVE  (\/ ~Has(Owner[i], k) \/ k \in srm[i] \/ Pending(i, k)
                       \/ updateDB[Owner[i]][k] \in crossed[i])'
    BY DEF NoLostFlood
  <2> QED
    BY <1>1, <1>2, <1>3 DEF NoLostFlood, Has
<1> QED
    BY <1>4, <1>5, <1>6, <1>7

\* floodNewLsp clears the flag on the receiving interface only, which the
\* accepted LSP has crossed.
LEMMA InFloodKeeps ==
  ASSUME FloodInv, TypeOK', NEW g \in Intf, NEW j \in Intf, InFlood(g, j)
  PROVE  FloodInv'
<1> USE TopologyAssumption DEF FloodInv
<1> DEFINE l == inLsp[g]
<1>1. /\ UNCHANGED <<updateDB, inLsp, genVars, outVars, crossed>>
      /\ outPc[j] \notin {"scan", "send"}
      /\ inPc[g] = "flood" /\ inPc'[g] \in {"flood", "trigger"}
      /\ \A i \in Intf : i # g => inPc'[i] = inPc[i] /\ inTodo'[i] = inTodo[i]
      /\ inTodo'[g] = inTodo[g] \ {j}
      /\ \A i \in Intf : i # j => srm'[i] = srm[i]
      /\ srm'[j] = IF j = g THEN srm[j] \ {l.id} ELSE srm[j] \cup {l.id}
    BY DEF InFlood, IntfLocked, MarkSRM, TypeOK
<1>2. /\ l \in crossed[g]
      /\ updateDB[Owner[g]][l.id] = l
    BY <1>1 DEF InputInv, HasDBLock
<1>3. ASSUME NEW i \in Intf, NEW k \in Node, Pending(i, k)
      PROVE  Pending(i, k)' \/ (i = j /\ k = l.id)
  <2>1. PICK h \in IntfsOf(Owner[i]) :
          \/ genPc[h] = "flood" /\ i \in genTodo[h] /\ k = Owner[i]
          \/ inPc[h] = "flood" /\ i \in inTodo[h] /\ k = inLsp[h].id
    BY <1>3 DEF Pending
  <2>2. h \in Intf
    BY DEF IntfsOf
  <2>3. CASE genPc[h] = "flood" /\ i \in genTodo[h] /\ k = Owner[i]
    BY <1>1, <2>3 DEF Pending
  <2>4. CASE inPc[h] = "flood" /\ i \in inTodo[h] /\ k = inLsp[h].id
    <3>1. CASE h = g /\ i = j
      BY <2>4, <3>1
    <3>2. CASE h # g \/ i # j
      <4>1. inPc'[h] = "flood" /\ i \in inTodo'[h]
        BY <2>2, <2>4, <3>2 DEF InFlood, TypeOK
      <4> QED
        BY <1>1, <2>4, <4>1 DEF Pending
    <3> QED
      BY <3>1, <3>2
  <2> QED
    BY <2>1, <2>3, <2>4
<1>4. DBLockExclusive'
    BY <1>1 DEF DBLockExclusive, HasDBLock
<1>5. Keyed' /\ LocalInv'
    BY <1>1 DEF Keyed, LocalInv
<1>6. InputInv'
    BY <1>1 DEF InputInv, HasDBLock, Newer
<1>7. FlooderInv'
  <2> SUFFICES ASSUME NEW i \in Intf, NEW k \in Node
               PROVE  (/\ outPc[i] \in {"scan", "send"} => outScan[i] \subseteq srm[i]
                       /\ outPc[i] = "send" /\ k = outLsp[i].id =>
                            updateDB[Owner[i]][k] = outLsp[i] \/ Pending(i, k))'
    BY DEF FlooderInv
  <2> QED
    BY <1>1, <1>3 DEF FlooderInv
<1>8. NoLostFlood'
  <2> SUFFICES ASSUME NEW i \in Intf, NEW k \in Node
               PROVE  (\/ ~Has(Owner[i], k) \/ k \in srm[i] \/ Pending(i, k)
                       \/ updateDB[Owner[i]][k] \in crossed[i])'
    BY DEF NoLostFlood
  <2>1. CASE i = j /\ k = l.id /\ j = g
    BY <1>1, <1>2, <2>1 DEF Has
  <2>2. CASE i = j /\ k = l.id /\ j # g
    BY <1>1, <2>2
  <2>3. CASE ~(i = j /\ k = l.id)
    <3>1. k \in srm[i] => k \in srm'[i]
      BY <1>1, <2>3
    <3>2. Pending(i, k) => Pending(i, k)' \/ k \in srm'[i]
      BY <1>3, <2>3
    <3> QED
      BY <1>1, <3>1, <3>2 DEF NoLostFlood, Has
  <2> QED
    BY <2>1, <2>2, <2>3
<1> QED
    BY <1>4, <1>5, <1>6, <1>7, <1>8

\* isisUpdateInput takes DBLock for a newer LSP, or finishes with it.
LEMMA InputStepKeeps ==
  ASSUME FloodInv, TypeOK', NEW g \in Intf, InAccept(g) \/ InTrigger(g)
  PROVE  FloodInv'
<1> USE TopologyAssumption DEF FloodInv
<1>1. /\ UNCHANGED <<updateDB, srm, genVars, outVars>>
      /\ \A i \in Intf : crossed[i] \subseteq crossed'[i]
      /\ \A i \in Intf : i # g => /\ inPc'[i] = inPc[i] /\ inTodo'[i] = inTodo[i]
                                  /\ inLsp'[i] = inLsp[i]
      /\ inPc[g] \in {"idle", "trigger"}
  <2>1. CASE InAccept(g)
    BY <2>1 DEF InAccept, Receive, TypeOK
  <2>2. CASE InTrigger(g)
    BY <2>2 DEF InTrigger, TypeOK
  <2> QED
    BY <2>1, <2>2
<1>2. /\ inPc'[g] \in {"insert", "idle"}
      /\ inPc'[g] = "insert" => /\ \A i \in IntfsOf(Owner[g]) : ~HasDBLock(i)
                                /\ inLsp'[g] \in crossed'[g]
                                /\ Newer(inLsp'[g], Owner[g])
  <2>1. CASE InAccept(g)
    BY <2>1 DEF InAccept, Receive, DBLocked, HasDBLock, TypeOK
  <2>2. CASE InTrigger(g)
    BY <2>2 DEF InTrigger, TypeOK
  <2> QED
    BY <2>1, <2>2
<1>3. ASSUME NEW i \in Intf, NEW k \in Node, Pending(i, k) PROVE Pending(i, k)'
    BY <1>1, <1>3 DEF Pending, IntfsOf
<1>4. DBLockExclusive'
    BY <1>1, <1>2 DEF DBLockExclusive, HasDBLock, IntfsOf
<1>5. Keyed' /\ LocalInv'
    BY <1>1 DEF Keyed, LocalInv
<1>6. InputInv'
  <2> SUFFICES ASSUME NEW i \in Intf
               PROVE  (/\ HasDBLock(i) => inLsp[i] \in crossed[i]
                       /\ inPc[i] = "insert" => Newer(inLsp[i], Owner[i])
                       /\ inPc[i] = "flood" => updateDB[Owner[i]][inLsp[i].id] = inLsp[i])'
    BY DEF InputInv
  <2>1. CASE i = g
    BY <1>1, <1>2, <2>1 DEF HasDBLock, Newer
  <2>2. CASE i # g
    BY <1>1, <2>2 DEF InputInv, HasDBLock, Newer
  <2> QED
    BY <2>1, <2>2
<1>7. FlooderInv'
  <2> SUFFICES ASSUME NEW i \in Intf, NEW k \in Node
               PROVE  (/\ outPc[i] \in {"scan", "send"} => outScan[i] \subseteq srm[i]
                       /\ outPc[i] = "send" /\ k = outLsp[i].id =>
                            updateDB[Owner[i]][k] = outLsp[i] \/ Pending(i, k))'
    BY DEF FlooderInv
  <2> QED
    BY <1>1, <1>3 DEF FlooderInv
<1>8. NoLostFlood'
  <2> SUFFICES ASSUME NEW i \in Intf, NEW k \in Node
               PROVE  (\/ ~Has(Owner[i], k) \/ k \in srm[i] \/ Pending(i, k)
                       \/ updateDB[Owner[i]][k] \in crossed[i])'
    BY DEF NoLostFlood
  <2> QED
    BY <1>1, <1>3 DEF NoLostFlood, Has
<1> QED
    BY <1>4, <1>5, <1>6, <1>7, <1>8

\* isisUpdate starts a scan, finds an LSP or misses it: no flag is touched.
LEMMA ScanKeeps ==
  ASSUME FloodInv, TypeOK', NEW g \in Intf,
         OutLock(g) \/ \E k \in Node : OutLookup(g, k) \/ OutMiss(g, k)
  PROVE  FloodInv'
<1> USE TopologyAssumption DEF FloodInv
<1> DEFINE Others == /\ UNCHANGED <<updateDB, srm, genVars, inVars, crossed>>
                     /\ \A i \in Intf : i # g => /\ outPc'[i] = outPc[i]
                                                 /\ outLsp'[i] = outLsp[i]
                                                 /\ outScan'[i] = outScan[i]
<1>1. Others
  <2>1. CASE OutLock(g)
    BY <2>1 DEF OutLock, TypeOK
  <2>2. ASSUME NEW k \in Node, OutLookup(g, k) PROVE Others
    BY <2>2 DEF OutLookup, TypeOK
  <2>3. ASSUME NEW k \in Node, OutMiss(g, k) PROVE Others
    BY <2>3 DEF OutMiss, TypeOK
  <2> HIDE DEF Others
  <2> QED
    BY <2>1, <2>2, <2>3
<1> DEFINE Good == /\ outPc'[g] \in {"scan", "send"} => outScan'[g] \subseteq srm[g]
                   /\ outPc'[g] = "send" => updateDB[Owner[g]][outLsp'[g].id] = outLsp'[g]
<1>2. Good
  <2>1. CASE OutLock(g)
    BY <2>1 DEF OutLock, TypeOK
  <2>2. ASSUME NEW k \in Node, OutLookup(g, k)
        PROVE  Good
    BY <2>2 DEF OutLookup, TypeOK, FlooderInv, Keyed
  <2>3. ASSUME NEW k \in Node, OutMiss(g, k)
        PROVE  Good
    BY <2>3 DEF OutMiss, TypeOK, FlooderInv
  <2> QED
    BY <2>1, <2>2, <2>3
<1>3. \A i \in Intf, k \in Node : Pending(i, k) <=> Pending(i, k)'
    BY <1>1 DEF Pending
<1>4. DBLockExclusive' /\ Keyed' /\ LocalInv'
    BY <1>1 DEF DBLockExclusive, HasDBLock, Keyed, LocalInv
<1>5. InputInv'
    BY <1>1 DEF InputInv, HasDBLock, Newer
<1>6. FlooderInv'
  <2> SUFFICES ASSUME NEW i \in Intf, NEW k \in Node
               PROVE  (/\ outPc[i] \in {"scan", "send"} => outScan[i] \subseteq srm[i]
                       /\ outPc[i] = "send" /\ k = outLsp[i].id =>
                            updateDB[Owner[i]][k] = outLsp[i] \/ Pending(i, k))'
    BY DEF FlooderInv
  <2> QED
    BY <1>1, <1>2, <1>3 DEF FlooderInv
<1>7. NoLostFlood'
  <2> SUFFICES ASSUME NEW i \in Intf, NEW k \in Node
               PROVE  (\/ ~Has(Owner[i], k) \/ k \in srm[i] \/ Pending(i, k)
                       \/ updateDB[Owner[i]][k] \in crossed[i])'
    BY DEF NoLostFlood
  <2> QED
    BY <1>1, <1>3 DEF NoLostFlood, Has
<1> QED
    BY <1>4, <1>5, <1>6, <1>7

\* isisUpdate sends and clears the flag: what it sent is current, or the flag
\* will be set again.
LEMMA OutSendKeeps ==
  ASSUME FloodInv, TypeOK', NEW g \in Intf, OutSend(g)
  PROVE  FloodInv'
<1> USE TopologyAssumption DEF FloodInv
<1>1. /\ UNCHANGED <<updateDB, genVars, inVars>>
      /\ \A i \in Intf : i # g => /\ outPc'[i] = outPc[i] /\ outLsp'[i] = outLsp[i]
                                  /\ outScan'[i] = outScan[i] /\ srm'[i] = srm[i]
                                  /\ crossed'[i] = crossed[i]
      /\ srm'[g] = srm[g] \ {outLsp[g].id}
      /\ outScan'[g] = outScan[g] \ {outLsp[g].id}
      /\ crossed'[g] = crossed[g] \cup {outLsp[g]}
      /\ outPc[g] = "send" /\ outPc'[g] \in {"sleep", "scan"}
    BY DEF OutSend, TypeOK
<1>2. \A i \in Intf : crossed[i] \subseteq crossed'[i]
    BY <1>1
<1>3. \A i \in Intf, k \in Node : Pending(i, k) <=> Pending(i, k)'
    BY <1>1 DEF Pending
<1>4. DBLockExclusive' /\ Keyed' /\ LocalInv'
    BY <1>1 DEF DBLockExclusive, HasDBLock, Keyed, LocalInv
<1>5. InputInv'
    BY <1>1, <1>2 DEF InputInv, HasDBLock, Newer
<1>6. FlooderInv'
  <2> SUFFICES ASSUME NEW i \in Intf, NEW k \in Node
               PROVE  (/\ outPc[i] \in {"scan", "send"} => outScan[i] \subseteq srm[i]
                       /\ outPc[i] = "send" /\ k = outLsp[i].id =>
                            updateDB[Owner[i]][k] = outLsp[i] \/ Pending(i, k))'
    BY DEF FlooderInv
  <2>1. CASE i = g
    BY <1>1, <2>1 DEF FlooderInv
  <2>2. CASE i # g
    BY <1>1, <1>3, <2>2 DEF FlooderInv
  <2> QED
    BY <2>1, <2>2
<1>7. NoLostFlood'
  <2> SUFFICES ASSUME NEW i \in Intf, NEW k \in Node
               PROVE  (\/ ~Has(Owner[i], k) \/ k \in srm[i] \/ Pending(i, k)
                       \/ updateDB[Owner[i]][k] \in crossed[i])'
    BY DEF NoLostFlood
  <2>1. CASE i = g /\ k = outLsp[g].id
    <3>1. updateDB[Owner[g]][k] = outLsp[g] \/ Pending(g, k)
      BY <1>1, <2>1 DEF FlooderInv
    <3> QED
      BY <1>1, <1>3, <2>1, <3>1
  <2>2. CASE ~(i = g /\ k = outLsp[g].id)
    BY <1>1, <1>2, <1>3, <2>2 DEF NoLostFlood, Has
  <2> QED
    BY <2>1, <2>2
<1> QED
    BY <1>4, <1>5, <1>6, <1>7

\* A node that restarts holds nothing, has no lock and is on its way nowhere;
\* the goroutines of the other nodes do not see it.
LEMMA RestartKeeps ==
  ASSUME FloodInv, TypeOK', NEW r \in Node, Restart(r)
  PROVE  FloodInv'
<1> USE TopologyAssumption DEF FloodInv
<1>1. ASSUME NEW i \in Intf, Owner[i] = r
      PROVE  /\ genPc'[i] = "idle" /\ inPc'[i] = "idle" /\ outPc'[i] = "sleep"
             /\ genLsp'[i] = Absent(r)
    BY <1>1 DEF Restart, Reset, IntfsOf
<1>2. ASSUME NEW i \in Intf, Owner[i] # r
      PROVE  /\ genPc'[i] = genPc[i] /\ genTodo'[i] = genTodo[i] /\ genLsp'[i] = genLsp[i]
             /\ inPc'[i] = inPc[i] /\ inTodo'[i] = inTodo[i] /\ inLsp'[i] = inLsp[i]
             /\ outPc'[i] = outPc[i] /\ outLsp'[i] = outLsp[i] /\ outScan'[i] = outScan[i]
             /\ srm'[i] = srm[i] /\ crossed'[i] = crossed[i]
    BY <1>2 DEF Restart, Reset, IntfsOf
<1>3. \A k \in Node : updateDB'[r][k] = Absent(k)
    BY DEF Restart, TypeOK
<1>4. \A n \in Node : n # r => updateDB'[n] = updateDB[n]
    BY DEF Restart, TypeOK
<1>5. \A i \in Intf : Owner[i] \in Node
    OBVIOUS
<1>6. ASSUME NEW i \in Intf, NEW k \in Node, Owner[i] # r, Pending(i, k)
      PROVE  Pending(i, k)'
    BY <1>2, <1>6 DEF Pending, IntfsOf
<1>7. DBLockExclusive'
    BY <1>1, <1>2 DEF DBLockExclusive, HasDBLock
<1>8. Keyed'
    BY <1>3, <1>4, AbsentType DEF Keyed
<1>9. InputInv'
    BY <1>1, <1>2, <1>4, <1>5 DEF InputInv, HasDBLock, Newer
<1>10. LocalInv'
    BY <1>1, <1>2 DEF LocalInv, Absent
<1>11. FlooderInv'
    BY <1>1, <1>2, <1>4, <1>5, <1>6 DEF FlooderInv
<1>12. NoLostFlood'
  <2> SUFFICES ASSUME NEW i \in Intf, NEW k \in Node
               PROVE  (\/ ~Has(Owner[i], k)
                       \/ k \in srm[i]
                       \/ Pending(i, k)
                       \/ updateDB[Owner[i]][k] \in crossed[i])'
    BY DEF NoLostFlood
  <2>1. CASE Owner[i] = r
    <3>1. updateDB'[Owner[i]][k] = Absent(k)
      BY <1>3, <2>1
    <3>2. Absent(k).seq = 0
      BY DEF Absent
    <3> QED
      BY <3>1, <3>2 DEF Has
  <2>2. CASE Owner[i] # r
    BY <1>2, <1>4, <1>5, <1>6, <2>2 DEF NoLostFlood, Has
  <2> QED
    BY <2>1, <2>2
<1> QED
    BY <1>7, <1>8, <1>9, <1>10, <1>11, <1>12

-----------------------------------------------------------------------------
\* Nothing is held, locked or under way in the initial state.
LEMMA InitFlood == Init => FloodInv
<1> SUFFICES ASSUME Init PROVE FloodInv
    OBVIOUS
<1>1. TypeOK
    BY InitType
<1>2. \A k \in Node : Absent(k).id = k /\ Absent(k).seq = 0
    BY DEF Absent
<1>3. DBLockExclusive /\ InputInv /\ FlooderInv
    BY DEF Init, DBLockExclusive, InputInv, FlooderInv, HasDBLock
<1>4. Keyed
    BY <1>2 DEF Init, Keyed
<1>5. LocalInv
    BY <1>2, TopologyAssumption DEF Init, LocalInv
<1>6. NoLostFlood
  <2> SUFFICES ASSUME NEW i \in Intf, NEW k \in Node PROVE ~Has(Owner[i], k)
    BY DEF NoLostFlood
  <2>1. updateDB[Owner[i]][k] = Absent(k)
    BY TopologyAssumption DEF Init
  <2> QED
    BY <1>2, <2>1 DEF Has
<1> QED
    BY <1>1, <1>3, <1>4, <1>5, <1>6 DEF FloodInv

\* Every step of every goroutine keeps the invariant.
LEMMA StepFlood == FloodInv /\ [Next]_vars => FloodInv'
<1> SUFFICES ASSUME FloodInv, [Next]_vars PROVE FloodInv'
    OBVIOUS
<1>1. TypeOK'
    BY StepType DEF FloodInv
<1>2. CASE Quiet
    BY <1>1, <1>2, QuietKeeps
<1>3. ASSUME NEW i \in Intf, GenInsert(i) PROVE FloodInv'
    BY <1>1, <1>3, GenInsertKeeps
<1>4. ASSUME NEW i \in Intf, InInsert(i) PROVE FloodInv'
    BY <1>1, <1>4, InInsertKeeps
<1>5. ASSUME NEW i \in Intf, InAccept(i) \/ InTrigger(i) PROVE FloodInv'
    BY <1>1, <1>5, InputStepKeeps
<1>6. ASSUME NEW i \in Intf, NEW j \in Intf, GenFlood(i, j) PROVE FloodInv'
    BY <1>1, <1>6, GenFloodKeeps
<1>7. ASSUME NEW i \in Intf, NEW j \in Intf, InFlood(i, j) PROVE FloodInv'
    BY <1>1, <1>7, InFloodKeeps
<1>8. ASSUME NEW i \in Intf, OutLock(i) \/ \E k \in Node : OutLookup(i, k) \/ OutMiss(i, k)
      PROVE  FloodInv'
    BY <1>1, <1>8, ScanKeeps
<1>9. ASSUME NEW i \in Intf, OutSend(i) PROVE FloodInv'
    BY <1>1, <1>9, OutSendKeeps
<1>10. ASSUME NEW n \in Node, Restart(n) PROVE FloodInv'
    BY <1>1, <1>10, RestartKeeps
<1>11. TypeOK /\ LocalInv
    BY DEF FloodInv
<1> QED
    BY <1>2, <1>3, <1>4, <1>5, <1>6, <1>7, <1>8, <1>9, <1>10, <1>11, StepCases

\* The inductive invariant holds in every reachable state.
THEOREM FloodInvariant == Spec => []FloodInv
    BY InitFlood, StepFlood, PTL DEF Spec

\* In every network, whatever the goroutines interleave: no LSP that entered
\* a node's UpdateDB is forgotten on one of its interfaces, although isisUpdate
\* looks LSPs up without DBLock and clears SRM after the send.
THEOREM FloodingNeverForgets == Spec => []NoLostFlood
<1>1. FloodInv => NoLostFlood
    BY DEF FloodInv
<1> QED
    BY <1>1, FloodInvariant, PTL

\* How a step changes a database: a node files what it generated or what it
\* received and found newer, or it restarts.
LEMMA StepFiles ==
  ASSUME FloodInv, [Next]_vars
  PROVE  \/ UNCHANGED <<updateDB, issued>>
         \/ \E g \in Intf : GenInsert(g)
         \/ \E g \in Intf : InInsert(g)
         \/ \E n \in Node : Restart(n)
<1> USE DEF FloodInv
<1>1. \/ UNCHANGED issued
      \/ \E g \in Intf : GenInsert(g)
    BY DEF Next, vars, HelloUp, UpdateInput, Flooder, AdjBegin, AdjEnd, GenLoad, GenStore,
           GenBuild, GenFlood, InAccept, InDiscard, InInsert, InFlood, InTrigger, Receive,
           Decision, OutLock, OutLookup, OutMiss, OutSend, Lose, Restart
<1>2. CASE Quiet
    BY <1>1, <1>2 DEF Quiet
<1> QED
    BY <1>1, <1>2, StepCases
    DEF InAccept, InTrigger, OutLock, OutSend, GenFlood, InFlood, OutLookup, OutMiss

\* In every network isisUpdateInput replaces a copy of another node's LSP only
\* by one with a larger sequence number; a restart drops all copies together.
THEOREM RemoteLspsGrow == Spec => RemoteLspsOnlyGrow
<1>1. FloodInv /\ [Next]_vars =>
        [\A n, k \in Node :
           k # n /\ updateDB'[n][k] # updateDB[n][k]
             => \/ updateDB[n][k].seq < updateDB'[n][k].seq
                \/ updateDB'[n] = [m \in Node |-> Absent(m)]]_vars
  <2> SUFFICES ASSUME FloodInv, [Next]_vars, NEW n \in Node, NEW k \in Node,
                      k # n, updateDB'[n][k] # updateDB[n][k]
               PROVE  \/ updateDB[n][k].seq < updateDB'[n][k].seq
                      \/ updateDB'[n] = [m \in Node |-> Absent(m)]
    OBVIOUS
  <2> USE TopologyAssumption DEF FloodInv
  <2>1. ASSUME NEW g \in Intf, GenInsert(g) PROVE FALSE
    BY <2>1 DEF GenInsert, TypeOK
  <2>2. ASSUME NEW g \in Intf, InInsert(g) PROVE updateDB[n][k].seq < updateDB'[n][k].seq
    BY <2>2 DEF InInsert, InputInv, Newer, TypeOK, Lsp
  <2>3. ASSUME NEW r \in Node, Restart(r) PROVE updateDB'[n] = [m \in Node |-> Absent(m)]
    BY <2>3 DEF Restart, TypeOK
  <2> QED
    BY <2>1, <2>2, <2>3, StepFiles
<1> QED
    BY <1>1, FloodInvariant, PTL DEF Spec, RemoteLspsOnlyGrow

-----------------------------------------------------------------------------
(* The refinement.                                                         *)

\* The originator of l has issued l.
Issued(l) == l \in issued[l.id]

\* Whatever is in a database or under way between two of them was issued by
\* its originator, and generateLocalLsp numbers from 1.
OriginInv ==
  /\ \A i \in Intf : \A x \in 1..Len(wire[i]) : Issued(wire[i][x])
  /\ \A i \in Intf : HasDBLock(i) => Issued(inLsp[i])
  /\ \A i \in Intf : outPc[i] = "send" => Issued(outLsp[i])
  /\ \A n, k \in Node : Has(n, k) => Issued(updateDB[n][k])
  /\ \A i \in Intf : genPc[i] = "build" => sequenceNumber[Owner[i]] > 0
  /\ \A i \in Intf : genPc[i] = "insert" => genLsp[i].seq > 0

\* How a step moves LSPs: a receive queue loses its head or gains what some
\* isisUpdate sends or is new and empty, and a goroutine's LSP comes from the
\* queue or the database.
Moves ==
  /\ \A k \in Node : issued[k] \subseteq issued'[k]
  /\ \A i \in Intf :
       \/ wire'[i] = wire[i]
       \/ wire'[i] = <<>>
       \/ wire[i] # <<>> /\ wire'[i] = Tail(wire[i])
       \/ \E g \in Intf : OutSend(g) /\ wire'[i] = Append(wire[i], outLsp[g])
  /\ \A i \in Intf : HasDBLock(i)' =>
       \/ HasDBLock(i) /\ inLsp'[i] = inLsp[i]
       \/ wire[i] # <<>> /\ inLsp'[i] = Head(wire[i])
  /\ \A i \in Intf : outPc'[i] = "send" =>
       \/ outPc[i] = "send" /\ outLsp'[i] = outLsp[i]
       \/ \E k \in Node : Has(Owner[i], k) /\ outLsp'[i] = updateDB[Owner[i]][k]

\* Every step moves LSPs in one of the ways Moves lists.
LEMMA StepMoves == ASSUME TypeOK, [Next]_vars PROVE Moves
<1> USE TopologyAssumption DEF TypeOK, Moves, HasDBLock
<1>1. ASSUME NEW i \in Intf, AdjBegin(i) PROVE Moves
    BY <1>1 DEF AdjBegin
<1>2. ASSUME NEW i \in Intf, AdjEnd(i) PROVE Moves
    BY <1>2 DEF AdjEnd
<1>3. ASSUME NEW i \in Intf, GenLoad(i) PROVE Moves
    BY <1>3 DEF GenLoad
<1>4. ASSUME NEW i \in Intf, GenStore(i) PROVE Moves
    BY <1>4 DEF GenStore
<1>5. ASSUME NEW i \in Intf, GenBuild(i) PROVE Moves
    BY <1>5 DEF GenBuild
<1>6. ASSUME NEW i \in Intf, GenInsert(i) PROVE Moves
    BY <1>6 DEF GenInsert
<1>7. ASSUME NEW i \in Intf, NEW j \in Intf, GenFlood(i, j) PROVE Moves
    BY <1>7 DEF GenFlood
<1>8. ASSUME NEW i \in Intf, InAccept(i) PROVE Moves
    BY <1>8 DEF InAccept, Receive
<1>9. ASSUME NEW i \in Intf, InDiscard(i) PROVE Moves
    BY <1>9 DEF InDiscard, Receive
<1>10. ASSUME NEW i \in Intf, InInsert(i) PROVE Moves
    BY <1>10 DEF InInsert
<1>11. ASSUME NEW i \in Intf, NEW j \in Intf, InFlood(i, j) PROVE Moves
    BY <1>11 DEF InFlood
<1>12. ASSUME NEW i \in Intf, InTrigger(i) PROVE Moves
    BY <1>12 DEF InTrigger
<1>13. ASSUME NEW n \in Node, Decision(n) PROVE Moves
    BY <1>13 DEF Decision
<1>14. ASSUME NEW i \in Intf, OutLock(i) PROVE Moves
    BY <1>14 DEF OutLock
<1>15. ASSUME NEW i \in Intf, NEW k \in Node, OutLookup(i, k) PROVE Moves
    BY <1>15 DEF OutLookup
<1>16. ASSUME NEW i \in Intf, NEW k \in Node, OutMiss(i, k) PROVE Moves
    BY <1>16 DEF OutMiss
<1>17. ASSUME NEW i \in Intf, OutSend(i) PROVE Moves
    BY <1>17 DEF OutSend
<1>18. ASSUME NEW i \in Intf, Lose(i) PROVE Moves
    BY <1>18 DEF Lose
<1>20. ASSUME NEW n \in Node, Restart(n) PROVE Moves
    BY <1>20 DEF Restart, Reset, IntfsOf
<1>19. CASE UNCHANGED vars
    BY <1>19 DEF vars
<1> QED
    BY <1>1, <1>2, <1>3, <1>4, <1>5, <1>6, <1>7, <1>8, <1>9, <1>10, <1>11, <1>12,
       <1>13, <1>14, <1>15, <1>16, <1>17, <1>18, <1>19, <1>20
    DEF Next, HelloUp, UpdateInput, Flooder

\* What was issued stays issued.
LEMMA IssuedStays ==
  ASSUME TypeOK, [Next]_vars, NEW l \in Lsp, Issued(l)
  PROVE  Issued(l)'
<1>1. \A k \in Node : issued[k] \subseteq issued'[k]
    BY StepMoves DEF Moves
<1>2. l.id \in Node
    BY DEF Lsp
<1> QED
    BY <1>1, <1>2 DEF Issued

\* sequenceNumber has been incremented when generateLocalLsp reads it.
LEMMA StepNumbers ==
  ASSUME TypeOK, OriginInv, [Next]_vars, NEW i \in Intf
  PROVE  /\ genPc'[i] = "build" => sequenceNumber'[Owner[i]] > 0
         /\ genPc'[i] = "insert" => genLsp'[i].seq > 0
<1> USE TopologyAssumption DEF TypeOK, OriginInv
<1> DEFINE Goal == /\ genPc'[i] = "build" => sequenceNumber'[Owner[i]] > 0
                   /\ genPc'[i] = "insert" => genLsp'[i].seq > 0
<1>1. ASSUME NEW g \in Intf, GenStore(g) PROVE Goal
    BY <1>1 DEF GenStore
<1>2. ASSUME NEW g \in Intf, GenBuild(g) PROVE Goal
  <2>1. CASE g = i
    BY <1>2, <2>1 DEF GenBuild
  <2>2. CASE g # i
    BY <1>2, <2>2 DEF GenBuild
  <2> QED
    BY <2>1, <2>2
<1>3. ASSUME NEW g \in Intf, AdjBegin(g) \/ AdjEnd(g) \/ GenLoad(g) \/ GenInsert(g) PROVE Goal
    BY <1>3 DEF AdjBegin, AdjEnd, GenLoad, GenInsert
<1>4. ASSUME NEW g \in Intf, NEW j \in Intf, GenFlood(g, j) PROVE Goal
    BY <1>4 DEF GenFlood
<1>5. ASSUME NEW n \in Node, Restart(n) PROVE Goal
    BY <1>5 DEF Restart, Reset, IntfsOf
<1>6. CASE UNCHANGED <<genVars, sequenceNumber>>
    BY <1>6
<1>7. ASSUME NEW g \in Intf, UpdateInput(g) \/ Flooder(g) \/ Lose(g)
      PROVE  UNCHANGED <<genVars, sequenceNumber>>
    BY <1>7 DEF UpdateInput, Flooder, InAccept, InDiscard, InInsert, InFlood, InTrigger,
                OutLock, OutLookup, OutMiss, OutSend, Lose
<1>8. ASSUME NEW n \in Node, Decision(n) PROVE UNCHANGED <<genVars, sequenceNumber>>
    BY <1>8 DEF Decision
<1>9. CASE UNCHANGED vars
    BY <1>6, <1>9 DEF vars
<1> HIDE DEF TypeOK, OriginInv
<1>10. ASSUME NEW g \in Intf, HelloUp(g) PROVE Goal
    BY <1>1, <1>2, <1>3, <1>4, <1>10 DEF HelloUp
<1>11. ASSUME NEW g \in Intf, UpdateInput(g) \/ Flooder(g) \/ Lose(g) PROVE Goal
    BY <1>6, <1>7, <1>11
<1>12. ASSUME NEW n \in Node, Decision(n) PROVE Goal
    BY <1>6, <1>8, <1>12
<1> QED
    BY <1>3, <1>5, <1>9, <1>10, <1>11, <1>12 DEF Next

\* Every step keeps what is held and under way traceable to its originator.
LEMMA StepOrigin == FloodInv /\ OriginInv /\ [Next]_vars => OriginInv'
<1> SUFFICES ASSUME FloodInv, OriginInv, [Next]_vars PROVE OriginInv'
    OBVIOUS
<1> USE TopologyAssumption DEF FloodInv
<1>1. TypeOK'
    BY StepType
<1>2. ASSUME NEW i \in Intf, NEW x \in 1..Len(wire'[i]) PROVE Issued(wire[i][x])'
  <2>0. wire[i] \in Seq(Lsp) /\ wire'[i] \in Seq(Lsp)
    BY <1>1 DEF TypeOK
  <2>1. CASE wire'[i] = wire[i]
    BY <2>0, <2>1, IssuedStays DEF OriginInv, Issued
  <2>2. CASE wire[i] # <<>> /\ wire'[i] = Tail(wire[i])
    <3>1. x + 1 \in 1..Len(wire[i]) /\ wire'[i][x] = wire[i][x + 1]
      BY <2>0, <2>2
    <3>2. Issued(wire[i][x + 1]) /\ wire[i][x + 1] \in Lsp
      BY <2>0, <3>1 DEF OriginInv
    <3> QED
      BY <3>1, <3>2, IssuedStays DEF Issued
  <2>3. ASSUME NEW g \in Intf, OutSend(g), wire'[i] = Append(wire[i], outLsp[g])
        PROVE  Issued(wire[i][x])'
    <3>1. CASE x \in 1..Len(wire[i])
      <4>1. wire'[i][x] = wire[i][x] /\ wire[i][x] \in Lsp
        BY <2>0, <2>3, <3>1 DEF TypeOK
      <4> QED
        BY <3>1, <4>1, IssuedStays DEF OriginInv, Issued
    <3>2. CASE x \notin 1..Len(wire[i])
      <4>1. wire'[i][x] = outLsp[g] /\ outLsp[g] \in Lsp
        BY <2>0, <2>3, <3>2 DEF TypeOK
      <4>2. Issued(outLsp[g])
        BY <2>3 DEF OutSend, OriginInv
      <4> QED
        BY <4>1, <4>2, IssuedStays DEF Issued
    <3> QED
      BY <3>1, <3>2
  <2>4. CASE wire'[i] = <<>>
    BY <2>4
  <2>5. \/ wire'[i] = wire[i]
        \/ wire'[i] = <<>>
        \/ wire[i] # <<>> /\ wire'[i] = Tail(wire[i])
        \/ \E g \in Intf : OutSend(g) /\ wire'[i] = Append(wire[i], outLsp[g])
    BY StepMoves DEF Moves
  <2> QED
    BY <2>1, <2>2, <2>3, <2>4, <2>5
<1>3. ASSUME NEW i \in Intf, HasDBLock(i)' PROVE Issued(inLsp[i])'
  <2>1. CASE HasDBLock(i) /\ inLsp'[i] = inLsp[i]
    <3>1. inLsp[i] \in Lsp /\ Issued(inLsp[i])
      BY <2>1 DEF OriginInv, TypeOK
    <3> QED
      BY <2>1, <3>1, IssuedStays DEF Issued
  <2>2. CASE wire[i] # <<>> /\ inLsp'[i] = Head(wire[i])
    <3>1. wire[i] \in Seq(Lsp)
      BY DEF TypeOK
    <3>2. 1 \in 1..Len(wire[i]) /\ inLsp'[i] = wire[i][1] /\ wire[i][1] \in Lsp
      BY <2>2, <3>1
    <3> QED
      BY <3>2, IssuedStays DEF OriginInv, Issued
  <2>3. \/ HasDBLock(i) /\ inLsp'[i] = inLsp[i]
        \/ wire[i] # <<>> /\ inLsp'[i] = Head(wire[i])
    BY <1>3, StepMoves DEF Moves
  <2> QED
    BY <2>1, <2>2, <2>3
<1>4. ASSUME NEW i \in Intf, outPc'[i] = "send" PROVE Issued(outLsp[i])'
  <2>1. CASE outPc[i] = "send" /\ outLsp'[i] = outLsp[i]
    <3>1. outLsp[i] \in Lsp
      BY DEF TypeOK
    <3> QED
      BY <2>1, <3>1, IssuedStays DEF OriginInv, Issued
  <2>2. ASSUME NEW k \in Node, Has(Owner[i], k), outLsp'[i] = updateDB[Owner[i]][k]
        PROVE  Issued(outLsp[i])'
    <3>1. updateDB[Owner[i]][k] \in Lsp /\ Issued(updateDB[Owner[i]][k])
      BY <2>2 DEF TypeOK, OriginInv
    <3> QED
      BY <2>2, <3>1, IssuedStays DEF Issued
  <2>3. \/ outPc[i] = "send" /\ outLsp'[i] = outLsp[i]
        \/ \E k \in Node : Has(Owner[i], k) /\ outLsp'[i] = updateDB[Owner[i]][k]
    BY <1>4, StepMoves DEF Moves
  <2> QED
    BY <2>1, <2>2, <2>3
<1>5. ASSUME NEW n \in Node, NEW k \in Node, Has(n, k)' PROVE Issued(updateDB[n][k])'
  <2>1. CASE updateDB'[n][k] = updateDB[n][k]
    <3>1. updateDB[n][k] \in Lsp /\ Issued(updateDB[n][k])
      BY <1>5, <2>1 DEF Has, TypeOK, OriginInv
    <3> QED
      BY <2>1, <3>1, IssuedStays DEF Issued
  <2>2. ASSUME NEW g \in Intf, GenInsert(g), updateDB'[n][k] # updateDB[n][k]
        PROVE  Issued(updateDB[n][k])'
    <3>1. genLsp[g].id = Owner[g] /\ genLsp[g] \in issued'[Owner[g]]
      BY <2>2 DEF GenInsert, TypeOK, LocalInv
    <3> QED
      BY <2>2, <3>1 DEF GenInsert, TypeOK, Issued
  <2>3. ASSUME NEW g \in Intf, InInsert(g), updateDB'[n][k] # updateDB[n][k]
        PROVE  Issued(updateDB[n][k])'
    <3>1. updateDB'[n][k] = inLsp[g]
      BY <2>3 DEF InInsert, TypeOK, Lsp
    <3>2. Issued(inLsp[g]) /\ inLsp[g] \in Lsp
      BY <2>3 DEF InInsert, OriginInv, HasDBLock, TypeOK
    <3> QED
      BY <3>1, <3>2, IssuedStays DEF Issued
  <2>4. ASSUME NEW r \in Node, Restart(r), updateDB'[n][k] # updateDB[n][k] PROVE FALSE
    BY <1>5, <2>4 DEF Restart, TypeOK, Has, Absent
  <2> QED
    BY <2>1, <2>2, <2>3, <2>4, StepFiles
<1>6. ASSUME NEW i \in Intf
      PROVE  /\ genPc'[i] = "build" => sequenceNumber'[Owner[i]] > 0
             /\ genPc'[i] = "insert" => genLsp'[i].seq > 0
    BY StepNumbers
<1> QED
    BY <1>2, <1>3, <1>4, <1>5, <1>6 DEF OriginInv

\* All that is held or under way was issued, in every reachable state.
THEOREM OriginInvariant == Spec => []OriginInv
<1>1. Init => OriginInv
  <2>1. \A k \in Node : Absent(k).seq = 0
    BY DEF Absent
  <2> QED
    BY <2>1, TopologyAssumption DEF Init, OriginInv, HasDBLock, Has
<1>2. FloodInv /\ OriginInv /\ [Next]_vars => OriginInv'
    BY StepOrigin
<1> QED
    BY <1>1, <1>2, FloodInvariant, PTL DEF Spec

\* A step of the goroutines is a step of the abstract store, or invisible in it.
LEMMA StepRefines ==
  ASSUME FloodInv, OriginInv, [Next]_vars
  PROVE  [LS!Next]_(LS!vars)
<1> USE TopologyAssumption DEF FloodInv
<1>1. ASSUME NEW g \in Intf, GenInsert(g) PROVE LS!Originate(Owner[g])
  <2>1. genLsp[g] \in LS!Version(Owner[g])
    BY <1>1 DEF GenInsert, TypeOK, Lsp, LocalInv, OriginInv, LS!Version
  <2>2. updateDB'[Owner[g]][Owner[g]] = genLsp[g]
    BY <1>1 DEF GenInsert, TypeOK
  <2> QED
    BY <1>1, <2>1, <2>2 DEF GenInsert, LS!Originate
<1>2. ASSUME NEW g \in Intf, InInsert(g) PROVE LS!Adopt(Owner[g], inLsp[g].id)
  <2>1. inLsp[g] \in issued[inLsp[g].id]
    BY <1>2 DEF InInsert, OriginInv, HasDBLock, Issued
  <2>2. updateDB[Owner[g]][inLsp[g].id].seq < inLsp[g].seq
    BY <1>2 DEF InInsert, InputInv, Newer
  <2> QED
    BY <1>2, <2>1, <2>2 DEF InInsert, LS!Adopt
<1>3. ASSUME NEW n \in Node, Restart(n) PROVE LS!Forget(n)
    BY <1>3 DEF Restart, LS!Forget, LS!Nothing, LS!Absent, Absent
<1>4. CASE UNCHANGED <<updateDB, issued>>
    BY <1>4 DEF LS!vars
<1>5. \A g \in Intf : Owner[g] \in Node /\ inLsp[g].id \in Node
    BY DEF TypeOK, Lsp
<1> QED
    BY <1>1, <1>2, <1>3, <1>4, <1>5, StepFiles DEF LS!Next

\* The update process implements the abstract link-state store in every
\* network: whatever queues, flags and goroutines do, and through losses and
\* restarts, databases change only by issuing, adopting a newer issued version
\* and forgetting all.
THEOREM UpdateImplementsLinkState == Spec => ImplementsLinkState
<1>1. Init => LS!Init
    BY DEF Init, LS!Init, LS!Nothing, LS!Absent, Absent
<1>2. FloodInv /\ OriginInv /\ [Next]_vars => [LS!Next]_(LS!vars)
    BY StepRefines
<1> QED
    BY <1>1, <1>2, FloodInvariant, OriginInvariant, PTL DEF Spec, ImplementsLinkState, LS!Spec
=============================================================================
