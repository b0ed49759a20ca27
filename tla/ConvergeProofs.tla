--------------------------- MODULE ConvergeProofs ---------------------------
(***************************************************************************)
(* Flooding converges on every network: UpdateProcess's                    *)
(* LinksAgreeWhenQuiet.                                                    *)
(*                                                                         *)
(* On top of UpdateProofs it takes two invariants.  SerialInv: the calls   *)
(* of generateLocalLsp that do not overlap number their LSPs upwards, so   *)
(* that a number stands for one LSP.  DeliveredInv: while nothing is lost, *)
(* an LSP that crossed one interface of a segment waits at, is being filed *)
(* by, or is covered by the database of every other.                       *)
(***************************************************************************)
EXTENDS UpdateProofs

USE DEF genVars, inVars, outVars, dbVars, histVars

-----------------------------------------------------------------------------
(* Numbers                                                                 *)

SerialInv ==
  /\ \A i, j \in Intf : Owner[i] = Owner[j] /\ ~Ambiguous(Owner[i])
                          /\ genPc[i] # "idle" /\ genPc[j] # "idle" => i = j
  /\ \A i \in Intf : ~Ambiguous(Owner[i]) =>
       /\ genPc[i] = "store" => genTmp[i] = sequenceNumber[Owner[i]]
       /\ genPc[i] = "build" => genTmp[i] + 1 = sequenceNumber[Owner[i]]
       /\ genPc[i] = "insert" => genLsp[i].seq = sequenceNumber[Owner[i]]
       /\ genPc[i] \in {"build", "insert"} =>
            \A l \in issued[Owner[i]] : l.seq < sequenceNumber[Owner[i]]
  /\ \A n \in Node : ~Ambiguous(n) =>
       /\ \A l \in issued[n] : l.seq <= sequenceNumber[n]
       /\ \A l, m \in issued[n] : l.seq = m.seq => l = m

LEMMA InitSerial == Init => SerialInv
BY TopologyAssumption DEF Init, SerialInv

\* A node that stays unambiguous was so before; a restart or a second call ends it.
LEMMA StepAmbiguous ==
  ASSUME TypeOK, [Next]_vars, NEW n \in Node, ~Ambiguous(n)'
  PROVE  ~Ambiguous(n)
<1> USE TopologyAssumption DEF TypeOK
<1>1. ASSUME NEW i \in Intf, AdjBegin(i) PROVE (overlap[n] => overlap'[n]) /\ restarts' = restarts
  <2>1. overlap' = [overlap EXCEPT ![Owner[i]] = overlap[Owner[i]] \/ \E j \in IntfsOf(Owner[i]) : genPc[j] # "idle"]
    BY <1>1 DEF AdjBegin
  <2>2. restarts' = restarts
    BY <1>1 DEF AdjBegin
  <2> QED
    BY <2>1, <2>2
<1>2. ASSUME NEW r \in Node, Restart(r) PROVE overlap' = overlap /\ restarts[n] <= restarts'[n]
  BY <1>2 DEF Restart
<1>3. \/ UNCHANGED <<overlap, restarts>>
      \/ \E i \in Intf : AdjBegin(i)
      \/ \E r \in Node : Restart(r)
  <2>1. ASSUME NEW i \in Intf, HelloUp(i) PROVE UNCHANGED <<overlap, restarts>>
    BY <2>1 DEF HelloUp, AdjEnd, GenLoad, GenStore, GenBuild, GenInsert, GenFlood
  <2>2. ASSUME NEW i \in Intf, UpdateInput(i) PROVE UNCHANGED <<overlap, restarts>>
    BY <2>2 DEF UpdateInput, InAccept, InDiscard, InInsert, InFlood, InTrigger
  <2>3. ASSUME NEW i \in Intf, Flooder(i) \/ Lose(i) PROVE UNCHANGED <<overlap, restarts>>
    BY <2>3 DEF Flooder, OutLock, OutLookup, OutMiss, OutSend, Lose
  <2>4. ASSUME NEW m \in Node, Decision(m) PROVE UNCHANGED <<overlap, restarts>>
    BY <2>4 DEF Decision
  <2>5. CASE UNCHANGED vars
    BY <2>5 DEF vars
  <2> QED
    BY <2>1, <2>2, <2>3, <2>4, <2>5 DEF Next
<1>4. restarts[n] \in Nat /\ restarts'[n] \in Nat
    BY StepType
<1> QED
    BY <1>1, <1>2, <1>3, <1>4 DEF Ambiguous

\* Every step keeps the numbers of a node without overlapping calls in order.
LEMMA StepSerial == TypeOK /\ SerialInv /\ [Next]_vars => SerialInv'
<1> SUFFICES ASSUME TypeOK, SerialInv, [Next]_vars PROVE SerialInv'
    OBVIOUS
<1> USE TopologyAssumption
<1>1. TypeOK'
    BY StepType
<1>2. \A n \in Node : ~Ambiguous(n)' => ~Ambiguous(n)
    BY StepAmbiguous
<1>3. CASE UNCHANGED <<genVars, sequenceNumber, issued>>
    BY <1>2, <1>3 DEF SerialInv
<1>4. ASSUME NEW g \in Intf, AdjBegin(g) PROVE SerialInv'
  <2>1. /\ genPc' = [genPc EXCEPT ![g] = "adj"]
        /\ UNCHANGED <<genTmp, genLsp, sequenceNumber, issued>>
    BY <1>4 DEF AdjBegin
  <2>2. ~Ambiguous(Owner[g])' => \A j \in Intf : Owner[j] = Owner[g] => genPc[j] = "idle"
    <3>1. overlap' = [overlap EXCEPT ![Owner[g]] =
                        overlap[Owner[g]] \/ \E j \in IntfsOf(Owner[g]) : genPc[j] # "idle"]
      BY <1>4 DEF AdjBegin
    <3>2. overlap'[Owner[g]] = (overlap[Owner[g]] \/ \E j \in IntfsOf(Owner[g]) : genPc[j] # "idle")
      BY <3>1 DEF TypeOK
    <3> QED
      BY <3>2 DEF Ambiguous, IntfsOf
  <2>3. /\ \A j \in Intf : j # g => genPc'[j] = genPc[j]
        /\ genPc'[g] = "adj"
    BY <2>1 DEF TypeOK
  <2> QED
    BY <1>2, <2>1, <2>2, <2>3 DEF SerialInv
<1>5. ASSUME NEW g \in Intf, AdjEnd(g) PROVE SerialInv'
  <2>1. /\ genPc[g] = "adj" /\ genPc'[g] = "load"
        /\ \A j \in Intf : j # g => genPc'[j] = genPc[j]
        /\ UNCHANGED <<genTmp, genLsp, sequenceNumber, issued>>
    BY <1>5 DEF AdjEnd, TypeOK
  <2> QED
    BY <1>2, <2>1 DEF SerialInv
<1>6. ASSUME NEW g \in Intf, GenLoad(g) PROVE SerialInv'
  <2>1. /\ genPc[g] = "load" /\ genPc'[g] = "store" /\ genTmp'[g] = sequenceNumber[Owner[g]]
        /\ \A j \in Intf : j # g => genPc'[j] = genPc[j] /\ genTmp'[j] = genTmp[j]
        /\ UNCHANGED <<genLsp, sequenceNumber, issued>>
    BY <1>6 DEF GenLoad, TypeOK
  <2> QED
    BY <1>2, <2>1 DEF SerialInv
<1>7. ASSUME NEW g \in Intf, GenStore(g) PROVE SerialInv'
  <2>1. /\ genPc[g] = "store" /\ genPc'[g] = "build"
        /\ sequenceNumber'[Owner[g]] = genTmp[g] + 1
        /\ \A n \in Node : n # Owner[g] => sequenceNumber'[n] = sequenceNumber[n]
        /\ \A j \in Intf : j # g => genPc'[j] = genPc[j]
        /\ UNCHANGED <<genTmp, genLsp, issued>>
    BY <1>7 DEF GenStore, TypeOK
  <2>2. ~Ambiguous(Owner[g])' =>
          /\ genTmp[g] = sequenceNumber[Owner[g]]
          /\ \A j \in Intf : Owner[j] = Owner[g] /\ j # g => genPc[j] = "idle"
          /\ \A l \in issued[Owner[g]] : l.seq < sequenceNumber'[Owner[g]]
    <3> SUFFICES ASSUME ~Ambiguous(Owner[g])'
                 PROVE  /\ genTmp[g] = sequenceNumber[Owner[g]]
                        /\ \A j \in Intf : Owner[j] = Owner[g] /\ j # g => genPc[j] = "idle"
                        /\ \A l \in issued[Owner[g]] : l.seq < sequenceNumber'[Owner[g]]
      OBVIOUS
    <3>1. /\ genTmp[g] = sequenceNumber[Owner[g]] /\ sequenceNumber[Owner[g]] \in Nat
          /\ \A l \in issued[Owner[g]] : l.seq <= sequenceNumber[Owner[g]] /\ l.seq \in Nat
      BY <1>2, <2>1 DEF SerialInv, TypeOK, Lsp
    <3>2. \A j \in Intf : Owner[j] = Owner[g] /\ j # g => genPc[j] = "idle"
      BY <1>2, <2>1 DEF SerialInv
    <3> QED
      BY <2>1, <3>1, <3>2
  <2>3. \A n \in Node : ~Ambiguous(n)' => \A l \in issued[n] : l.seq <= sequenceNumber'[n]
    <3>1. \A l \in issued[Owner[g]] : l.seq \in Nat
      BY DEF TypeOK, Lsp
    <3>2. sequenceNumber'[Owner[g]] \in Nat
      BY <1>1 DEF TypeOK
    <3> QED
      BY <1>2, <2>1, <2>2, <3>1, <3>2 DEF SerialInv
  <2> QED
    BY <1>2, <2>1, <2>2, <2>3 DEF SerialInv
<1>8. ASSUME NEW g \in Intf, GenBuild(g) PROVE SerialInv'
  <2>1. /\ genPc[g] = "build" /\ genPc'[g] = "insert"
        /\ genLsp'[g].seq \in {genTmp[g] + 1, sequenceNumber[Owner[g]]}
        /\ \A j \in Intf : j # g => /\ genPc'[j] = genPc[j] /\ genTmp'[j] = genTmp[j]
                                    /\ genLsp'[j] = genLsp[j]
        /\ UNCHANGED <<sequenceNumber, issued>>
    BY <1>8 DEF GenBuild, TypeOK
  <2> QED
    BY <1>2, <2>1 DEF SerialInv
<1>9. ASSUME NEW g \in Intf, GenInsert(g) PROVE SerialInv'
  <2>1. /\ genPc[g] = "insert" /\ genPc'[g] = "flood"
        /\ issued'[Owner[g]] = issued[Owner[g]] \cup {genLsp[g]}
        /\ \A n \in Node : n # Owner[g] => issued'[n] = issued[n]
        /\ \A j \in Intf : j # g => genPc'[j] = genPc[j] /\ genLsp'[j] = genLsp[j]
        /\ UNCHANGED <<genTmp, sequenceNumber>>
    BY <1>9 DEF GenInsert, TypeOK
  <2>2. ~Ambiguous(Owner[g])' =>
          /\ genLsp[g].seq = sequenceNumber[Owner[g]]
          /\ \A j \in Intf : Owner[j] = Owner[g] /\ j # g => genPc[j] = "idle"
          /\ \A l \in issued[Owner[g]] : l.seq < sequenceNumber[Owner[g]]
    BY <1>2, <2>1 DEF SerialInv
  <2>3. \A n \in Node : ~Ambiguous(n)' =>
          /\ \A l \in issued'[n] : l.seq <= sequenceNumber[n]
          /\ \A l, m \in issued'[n] : l.seq = m.seq => l = m
    <3>1. sequenceNumber[Owner[g]] \in Nat /\ \A l \in issued[Owner[g]] : l.seq \in Nat
      BY DEF TypeOK, Lsp
    <3>2. CASE ~Ambiguous(Owner[g])'
      <4>1. \A l \in issued'[Owner[g]] : l.seq <= sequenceNumber[Owner[g]]
        BY <2>1, <2>2, <3>1, <3>2
      <4>2. \A l, m \in issued'[Owner[g]] : l.seq = m.seq => l = m
        BY <1>2, <2>1, <2>2, <3>1, <3>2 DEF SerialInv
      <4> QED
        BY <1>2, <2>1, <4>1, <4>2 DEF SerialInv
    <3>3. CASE Ambiguous(Owner[g])'
      BY <1>2, <2>1, <3>3 DEF SerialInv
    <3> QED
      BY <3>2, <3>3
  <2> QED
    BY <1>2, <2>1, <2>2, <2>3 DEF SerialInv
<1>10. ASSUME NEW g \in Intf, NEW h \in Intf, GenFlood(g, h) PROVE SerialInv'
  <2>1. /\ genPc[g] = "flood" /\ genPc'[g] \in {"idle", "flood"}
        /\ \A j \in Intf : j # g => genPc'[j] = genPc[j]
        /\ UNCHANGED <<genTmp, genLsp, sequenceNumber, issued>>
    BY <1>10 DEF GenFlood, TypeOK
  <2> QED
    BY <1>2, <2>1 DEF SerialInv
<1>11. ASSUME NEW r \in Node, Restart(r) PROVE SerialInv'
  <2>1. /\ \A n \in Node : n # r => sequenceNumber'[n] = sequenceNumber[n]
        /\ \A j \in Intf : Owner[j] # r => /\ genPc'[j] = genPc[j] /\ genTmp'[j] = genTmp[j]
                                           /\ genLsp'[j] = genLsp[j]
        /\ issued' = issued
    BY <1>11 DEF Restart, Reset, IntfsOf, TypeOK
  <2>2. Ambiguous(r)'
    BY <1>11 DEF Restart, Ambiguous, TypeOK
  <2> QED
    BY <1>2, <2>1, <2>2 DEF SerialInv
<1>12. ASSUME NEW g \in Intf, UpdateInput(g) \/ Flooder(g) \/ Lose(g)
       PROVE  UNCHANGED <<genVars, sequenceNumber, issued>>
    BY <1>12 DEF UpdateInput, Flooder, InAccept, InDiscard, InInsert, InFlood, InTrigger,
                 OutLock, OutLookup, OutMiss, OutSend, Lose
<1>13. ASSUME NEW n \in Node, Decision(n) PROVE UNCHANGED <<genVars, sequenceNumber, issued>>
    BY <1>13 DEF Decision
<1>14. CASE UNCHANGED vars
    BY <1>3, <1>14 DEF vars
<1>15. ASSUME NEW g \in Intf, HelloUp(g) PROVE SerialInv'
    BY <1>5, <1>6, <1>7, <1>8, <1>9, <1>10, <1>15 DEF HelloUp
<1> QED
    BY <1>3, <1>4, <1>11, <1>12, <1>13, <1>14, <1>15 DEF Next

-----------------------------------------------------------------------------
(* Delivery                                                                *)

\* l is in the receive socket of p.
Waits(p, l) == \E x \in 1..Len(wire[p]) : wire[p][x] = l

\* l has come to p: it waits, is being filed, or is no news to p's node, unless
\* that is its originator, which may have gone back to an older one.
Reached(p, l) ==
  \/ Waits(p, l)
  \/ inPc[p] = "insert" /\ inLsp[p] = l
  \/ l.seq <= updateDB[Owner[p]][l.id].seq
  \/ l.id = Owner[p] /\ overlap[l.id]

\* An LSP that crossed or waits at one interface of a segment came to all of it.
DeliveredInv ==
  lost = 0 =>
    \A j \in Intf, l \in Lsp : \A p \in Lan[j] :
      (l \in crossed[j] \/ Waits(j, l)) /\ restarts[Owner[p]] = 0 => Reached(p, l)

\* What is not held is Absent.
AbsentInv == \A n, k \in Node : updateDB[n][k].seq = 0 => updateDB[n][k] = Absent(k)

LEMMA InitDelivered == Init => DeliveredInv /\ AbsentInv
BY TopologyAssumption DEF Init, DeliveredInv, AbsentInv, Waits

\* A frame that is appended to a queue waits there, with those before it.
LEMMA WaitsAppend ==
  ASSUME NEW s \in Seq(Lsp), NEW m \in Lsp, NEW l
  PROVE  (\E x \in 1..Len(Append(s, m)) : Append(s, m)[x] = l)
           <=> l = m \/ \E x \in 1..Len(s) : s[x] = l
<1>1. /\ Len(s) \in Nat /\ Len(Append(s, m)) = Len(s) + 1
      /\ Append(s, m)[Len(s) + 1] = m
      /\ \A x \in 1..Len(s) : Append(s, m)[x] = s[x]
    OBVIOUS
<1>2. \A x \in 1..(Len(s) + 1) : x = Len(s) + 1 \/ x \in 1..Len(s)
    BY <1>1
<1>3. Len(s) + 1 \in 1..(Len(s) + 1) /\ \A x \in 1..Len(s) : x \in 1..(Len(s) + 1)
    BY <1>1
<1> QED
    BY <1>1, <1>2, <1>3

\* A queue is its head and its tail.
LEMMA WaitsTail ==
  ASSUME NEW s \in Seq(Lsp), s # <<>>, NEW l
  PROVE  (\E x \in 1..Len(s) : s[x] = l)
           <=> l = Head(s) \/ \E x \in 1..Len(Tail(s)) : Tail(s)[x] = l
<1>1. /\ Len(s) \in Nat /\ Len(s) > 0 /\ Len(Tail(s)) = Len(s) - 1 /\ Head(s) = s[1]
      /\ \A x \in 1..(Len(s) - 1) : Tail(s)[x] = s[x + 1]
    OBVIOUS
<1>2. \A x \in 1..Len(s) : x = 1 \/ (x - 1 \in 1..(Len(s) - 1) /\ s[x] = Tail(s)[x - 1])
    BY <1>1
<1>3. 1 \in 1..Len(s) /\ \A x \in 1..(Len(s) - 1) : x + 1 \in 1..Len(s)
    BY <1>1
<1> QED
    BY <1>1, <1>2, <1>3

\* How frames travel in a step, while nothing is lost.
Travels ==
  /\ \A j \in Intf :
       \/ crossed'[j] \subseteq crossed[j]
       \/ wire[j] # <<>> /\ crossed'[j] = crossed[j] \cup {Head(wire[j])}
       \/ OutSend(j) /\ crossed'[j] = crossed[j] \cup {outLsp[j]}
  /\ \A j \in Intf :
       \/ wire'[j] = wire[j]
       \/ wire'[j] = <<>> /\ restarts'[Owner[j]] > 0
       \/ wire[j] # <<>> /\ wire'[j] = Tail(wire[j]) /\ (InAccept(j) \/ InDiscard(j) \/ lost' > 0)
       \/ \E g \in Intf : OutSend(g) /\ j \in Lan[g] /\ wire'[j] = Append(wire[j], outLsp[g])
  /\ \A j \in Intf : inPc[j] = "insert" =>
       \/ inPc'[j] = "insert" /\ inLsp'[j] = inLsp[j]
       \/ InInsert(j)
       \/ restarts'[Owner[j]] > 0
  /\ \A n \in Node : (overlap[n] => overlap'[n]) /\ (restarts'[n] = 0 => restarts[n] = 0)
  /\ lost' = 0 => lost = 0

LEMMA StepTravels == ASSUME TypeOK, [Next]_vars PROVE Travels
<1> USE TopologyAssumption DEF TypeOK, Travels
<1>1. ASSUME NEW i \in Intf, AdjBegin(i) PROVE Travels
  <2>1. overlap' = [overlap EXCEPT ![Owner[i]] =
                      overlap[Owner[i]] \/ \E j \in IntfsOf(Owner[i]) : genPc[j] # "idle"]
    BY <1>1 DEF AdjBegin
  <2>2. \A n \in Node : overlap[n] => overlap'[n]
    BY <2>1
  <2> QED
    BY <1>1, <2>2 DEF AdjBegin
<1>2. ASSUME NEW i \in Intf, HelloUp(i) PROVE Travels
    BY <1>2 DEF HelloUp, AdjEnd, GenLoad, GenStore, GenBuild, GenInsert, GenFlood
<1>3. ASSUME NEW i \in Intf, InAccept(i) \/ InDiscard(i) PROVE Travels
  <2>1. /\ wire[i] # <<>> /\ inPc[i] = "idle"
        /\ wire' = [wire EXCEPT ![i] = Tail(wire[i])]
        /\ crossed' = [crossed EXCEPT ![i] = crossed[i] \cup {Head(wire[i])}]
    BY <1>3 DEF InAccept, InDiscard, Receive
  <2>2. \A j \in Intf : j # i => inPc'[j] = inPc[j] /\ inLsp'[j] = inLsp[j]
    BY <1>3 DEF InAccept, InDiscard
  <2>3. UNCHANGED <<overlap, restarts, lost>>
    BY <1>3 DEF InAccept, InDiscard
  <2>4. /\ \A j \in Intf : j # i => wire'[j] = wire[j] /\ crossed'[j] = crossed[j]
        /\ wire'[i] = Tail(wire[i]) /\ crossed'[i] = crossed[i] \cup {Head(wire[i])}
    BY <2>1
  <2> HIDE DEF TypeOK
  <2> QED
    BY <1>3, <2>1, <2>2, <2>3, <2>4
<1>4. ASSUME NEW i \in Intf, InInsert(i) PROVE Travels
    BY <1>4 DEF InInsert
<1>5. ASSUME NEW i \in Intf, NEW j \in Intf, InFlood(i, j) PROVE Travels
    BY <1>5 DEF InFlood
<1>6. ASSUME NEW i \in Intf, InTrigger(i) PROVE Travels
    BY <1>6 DEF InTrigger
<1>7. ASSUME NEW n \in Node, Decision(n) PROVE Travels
    BY <1>7 DEF Decision
<1>8. ASSUME NEW i \in Intf, OutLock(i) PROVE Travels
    BY <1>8 DEF OutLock
<1>9. ASSUME NEW i \in Intf, NEW k \in Node, OutLookup(i, k) \/ OutMiss(i, k) PROVE Travels
    BY <1>9 DEF OutLookup, OutMiss
<1>10. ASSUME NEW i \in Intf, OutSend(i) PROVE Travels
  <2>1. \A j \in Intf : wire'[j] = IF j \in Lan[i] THEN Append(wire[j], outLsp[i]) ELSE wire[j]
    BY <1>10 DEF OutSend, Heard
  <2>2. \A j \in Intf : crossed'[j] = IF j = i THEN crossed[j] \cup {outLsp[j]} ELSE crossed[j]
    BY <1>10 DEF OutSend
  <2>3. UNCHANGED <<inVars, overlap, restarts, lost>>
    BY <1>10 DEF OutSend
  <2> HIDE DEF TypeOK
  <2> QED
    BY <1>10, <2>1, <2>2, <2>3
<1>11. ASSUME NEW i \in Intf, Lose(i) PROVE Travels
    BY <1>11 DEF Lose
<1>12. ASSUME NEW n \in Node, Restart(n) PROVE Travels
  <2>1. \A j \in Intf : IF Owner[j] = n THEN crossed'[j] = {} /\ wire'[j] = <<>>
                        ELSE /\ crossed'[j] = crossed[j] /\ wire'[j] = wire[j]
                             /\ inPc'[j] = inPc[j] /\ inLsp'[j] = inLsp[j]
    BY <1>12 DEF Restart, Reset, IntfsOf
  <2>2. /\ restarts'[n] > 0 /\ \A m \in Node : m # n => restarts'[m] = restarts[m]
        /\ UNCHANGED <<overlap, lost>>
    BY <1>12 DEF Restart
  <2>3. restarts'[n] # 0
    BY <2>2
  <2> HIDE DEF TypeOK
  <2> QED
    BY <2>1, <2>2, <2>3
<1>13. CASE UNCHANGED vars
    BY <1>13 DEF vars
<1> HIDE DEF TypeOK, Travels
<1> QED
    BY <1>1, <1>2, <1>3, <1>4, <1>5, <1>6, <1>7, <1>8, <1>9, <1>10, <1>11, <1>12, <1>13
    DEF Next, UpdateInput, Flooder

\* What databases hold.
LEMMA DbType == TypeOK => \A n, k \in Node : updateDB[n][k] \in Lsp /\ updateDB[n][k].seq \in Nat
<1> SUFFICES ASSUME TypeOK, NEW n \in Node, NEW k \in Node
             PROVE  updateDB[n][k] \in Lsp /\ updateDB[n][k].seq \in Nat
    OBVIOUS
<1>1. updateDB[n][k] \in Lsp
    BY DEF TypeOK
<1> QED
    BY <1>1 DEF Lsp

\* A database goes back only in a restart, or where overlapping calls store the
\* node's own LSPs.
LEMMA StepGrows ==
  ASSUME FloodInv, OriginInv, SerialInv, [Next]_vars, NEW n \in Node, NEW k \in Node,
         restarts'[n] = 0, ~(k = n /\ overlap'[n])
  PROVE  updateDB[n][k].seq <= updateDB'[n][k].seq
<1> USE TopologyAssumption
<1>1. TypeOK /\ TypeOK'
    BY StepType DEF FloodInv
<1>2. updateDB[n][k].seq \in Nat
    BY <1>1, DbType
<1>3. CASE updateDB'[n][k] = updateDB[n][k]
    BY <1>2, <1>3
<1>4. ASSUME NEW g \in Intf, GenInsert(g), updateDB'[n][k] # updateDB[n][k]
      PROVE  updateDB[n][k].seq <= updateDB'[n][k].seq
  <2>1. n = Owner[g] /\ k = n /\ updateDB'[n][n] = genLsp[g] /\ genPc[g] = "insert"
    BY <1>1, <1>4 DEF GenInsert, TypeOK
  <2>2. ~Ambiguous(n)
    <3>1. ~Ambiguous(n)'
      BY <2>1 DEF Ambiguous
    <3> QED
      BY <1>1, <3>1, StepAmbiguous
  <2>3. genLsp[g].seq = sequenceNumber[n] /\ \A l \in issued[n] : l.seq < sequenceNumber[n]
    BY <2>1, <2>2 DEF SerialInv
  <2>4. updateDB[n][n].seq > 0 => updateDB[n][n] \in issued[n]
    BY DEF FloodInv, OriginInv, Keyed, Has, Issued
  <2>5. sequenceNumber[n] \in Nat
    BY <1>1 DEF TypeOK
  <2> QED
    BY <1>2, <2>1, <2>3, <2>4, <2>5
<1>5. ASSUME NEW g \in Intf, InInsert(g), updateDB'[n][k] # updateDB[n][k]
      PROVE  updateDB[n][k].seq <= updateDB'[n][k].seq
  <2>1. n = Owner[g] /\ k = inLsp[g].id /\ updateDB'[n][k] = inLsp[g] /\ inPc[g] = "insert"
    BY <1>1, <1>5 DEF InInsert, TypeOK, Lsp
  <2>2. updateDB[n][k].seq < inLsp[g].seq
    BY <2>1 DEF FloodInv, InputInv, Newer
  <2>3. inLsp[g].seq \in Nat
    BY <1>1 DEF TypeOK, Lsp
  <2> QED
    BY <1>2, <2>1, <2>2, <2>3
<1>6. ASSUME NEW r \in Node, Restart(r), updateDB'[n][k] # updateDB[n][k] PROVE FALSE
  <2>1. n = r
    BY <1>1, <1>6 DEF Restart, TypeOK
  <2> QED
    BY <1>1, <1>6, <2>1 DEF Restart, TypeOK
<1> QED
    BY <1>3, <1>4, <1>5, <1>6, StepFiles

\* What has come to an interface stays there, while nothing is lost.
LEMMA ReachedStays ==
  ASSUME FloodInv, OriginInv, SerialInv, [Next]_vars, NEW p \in Intf, NEW l \in Lsp,
         lost' = 0, restarts'[Owner[p]] = 0, Reached(p, l)
  PROVE  Reached(p, l)'
<1> USE TopologyAssumption
<1>1. TypeOK /\ TypeOK' /\ Travels
    BY StepType, StepTravels DEF FloodInv
<1>2. l.id \in Node /\ Owner[p] \in Node /\ wire[p] \in Seq(Lsp)
    BY <1>1 DEF TypeOK, Lsp
<1>3. CASE l.id = Owner[p] /\ overlap[l.id]
    BY <1>1, <1>2, <1>3 DEF Travels, Reached
<1>4. CASE l.seq <= updateDB[Owner[p]][l.id].seq
  <2>1. CASE l.id = Owner[p] /\ overlap'[Owner[p]]
    BY <2>1 DEF Reached
  <2>2. CASE ~(l.id = Owner[p] /\ overlap'[Owner[p]])
    <3>1. updateDB[Owner[p]][l.id].seq <= updateDB'[Owner[p]][l.id].seq
      BY <1>2, <2>2, StepGrows
    <3>2. /\ l.seq \in Nat /\ updateDB[Owner[p]][l.id].seq \in Nat
          /\ updateDB'[Owner[p]][l.id].seq \in Nat
      <4>1. l.seq \in Nat
        BY DEF Lsp
      <4>2. (TypeOK => \A n, k \in Node : updateDB[n][k] \in Lsp /\ updateDB[n][k].seq \in Nat)'
        BY DbType, PTL
      <4> QED
        BY <1>1, <1>2, <4>1, <4>2, DbType
    <3>3. l.seq <= updateDB'[Owner[p]][l.id].seq
      BY <1>4, <3>1, <3>2
    <3> QED
      BY <3>3 DEF Reached
  <2> QED
    BY <2>1, <2>2
<1>5. CASE inPc[p] = "insert" /\ inLsp[p] = l
  <2>1. CASE InInsert(p)
    <3>1. updateDB'[Owner[p]][l.id] = l
      BY <1>1, <1>2, <1>5, <2>1 DEF InInsert, TypeOK
    <3>2. l.seq \in Nat
      BY DEF Lsp
    <3>3. l.seq <= updateDB'[Owner[p]][l.id].seq
      BY <3>1, <3>2
    <3> QED
      BY <3>3 DEF Reached
  <2>2. CASE inPc'[p] = "insert" /\ inLsp'[p] = inLsp[p]
    BY <1>5, <2>2 DEF Reached
  <2> QED
    BY <1>1, <1>5, <2>1, <2>2 DEF Travels
<1>6. CASE Waits(p, l)
  <2>1. CASE wire'[p] = wire[p]
    BY <1>6, <2>1 DEF Waits, Reached
  <2>2. CASE wire[p] # <<>> /\ wire'[p] = Tail(wire[p]) /\ (InAccept(p) \/ InDiscard(p))
    <3>1. l = Head(wire[p]) \/ Waits(p, l)'
      BY <1>2, <1>6, <2>2, WaitsTail DEF Waits
    <3>2. CASE l = Head(wire[p]) /\ InAccept(p)
      <4>1. inPc'[p] = "insert" /\ inLsp'[p] = l
        BY <1>1, <3>2 DEF InAccept, TypeOK
      <4> QED
        BY <4>1 DEF Reached
    <3>3. CASE l = Head(wire[p]) /\ InDiscard(p)
      <4>1. updateDB' = updateDB /\ ~(updateDB[Owner[p]][l.id].seq < l.seq)
        BY <3>3 DEF InDiscard, Newer
      <4>2. l.seq \in Nat /\ updateDB[Owner[p]][l.id].seq \in Nat
        <5>1. l.seq \in Nat
          BY DEF Lsp
        <5> QED
          BY <1>1, <1>2, <5>1, DbType
      <4>3. l.seq <= updateDB'[Owner[p]][l.id].seq
        BY <4>1, <4>2
      <4> QED
        BY <4>3 DEF Reached
    <3> QED
      BY <2>2, <3>1, <3>2, <3>3 DEF Reached
  <2>3. ASSUME NEW g \in Intf, wire'[p] = Append(wire[p], outLsp[g]) PROVE Waits(p, l)'
    <3>1. outLsp[g] \in Lsp
      BY <1>1 DEF TypeOK
    <3> QED
      BY <1>2, <1>6, <2>3, <3>1, WaitsAppend DEF Waits
  <2> QED
    BY <1>1, <2>1, <2>2, <2>3 DEF Travels, Reached
<1> QED
    BY <1>3, <1>4, <1>5, <1>6 DEF Reached

\* A frame reaches the whole segment, and stays within reach.
LEMMA StepDelivered ==
  ASSUME FloodInv, OriginInv, SerialInv, DeliveredInv, [Next]_vars
  PROVE  DeliveredInv'
<1> USE TopologyAssumption
<1>1. TypeOK /\ TypeOK' /\ Travels
    BY StepType, StepTravels DEF FloodInv
<1> SUFFICES ASSUME lost' = 0, NEW j \in Intf, NEW l \in Lsp, NEW p \in Lan[j],
                    (l \in crossed[j] \/ Waits(j, l))', restarts'[Owner[p]] = 0
             PROVE  Reached(p, l)'
    BY DEF DeliveredInv
<1>2. p \in Intf /\ Owner[p] \in Node /\ wire[j] \in Seq(Lsp) /\ wire[p] \in Seq(Lsp)
    BY <1>1 DEF TypeOK
<1>3. lost = 0 /\ restarts[Owner[p]] = 0
    BY <1>1, <1>2 DEF Travels
<1>4. CASE l \in crossed[j] \/ Waits(j, l)
  <2>1. Reached(p, l)
    BY <1>3, <1>4 DEF DeliveredInv
  <2> QED
    BY <1>2, <2>1, ReachedStays
<1>5. ASSUME NEW g \in Intf, OutSend(g), j \in Lan[g], l = outLsp[g] PROVE Reached(p, l)'
  <2>1. p \in Lan[g]
    BY <1>5
  <2>2. wire'[p] = Append(wire[p], l)
    BY <1>2, <1>5, <2>1 DEF OutSend, Heard
  <2>3. Waits(p, l)'
    BY <1>2, <2>2, WaitsAppend DEF Waits
  <2> QED
    BY <2>3 DEF Reached
<1>6. ASSUME l \in crossed'[j] PROVE Reached(p, l)'
  <2>1. wire[j] # <<>> => Waits(j, Head(wire[j]))
    BY <1>2, WaitsTail DEF Waits
  <2>2. j \in Lan[j]
    OBVIOUS
  <2> QED
    BY <1>1, <1>4, <1>5, <1>6, <2>1, <2>2 DEF Travels
<1>7. ASSUME Waits(j, l)' PROVE Reached(p, l)'
  <2>1. CASE wire'[j] = wire[j]
    BY <1>4, <1>7, <2>1 DEF Waits
  <2>2. CASE wire[j] # <<>> /\ wire'[j] = Tail(wire[j])
    <3>1. Waits(j, l)
      BY <1>2, <1>7, <2>2, WaitsTail DEF Waits
    <3> QED
      BY <1>4, <3>1
  <2>3. ASSUME NEW g \in Intf, OutSend(g), j \in Lan[g], wire'[j] = Append(wire[j], outLsp[g])
        PROVE  Reached(p, l)'
    <3>1. outLsp[g] \in Lsp
      BY <1>1 DEF TypeOK
    <3>2. l = outLsp[g] \/ Waits(j, l)
      BY <1>2, <1>7, <2>3, <3>1, WaitsAppend DEF Waits
    <3> QED
      BY <1>4, <1>5, <2>3, <3>2
  <2>4. CASE wire'[j] = <<>>
    <3>1. Len(wire'[j]) = 0
      BY <2>4
    <3> QED
      BY <1>7, <3>1 DEF Waits
  <2> QED
    BY <1>1, <2>1, <2>2, <2>3, <2>4 DEF Travels
<1> QED
    BY <1>6, <1>7

LEMMA StepAbsent ==
  ASSUME FloodInv, OriginInv, AbsentInv, [Next]_vars
  PROVE  AbsentInv'
<1> USE TopologyAssumption
<1>1. TypeOK /\ TypeOK'
    BY StepType DEF FloodInv
<1> SUFFICES ASSUME NEW n \in Node, NEW k \in Node, updateDB'[n][k].seq = 0
             PROVE  updateDB'[n][k] = Absent(k)
    BY DEF AbsentInv
<1>2. CASE updateDB'[n][k] = updateDB[n][k]
    BY <1>2 DEF AbsentInv
<1>3. ASSUME NEW g \in Intf, GenInsert(g), updateDB'[n][k] # updateDB[n][k] PROVE FALSE
  <2>1. updateDB'[n][k] = genLsp[g] /\ genPc[g] = "insert"
    BY <1>1, <1>3 DEF GenInsert, TypeOK
  <2>2. genLsp[g].seq > 0
    BY <2>1 DEF OriginInv
  <2> QED
    BY <2>1, <2>2
<1>4. ASSUME NEW g \in Intf, InInsert(g), updateDB'[n][k] # updateDB[n][k] PROVE FALSE
  <2>1. /\ n = Owner[g] /\ k = inLsp[g].id /\ updateDB'[n][k] = inLsp[g] /\ inPc[g] = "insert"
    BY <1>1, <1>4 DEF InInsert, TypeOK, Lsp
  <2>2. updateDB[n][k].seq < inLsp[g].seq
    BY <2>1 DEF FloodInv, InputInv, Newer
  <2>3. updateDB[n][k].seq \in Nat
    BY <1>1, DbType
  <2> QED
    BY <2>1, <2>2, <2>3
<1>5. ASSUME NEW r \in Node, Restart(r), updateDB'[n][k] # updateDB[n][k]
      PROVE  updateDB'[n][k] = Absent(k)
    BY <1>1, <1>5 DEF Restart, TypeOK
<1> QED
    BY <1>2, <1>3, <1>4, <1>5, StepFiles

-----------------------------------------------------------------------------
(* Convergence                                                             *)

\* The invariants behind LinksAgreeWhenQuiet.
ConvergeInv == FloodInv /\ OriginInv /\ SerialInv /\ DeliveredInv /\ AbsentInv

\* Numbers stay in order and frames reach their segment in every reachable state.
THEOREM ConvergeInvariant == Spec => []ConvergeInv
<1>1. Init => SerialInv /\ DeliveredInv /\ AbsentInv
    BY InitSerial, InitDelivered
<1>2. FloodInv => TypeOK
    BY DEF FloodInv
<1>3. FloodInv /\ OriginInv /\ SerialInv /\ DeliveredInv /\ AbsentInv /\ [Next]_vars
        => SerialInv' /\ DeliveredInv' /\ AbsentInv'
    BY <1>2, StepSerial, StepDelivered, StepAbsent
<1> QED
    BY <1>1, <1>3, FloodInvariant, OriginInvariant, PTL DEF Spec, ConvergeInv

\* On every network: when it is quiet and no frame was lost, what a node holds is
\* held behind each of its UP interfaces, in that version or a newer one, and a
\* version is one LSP unless its originator overlapped calls or restarted.
THEOREM FloodingConverges == Spec => []LinksAgreeWhenQuiet
<1>1. ConvergeInv => LinksAgreeWhenQuiet
  <2> SUFFICES ASSUME ConvergeInv, Quiescent, lost = 0, NEW i \in Intf, adj[i] # None,
                      NEW p \in Peers(i), NEW k \in Node, restarts[Owner[p]] = 0
               PROVE  \/ updateDB[Owner[p]][k] = updateDB[Owner[i]][k]
                      \/ updateDB[Owner[i]][k].seq < updateDB[Owner[p]][k].seq
                      \/ updateDB[Owner[i]][k].seq = updateDB[Owner[p]][k].seq /\ Ambiguous(k)
                      \/ k = Owner[p] /\ overlap[k]
    BY DEF LinksAgreeWhenQuiet, Agree
  <2> DEFINE l == updateDB[Owner[p]][k]
             m == updateDB[Owner[i]][k]
  <2> USE TopologyAssumption
  <2>1. TypeOK /\ p \in Intf /\ p \in Lan[i] /\ Owner[p] \in Node /\ Owner[i] \in Node
    BY DEF ConvergeInv, FloodInv, Peers
  <2>2. l \in Lsp /\ m \in Lsp /\ l.seq \in Nat /\ m.seq \in Nat
    BY <2>1, DbType
  <2>3. l.id = k /\ m.id = k
    BY <2>1 DEF ConvergeInv, FloodInv, Keyed
  <2>4. m.seq > 0 => m \in crossed[i]
    BY <2>1 DEF ConvergeInv, FloodInv, NoLostFlood, Has, Pending, Quiescent, IntfsOf
  <2>5. m.seq > 0 => m.seq <= l.seq \/ (k = Owner[p] /\ overlap[k])
    <3> SUFFICES ASSUME m.seq > 0 PROVE m.seq <= l.seq \/ (k = Owner[p] /\ overlap[k])
      OBVIOUS
    <3>1. Reached(p, m)
      BY <2>1, <2>2, <2>4 DEF ConvergeInv, DeliveredInv
    <3>2. inPc[p] = "idle" /\ Len(wire[p]) = 0
      BY <2>1 DEF Quiescent
    <3>3. ~Waits(p, m)
      BY <3>2 DEF Waits
    <3> QED
      BY <2>3, <3>1, <3>2, <3>3 DEF Reached
  <2>6. m.seq > 0 /\ l.seq = m.seq /\ ~Ambiguous(k) => l = m
    <3>1. m.seq > 0 => m \in issued[k]
      BY <2>1, <2>3 DEF ConvergeInv, OriginInv, Has, Issued
    <3>2. l.seq > 0 => l \in issued[k]
      BY <2>1, <2>3 DEF ConvergeInv, OriginInv, Has, Issued
    <3> QED
      BY <3>1, <3>2 DEF ConvergeInv, SerialInv
  <2>7. m.seq = 0 /\ l.seq = 0 => l = m
    BY <2>1 DEF ConvergeInv, AbsentInv
  <2> HIDE DEF l, m
  <2>8. l = m \/ m.seq < l.seq \/ (m.seq = l.seq /\ Ambiguous(k)) \/ (k = Owner[p] /\ overlap[k])
    BY <2>2, <2>5, <2>6, <2>7
  <2> QED
    BY <2>8 DEF l, m
<1> QED
    BY <1>1, ConvergeInvariant, PTL
=============================================================================
