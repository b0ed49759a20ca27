----------------------------- MODULE NodeLocks -----------------------------
(***************************************************************************)
(* The goroutines of one go-is-is node and what they wait for: the mutexes *)
(* cfg.lock, UpdateDB.DBLock and intf.lock of each interface, and the      *)
(* unbuffered channels main creates.  A goroutine runs straight-line       *)
(* programs of lock, unlock, send and recv operations, one program per     *)
(* path through the body of its loop; everything else it does is left out. *)
(***************************************************************************)
EXTENDS Naturals, Sequences, FiniteSets, SequencesExt

CONSTANTS
  Intf,       \* cfg.interfaces
  Decision,   \* the isisDecision goroutines, one per interface
  Rpc,        \* gRPC handlers running at a time
  RpcKinds    \* the calls clients make: "GetIntf", "Other"

ASSUME LocksAssumption ==
  /\ IsFiniteSet(Intf) /\ (Intf # {} => Decision # {})
  /\ RpcKinds \subseteq {"GetIntf", "Other"}

VARIABLES
  rest,    \* rest[g]: what goroutine g still has to do in this round
  holder   \* holder[l]: the goroutine that holds mutex l, or Free

vars == <<rest, holder>>

-----------------------------------------------------------------------------
CfgLock == <<"cfg.lock">>
DBLock == <<"UpdateDB.DBLock">>
IntfLock(i) == <<"intf.lock", i>>
Lock == {CfgLock, DBLock} \cup {IntfLock(i) : i \in Intf}

\* The channels helloChans, updateChans, sendChans and triggerSPF.
HelloChan(i) == <<"hello", i>>
UpdateChan(i) == <<"update", i>>
SendChan(i) == <<"send", i>>
TriggerSPF == <<"triggerSPF">>
Chan == {TriggerSPF} \cup UNION {{HelloChan(i), UpdateChan(i), SendChan(i)} : i \in Intf}

Acquire(l) == [op |-> "lock", on |-> l]
Release(l) == [op |-> "unlock", on |-> l]
Put(c) == [op |-> "send", on |-> c]

\* l.Lock(); body; l.Unlock()
Holding(l, body) == <<Acquire(l)>> \o body \o <<Release(l)>>

\* l.Lock(); ...; l.Unlock() with nothing in between that can block: one step,
\* which has to wait for l.
Touch(l) == [op |-> "touch", on |-> l]

\* A loop over cfg.interfaces that takes each intf.lock in turn.
EachIntf == [x \in 1..Cardinality(Intf) |-> Touch(IntfLock(SetToSeq(Intf)[x]))]

Free == <<"free">>

\* The goroutines main starts, and the gRPC handlers.
Goroutine ==
  {"helloSend", "helloRecv", "updateInput", "update", "recvPdus", "sendPdus"} \X Intf
    \cup {"decision"} \X Decision \cup {"rpc"} \X Rpc

\* isisHelloSend: with a system ID and no UP adjacency it sends a hello while it
\* holds both locks.
HelloSend(i) ==
  { Holding(IntfLock(i), <<Touch(CfgLock)>>),
    Holding(IntfLock(i), Holding(CfgLock, <<Put(SendChan(i))>>)) }

\* isisHelloRecv, from the hello on: one from ourselves, one to answer, one that
\* names another node, and one that brings the adjacency up (generateLocalLsp).
HelloRecv(i) ==
  LET log == Touch(IntfLock(i))
      adj == Touch(IntfLock(i))
  IN { <<log>>,
       <<log, adj, Put(SendChan(i))>>,
       <<log, adj>>,
       <<log, adj, Touch(DBLock)>> \o EachIntf }

\* Faulty variant of UpdateInput: SPF is triggered before DBLock is released.
UpdateInputLocked(i) == { Holding(DBLock, EachIntf \o <<Put(TriggerSPF)>>) }

\* isisUpdateInput, from the LSP on: one that is not newer, one that is flooded.
UpdateInput(i) ==
  { <<Touch(DBLock), Put(TriggerSPF)>>,
    Holding(DBLock, EachIntf) \o <<Put(TriggerSPF)>> }

\* isisUpdate: nothing to send, or an LSP.
Update(i) ==
  { <<Touch(IntfLock(i))>>, Holding(IntfLock(i), <<Put(SendChan(i))>>) }

\* recvPdus dispatches on the PDU type.
RecvPdus(i) == { <<Put(HelloChan(i))>>, <<Put(UpdateChan(i))>> }

\* sendPdus writes the frame; nothing to wait for.
SendPdus(i) == { <<>> }

\* Faulty variant of DecisionRound: isisDecision returns after computeSPF.
DecisionReturns == { <<>>, <<Touch(DBLock), [op |-> "return", on |-> TriggerSPF]>> }

\* isisDecision; computeSPF only after a trigger that says true.
DecisionRound == { <<>>, <<Touch(DBLock)>> }

\* GetIntf walks the interfaces under cfg.lock; the other calls only hold it.
RpcCall ==
  { IF kind = "GetIntf" THEN Holding(CfgLock, EachIntf) ELSE <<Touch(CfgLock)>> :
      kind \in RpcKinds }

\* What g may do in a round of its loop, after its receive if it starts with one.
Programs(g) ==
  CASE g[1] = "helloSend" -> HelloSend(g[2])
    [] g[1] = "helloRecv" -> HelloRecv(g[2])
    [] g[1] = "updateInput" -> UpdateInput(g[2])
    [] g[1] = "update" -> Update(g[2])
    [] g[1] = "recvPdus" -> RecvPdus(g[2])
    [] g[1] = "sendPdus" -> SendPdus(g[2])
    [] g[1] = "decision" -> DecisionRound
    [] g[1] = "rpc" -> RpcCall

\* The goroutines that receive on channel c.
Receivers(c) ==
  CASE c[1] = "hello" -> {<<"helloRecv", c[2]>>}
    [] c[1] = "update" -> {<<"updateInput", c[2]>>}
    [] c[1] = "send" -> {<<"sendPdus", c[2]>>}
    [] c[1] = "triggerSPF" -> {"decision"} \X Decision

-----------------------------------------------------------------------------
\* g's next operation is op on x.
At(g, op, x) == rest[g] # <<>> /\ Head(rest[g]) = [op |-> op, on |-> x]

\* A timer fires, a frame arrives in the socket, or a client calls.
Begin(g) ==
  /\ g[1] \in {"helloSend", "update", "recvPdus", "rpc"}
  /\ rest[g] = <<>>
  /\ \E p \in Programs(g) : rest' = [rest EXCEPT ![g] = p]
  /\ UNCHANGED holder

LockStep(g, l) ==
  /\ At(g, "lock", l)
  /\ holder[l] = Free
  /\ holder' = [holder EXCEPT ![l] = g]
  /\ rest' = [rest EXCEPT ![g] = Tail(@)]

UnlockStep(g, l) ==
  /\ At(g, "unlock", l)
  /\ holder' = [holder EXCEPT ![l] = Free]
  /\ rest' = [rest EXCEPT ![g] = Tail(@)]

TouchStep(g, l) ==
  /\ At(g, "touch", l)
  /\ holder[l] = Free
  /\ rest' = [rest EXCEPT ![g] = Tail(@)]
  /\ UNCHANGED holder

\* An unbuffered channel: the sender meets a receiver that is back at its loop's
\* receive, which goes on with what the message asks for.
Rendezvous(g, c) ==
  /\ At(g, "send", c)
  /\ \E h \in Receivers(c), p \in UNION {Programs(k) : k \in Receivers(c)} :
       /\ rest[h] = <<>>
       /\ p \in Programs(h)
       /\ rest' = [rest EXCEPT ![g] = Tail(@), ![h] = p]
  /\ UNCHANGED holder

Init ==
  /\ rest = [g \in Goroutine |-> <<>>]
  /\ holder = [l \in Lock |-> Free]

\* The steps in which g is the one that acts.
Step(g) ==
  \/ \E l \in Lock : LockStep(g, l) \/ UnlockStep(g, l) \/ TouchStep(g, l)
  \/ \E c \in Chan : Rendezvous(g, c)

Next == \E g \in Goroutine : Begin(g) \/ Step(g)

Spec == Init /\ [][Next]_vars

\* Go's mutexes and channels serve those that wait in turn (a mutex once one has
\* waited for 1 ms), so a goroutine that can go on again and again does.  Nothing
\* is assumed of timers, frames and clients.
Fairness == \A g \in Goroutine : SF_vars(Step(g))

FairSpec == Spec /\ Fairness

-----------------------------------------------------------------------------
(* Properties                                                              *)

\* Every goroutine of S waits for a mutex one of S holds, or to send on a
\* channel whose receivers are all in S and busy: none of S will ever move.
Stuck(S) ==
  \A g \in S :
    \/ \E l \in Lock : (At(g, "lock", l) \/ At(g, "touch", l)) /\ holder[l] \in S
    \/ \E c \in Chan : At(g, "send", c) /\ Receivers(c) \subseteq S

\* No set of goroutines waits for itself, through mutexes and channels alike.
DeadlockFree == \A S \in SUBSET {g \in Goroutine : rest[g] # <<>>} : S # {} => ~Stuck(S)

\* An LSP that was received is dealt with, however the others go on meanwhile:
\* isisUpdateInput is not held up for good by locks that are handed around or by
\* an isisDecision that is always busy.
UpdatesEnd == \A i \in Intf :
  rest[<<"updateInput", i>>] # <<>> ~> rest[<<"updateInput", i>>] = <<>>

\* main.go:303-305, "Each go routine can run totally in parallel to establish
\* adjacencies on each interface", also while clients poll GetIntf.
ParallelWithQueries == DeadlockFree
=============================================================================
