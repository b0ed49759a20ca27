----------------------------- MODULE LockProofs -----------------------------
(***************************************************************************)
(* The goroutines of a node do not deadlock, whatever its number of        *)
(* interfaces and clients, as long as no client calls GetIntf: NodeLocks's *)
(* DeadlockFree.                                                           *)
(*                                                                         *)
(* Mutexes are taken in a fixed order (Rank), so nobody waits in a circle  *)
(* of mutexes; who holds one sends only to sendPdus, which waits for       *)
(* nobody; and the remaining sends lead to isisDecision, which sends       *)
(* nothing.  Doing says where in its round a goroutine can be, with the    *)
(* mutexes it holds there.                                                 *)
(***************************************************************************)
EXTENDS NodeLocks, FiniteSetTheorems, SequenceTheorems, TLAPS

\* A goroutine that holds a mutex waits only for mutexes of a lower rank.
Rank(l) ==
  IF l[1] = "cfg.lock" THEN 1 ELSE IF l[1] = "intf.lock" THEN 2 ELSE 3

IntfTouches == {Touch(IntfLock(i)) : i \in Intf}

\* The walk over the interfaces under DBLock, from some interface on.
Walk(q) ==
  /\ q \in Seq(IntfTouches \cup {Release(DBLock), Put(TriggerSPF)})
  /\ Len(q) > 1
  /\ q[Len(q)] = Put(TriggerSPF) /\ q[Len(q) - 1] = Release(DBLock)
  /\ \A x \in 1..(Len(q) - 2) : q[x] \in IntfTouches

HelloSendAt(i, q, H) ==
  \/ H = {} /\ q \in HelloSend(i)
  \/ H = {IntfLock(i)} /\ q \in
       { <<Touch(CfgLock), Release(IntfLock(i))>>,
         <<Acquire(CfgLock), Put(SendChan(i)), Release(CfgLock), Release(IntfLock(i))>>,
         <<Release(IntfLock(i))>> }
  \/ H = {IntfLock(i), CfgLock} /\ q \in
       { <<Put(SendChan(i)), Release(CfgLock), Release(IntfLock(i))>>,
         <<Release(CfgLock), Release(IntfLock(i))>> }

HelloRecvAt(i, q, H) ==
  H = {} /\ q \in Seq(IntfTouches \cup {Touch(DBLock), Put(SendChan(i))})

UpdateInputAt(i, q, H) ==
  \/ H = {} /\ (q \in UpdateInput(i) \/ q = <<Put(TriggerSPF)>>)
  \/ H = {DBLock} /\ Walk(q)

UpdateAt(i, q, H) ==
  \/ H = {} /\ q \in Update(i)
  \/ H = {IntfLock(i)} /\ q \in { <<Put(SendChan(i)), Release(IntfLock(i))>>, <<Release(IntfLock(i))>> }

\* g may have q left to do in this round while it holds H.
Doing(g, q, H) ==
  \/ q = <<>> /\ H = {}
  \/ g[1] = "helloSend" /\ HelloSendAt(g[2], q, H)
  \/ g[1] = "helloRecv" /\ HelloRecvAt(g[2], q, H)
  \/ g[1] = "updateInput" /\ UpdateInputAt(g[2], q, H)
  \/ g[1] = "update" /\ UpdateAt(g[2], q, H)
  \/ g[1] = "recvPdus" /\ H = {} /\ q \in RecvPdus(g[2])
  \/ g[1] = "decision" /\ H = {} /\ q = <<Touch(DBLock)>>
  \/ g[1] = "rpc" /\ H = {} /\ q = <<Touch(CfgLock)>>

\* The channels g sends on.
MaySend(g, c) ==
  \/ g[1] \in {"helloSend", "helloRecv", "update"} /\ c[1] = "send"
  \/ g[1] = "updateInput" /\ c = TriggerSPF
  \/ g[1] = "recvPdus" /\ c[1] \in {"hello", "update"}

\* The first operation of q is in order for g while it holds H, and so is the rest.
Goes(g, q, H) ==
  LET o == Head(q) IN
  /\ o.op = "lock" => Doing(g, Tail(q), H \cup {o.on})
  /\ o.op = "unlock" => o.on \in H /\ Doing(g, Tail(q), H \ {o.on})
  /\ o.op \in {"touch", "send"} => Doing(g, Tail(q), H)
  /\ o.op \in {"lock", "touch"} => \A m \in H : Rank(o.on) < Rank(m)
  /\ o.op = "send" => MaySend(g, o.on) /\ (H # {} => o.on[1] = "send")

Held(g) == {l \in Lock : holder[l] = g}

\* The inductive invariant: every goroutine is where its round can be.
LocksInv ==
  /\ DOMAIN rest = Goroutine
  /\ holder \in [Lock -> Goroutine \cup {Free}]
  /\ \A g \in Goroutine : Doing(g, rest[g], Held(g))

-----------------------------------------------------------------------------
(* The programs                                                            *)

LEMMA EachIntfTouches == EachIntf \in Seq(IntfTouches)
  <1>1. Cardinality(Intf) \in Nat /\ ExistsBijection(1..Cardinality(Intf), Intf)
    BY LocksAssumption, FS_CardinalityType
  <1>2. \E f \in [1..Cardinality(Intf) -> Intf] : IsInjective(f)
    BY <1>1 DEF ExistsBijection, Bijection, Injection
  <1>3. SetToSeq(Intf) \in [1..Cardinality(Intf) -> Intf]
    BY <1>2 DEF SetToSeq
  <1>4. \A x \in 1..Cardinality(Intf) : Touch(IntfLock(SetToSeq(Intf)[x])) \in IntfTouches
    BY <1>3 DEF IntfTouches
  <1>5. EachIntf \in [1..Cardinality(Intf) -> IntfTouches]
    BY <1>4 DEF EachIntf
  <1> QED BY <1>1, <1>5

\* The programs without EachIntf, written out.
LEMMA Written ==
  ASSUME NEW i
  PROVE  /\ HelloSend(i) =
              { <<Acquire(IntfLock(i)), Touch(CfgLock), Release(IntfLock(i))>>,
                <<Acquire(IntfLock(i)), Acquire(CfgLock), Put(SendChan(i)), Release(CfgLock),
                  Release(IntfLock(i))>> }
         /\ Update(i) =
              { <<Touch(IntfLock(i))>>,
                <<Acquire(IntfLock(i)), Put(SendChan(i)), Release(IntfLock(i))>> }
  <1>1. ASSUME NEW l, NEW x PROVE Holding(l, <<x>>) = <<Acquire(l), x, Release(l)>>
    <2> DEFINE s == (<<Acquire(l)>> \o <<x>>) \o <<Release(l)>>
               t == <<Acquire(l), x, Release(l)>>
               X == {Acquire(l), x, Release(l)}
    <2>1. s \in Seq(X) /\ Len(s) = 3 /\ s[1] = Acquire(l) /\ s[2] = x /\ s[3] = Release(l)
      OBVIOUS
    <2>2. t \in Seq(X) /\ Len(t) = 3 /\ t[1] = Acquire(l) /\ t[2] = x /\ t[3] = Release(l)
      OBVIOUS
    <2> HIDE DEF s, t
    <2>3. \A n \in 1..3 : n = 1 \/ n = 2 \/ n = 3
      OBVIOUS
    <2>4. \A n \in 1..Len(s) : s[n] = t[n]
      BY <2>1, <2>2, <2>3
    <2>5. s = t
      BY <2>1, <2>2, <2>4, SeqEqual
    <2> QED BY <2>5 DEF s, t, Holding
  <1>2. ASSUME NEW l, NEW x, NEW y, NEW z
        PROVE  Holding(l, <<x, y, z>>) = <<Acquire(l), x, y, z, Release(l)>>
    <2> DEFINE s == (<<Acquire(l)>> \o <<x, y, z>>) \o <<Release(l)>>
               t == <<Acquire(l), x, y, z, Release(l)>>
               X == {Acquire(l), x, y, z, Release(l)}
    <2>1. /\ s \in Seq(X) /\ Len(s) = 5 /\ s[1] = Acquire(l)
          /\ s[2] = x /\ s[3] = y /\ s[4] = z /\ s[5] = Release(l)
      OBVIOUS
    <2>2. /\ t \in Seq(X) /\ Len(t) = 5 /\ t[1] = Acquire(l)
          /\ t[2] = x /\ t[3] = y /\ t[4] = z /\ t[5] = Release(l)
      OBVIOUS
    <2> HIDE DEF s, t
    <2>3. \A n \in 1..5 : n = 1 \/ n = 2 \/ n = 3 \/ n = 4 \/ n = 5
      OBVIOUS
    <2>4. \A n \in 1..Len(s) : s[n] = t[n]
      BY <2>1, <2>2, <2>3
    <2>5. s = t
      BY <2>1, <2>2, <2>4, SeqEqual
    <2> QED BY <2>5 DEF s, t, Holding
  <1> QED BY <1>1, <1>2 DEF HelloSend, Update

\* The program of isisUpdateInput that walks: it takes DBLock and is at Walk.
LEMMA WalkBegins ==
  LET q == Holding(DBLock, EachIntf) \o <<Put(TriggerSPF)>>
  IN  q # <<>> /\ Head(q) = Acquire(DBLock) /\ Walk(Tail(q))
  <1> DEFINE A == <<Acquire(DBLock)>>
             R == <<Release(DBLock)>>
             P == <<Put(TriggerSPF)>>
             X == IntfTouches \cup {Release(DBLock), Put(TriggerSPF)}
             n == Len(EachIntf)
             w == (EachIntf \o R) \o P
             q == Holding(DBLock, EachIntf) \o P
  <1>1. EachIntf \in Seq(X) /\ n \in Nat /\ EachIntf \in Seq(IntfTouches)
    BY EachIntfTouches
  <1>2. R \in Seq(X) /\ P \in Seq(X) /\ Len(R) = 1 /\ Len(P) = 1
    OBVIOUS
  <1>3. w \in Seq(X) /\ Len(w) = n + 2
    BY <1>1, <1>2
  <1>4. w[n + 2] = Put(TriggerSPF) /\ w[n + 1] = Release(DBLock)
    BY <1>1, <1>2
  <1>5. \A x \in 1..n : w[x] = EachIntf[x]
    BY <1>1, <1>2
  <1>6. \A x \in 1..n : EachIntf[x] \in IntfTouches
    BY <1>1
  <1>7. Walk(w)
    BY <1>1, <1>3, <1>4, <1>5, <1>6 DEF Walk
  <1>8. q # <<>> /\ Head(q) = Acquire(DBLock) /\ Tail(q) = w
    BY <1>1, <1>2 DEF Holding
  <1> QED BY <1>7, <1>8

\* The operations and what they are on.
LEMMA Ops ==
  /\ \A l : Acquire(l).op = "lock" /\ Acquire(l).on = l
  /\ \A l : Release(l).op = "unlock" /\ Release(l).on = l
  /\ \A l : Touch(l).op = "touch" /\ Touch(l).on = l
  /\ \A c : Put(c).op = "send" /\ Put(c).on = c
  BY DEF Acquire, Release, Touch, Put

LEMMA Ranks ==
  /\ Rank(CfgLock) = 1 /\ Rank(DBLock) = 3 /\ \A i : Rank(IntfLock(i)) = 2
  /\ \A i : SendChan(i)[1] = "send"
  BY DEF Rank, CfgLock, DBLock, IntfLock, SendChan

\* Every program of a round may begin with no mutex held.
LEMMA ProgramsDoing ==
  ASSUME "GetIntf" \notin RpcKinds, NEW g \in Goroutine, NEW p \in Programs(g)
  PROVE  Doing(g, p, {})
  <1>1. CASE g[1] = "helloSend"
    BY <1>1 DEF Programs, Doing, HelloSendAt
  <1>2. CASE g[1] = "helloRecv"
    <2> DEFINE X == IntfTouches \cup {Touch(DBLock), Put(SendChan(g[2]))}
    <2>1. p \in HelloRecv(g[2]) /\ g[2] \in Intf
      BY <1>2 DEF Programs, Goroutine
    <2>2. Touch(IntfLock(g[2])) \in X /\ Touch(DBLock) \in X /\ Put(SendChan(g[2])) \in X
      BY <2>1 DEF IntfTouches
    <2>3. EachIntf \in Seq(X)
      BY EachIntfTouches
    <2> HIDE DEF X
    <2>4. <<Touch(IntfLock(g[2])), Touch(IntfLock(g[2])), Touch(DBLock)>> \in Seq(X)
      BY <2>2
    <2>5. <<Touch(IntfLock(g[2])), Touch(IntfLock(g[2])), Touch(DBLock)>> \o EachIntf \in Seq(X)
      BY <2>3, <2>4, ConcatProperties
    <2>6. /\ <<Touch(IntfLock(g[2]))>> \in Seq(X)
          /\ <<Touch(IntfLock(g[2])), Touch(IntfLock(g[2])), Put(SendChan(g[2]))>> \in Seq(X)
          /\ <<Touch(IntfLock(g[2])), Touch(IntfLock(g[2]))>> \in Seq(X)
      BY <2>2
    <2>7. p \in Seq(X)
      BY <2>1, <2>5, <2>6 DEF HelloRecv
    <2> QED BY <1>2, <2>7 DEF Doing, HelloRecvAt, X
  <1>3. CASE g[1] = "updateInput"
    BY <1>3 DEF Programs, Doing, UpdateInputAt
  <1>4. CASE g[1] = "update"
    BY <1>4 DEF Programs, Doing, UpdateAt
  <1>5. CASE g[1] = "recvPdus"
    BY <1>5 DEF Programs, Doing
  <1>6. CASE g[1] = "sendPdus"
    BY <1>6 DEF Programs, Doing, SendPdus
  <1>7. CASE g[1] = "decision"
    BY <1>7 DEF Programs, Doing, DecisionRound
  <1>8. CASE g[1] = "rpc"
    <2>1. p \in RpcCall
      BY <1>8 DEF Programs
    <2>2. p = <<Touch(CfgLock)>>
      BY <2>1 DEF RpcCall
    <2> QED BY <1>8, <2>2 DEF Doing
  <1> QED BY <1>1, <1>2, <1>3, <1>4, <1>5, <1>6, <1>7, <1>8 DEF Goroutine

\* When each of the operations goes.
LEMMA GoesLock ==
  ASSUME NEW g, NEW q, NEW H, NEW l, Head(q) = Acquire(l), Doing(g, Tail(q), H \cup {l}),
         \A m \in H : Rank(l) < Rank(m)
  PROVE  Goes(g, q, H)
  BY Ops DEF Goes

LEMMA GoesUnlock ==
  ASSUME NEW g, NEW q, NEW H, NEW l, Head(q) = Release(l), l \in H, Doing(g, Tail(q), H \ {l})
  PROVE  Goes(g, q, H)
  BY Ops DEF Goes

LEMMA GoesTouch ==
  ASSUME NEW g, NEW q, NEW H, NEW l, Head(q) = Touch(l), Doing(g, Tail(q), H),
         \A m \in H : Rank(l) < Rank(m)
  PROVE  Goes(g, q, H)
  BY Ops DEF Goes

LEMMA GoesSend ==
  ASSUME NEW g, NEW q, NEW H, NEW c, Head(q) = Put(c), Doing(g, Tail(q), H),
         MaySend(g, c), H # {} => c[1] = "send"
  PROVE  Goes(g, q, H)
  BY Ops DEF Goes

\* Wherever a goroutine is in its round, it can go on.
LEMMA HelloSendGoes ==
  ASSUME NEW g, g[1] = "helloSend", NEW q, NEW H, q # <<>>, HelloSendAt(g[2], q, H)
  PROVE  Goes(g, q, H)
  <1> DEFINE I == IntfLock(g[2])
             C == CfgLock
             P == Put(SendChan(g[2]))
             D(r, K) == HelloSendAt(g[2], r, K) \/ (r = <<>> /\ K = {})
  <1>1. \A r, K : D(r, K) => Doing(g, r, K)
    BY DEF Doing
  <1>2. \A c : c[1] = "send" => MaySend(g, c)
    BY DEF MaySend
  <1>3. I # C
    BY DEF IntfLock, CfgLock
  <1>4. \/ H = {} /\ q = <<Acquire(I), Touch(C), Release(I)>>
        \/ H = {} /\ q = <<Acquire(I), Acquire(C), P, Release(C), Release(I)>>
        \/ H = {I} /\ q = <<Touch(C), Release(I)>>
        \/ H = {I} /\ q = <<Acquire(C), P, Release(C), Release(I)>>
        \/ H = {I} /\ q = <<Release(I)>>
        \/ H = {I, C} /\ q = <<P, Release(C), Release(I)>>
        \/ H = {I, C} /\ q = <<Release(C), Release(I)>>
    BY Written DEF HelloSendAt
  <1>5. /\ D(<<Touch(C), Release(I)>>, {I})
        /\ D(<<Acquire(C), P, Release(C), Release(I)>>, {I})
        /\ D(<<Release(I)>>, {I})
        /\ D(<<P, Release(C), Release(I)>>, {I, C})
        /\ D(<<Release(C), Release(I)>>, {I, C})
        /\ D(<<>>, {})
    BY DEF HelloSendAt
  <1>6. Rank(C) < Rank(I) /\ MaySend(g, SendChan(g[2])) /\ SendChan(g[2])[1] = "send"
    BY <1>2, Ranks
  <1> HIDE DEF I, C, D
  <1>7. CASE H = {} /\ q = <<Acquire(I), Touch(C), Release(I)>>
    <2>1. Head(q) = Acquire(I) /\ Tail(q) = <<Touch(C), Release(I)>>
      BY <1>7
    <2> QED BY <1>1, <1>5, <1>7, <2>1, GoesLock
  <1>8. CASE H = {} /\ q = <<Acquire(I), Acquire(C), P, Release(C), Release(I)>>
    <2>1. Head(q) = Acquire(I) /\ Tail(q) = <<Acquire(C), P, Release(C), Release(I)>>
      BY <1>8
    <2> QED BY <1>1, <1>5, <1>8, <2>1, GoesLock
  <1>9. CASE H = {I} /\ q = <<Touch(C), Release(I)>>
    <2>1. Head(q) = Touch(C) /\ Tail(q) = <<Release(I)>>
      BY <1>9
    <2> QED BY <1>1, <1>5, <1>6, <1>9, <2>1, GoesTouch
  <1>10. CASE H = {I} /\ q = <<Acquire(C), P, Release(C), Release(I)>>
    <2>1. Head(q) = Acquire(C) /\ Tail(q) = <<P, Release(C), Release(I)>>
      BY <1>10
    <2>2. H \cup {C} = {I, C}
      BY <1>10
    <2> QED BY <1>1, <1>5, <1>6, <1>10, <2>1, <2>2, GoesLock
  <1>11. CASE H = {I} /\ q = <<Release(I)>>
    <2>1. Head(q) = Release(I) /\ Tail(q) = <<>> /\ H \ {I} = {}
      BY <1>11
    <2> QED BY <1>1, <1>5, <1>11, <2>1, GoesUnlock
  <1>12. CASE H = {I, C} /\ q = <<P, Release(C), Release(I)>>
    <2>1. Head(q) = P /\ Tail(q) = <<Release(C), Release(I)>>
      BY <1>12
    <2> QED BY <1>1, <1>5, <1>6, <1>12, <2>1, GoesSend
  <1>13. CASE H = {I, C} /\ q = <<Release(C), Release(I)>>
    <2>1. Head(q) = Release(C) /\ Tail(q) = <<Release(I)>> /\ H \ {C} = {I}
      BY <1>3, <1>13
    <2> QED BY <1>1, <1>5, <1>13, <2>1, GoesUnlock
  <1> QED BY <1>4, <1>7, <1>8, <1>9, <1>10, <1>11, <1>12, <1>13

LEMMA HelloRecvGoes ==
  ASSUME NEW g, g[1] = "helloRecv", NEW q, NEW H, q # <<>>, HelloRecvAt(g[2], q, H)
  PROVE  Goes(g, q, H)
  <1> DEFINE X == IntfTouches \cup {Touch(DBLock), Put(SendChan(g[2]))}
  <1>1. H = {} /\ q \in Seq(X)
    BY DEF HelloRecvAt
  <1>2. Head(q) \in X /\ Tail(q) \in Seq(X)
    BY <1>1
  <1>3. Doing(g, Tail(q), H)
    BY <1>1, <1>2 DEF Doing, HelloRecvAt
  <1>4. (\E l : Head(q) = Touch(l)) \/ Head(q) = Put(SendChan(g[2]))
    BY <1>2 DEF IntfTouches
  <1>5. MaySend(g, SendChan(g[2]))
    BY Ranks DEF MaySend
  <1> QED BY <1>1, <1>3, <1>4, <1>5, GoesTouch, GoesSend

LEMMA UpdateInputGoes ==
  ASSUME NEW g, g[1] = "updateInput", NEW q, NEW H, q # <<>>, UpdateInputAt(g[2], q, H)
  PROVE  Goes(g, q, H)
  <1> DEFINE T == Put(TriggerSPF)
             w == Holding(DBLock, EachIntf) \o <<T>>
  <1>1. MaySend(g, TriggerSPF)
    BY DEF MaySend
  <1>2. Doing(g, <<>>, {}) /\ Doing(g, <<T>>, {}) /\ \A r : Walk(r) => Doing(g, r, {DBLock})
    BY DEF Doing, UpdateInputAt
  <1>3. \/ H = {} /\ q = <<Touch(DBLock), T>>
        \/ H = {} /\ q = w
        \/ H = {} /\ q = <<T>>
        \/ H = {DBLock} /\ Walk(q)
    BY DEF UpdateInputAt, UpdateInput
  <1>4. CASE H = {} /\ q = <<Touch(DBLock), T>>
    <2>1. Head(q) = Touch(DBLock) /\ Tail(q) = <<T>>
      BY <1>4
    <2> QED BY <1>2, <1>4, <2>1, GoesTouch
  <1>5. CASE H = {} /\ q = w
    <2>1. Head(q) = Acquire(DBLock) /\ Walk(Tail(q))
      BY <1>5, WalkBegins
    <2>2. H \cup {DBLock} = {DBLock}
      BY <1>5
    <2> QED BY <1>2, <1>5, <2>1, <2>2, GoesLock
  <1>6. CASE H = {} /\ q = <<T>>
    <2>1. Head(q) = T /\ Tail(q) = <<>>
      BY <1>6
    <2> QED BY <1>1, <1>2, <1>6, <2>1, GoesSend
  <1>7. CASE H = {DBLock} /\ Walk(q) /\ Len(q) = 2
    <2>1. Head(q) = Release(DBLock)
      BY <1>7 DEF Walk
    <2>2. Tail(q) = <<T>>
      <3> DEFINE X == IntfTouches \cup {Release(DBLock), T}
      <3>1. q \in Seq(X) /\ Len(q) = 2 /\ q[2] = T
        BY <1>7 DEF Walk
      <3>2. Tail(q) \in Seq(X) /\ Len(Tail(q)) = 1 /\ Tail(q)[1] = T
        <4> HIDE DEF X, T
        <4> QED BY <3>1
      <3>3. <<T>> \in Seq(X) /\ Len(<<T>>) = 1 /\ <<T>>[1] = T
        OBVIOUS
      <3>4. \A n \in 1..1 : n = 1
        OBVIOUS
      <3> HIDE DEF X
      <3>5. \A n \in 1..Len(Tail(q)) : Tail(q)[n] = <<T>>[n]
        BY <3>2, <3>3, <3>4
      <3> QED BY <3>2, <3>3, <3>5, SeqEqual
    <2>3. H \ {DBLock} = {} /\ DBLock \in H
      BY <1>7
    <2> QED BY <1>2, <2>1, <2>2, <2>3, GoesUnlock
  <1>8. CASE H = {DBLock} /\ Walk(q) /\ Len(q) # 2
    <2> DEFINE X == IntfTouches \cup {Release(DBLock), T}
    <2>1. q \in Seq(X) /\ Len(q) \in Nat /\ Len(q) > 2
      <3>1. q \in Seq(X) /\ Len(q) > 1 /\ Len(q) # 2
        BY <1>8 DEF Walk
      <3>2. Len(q) \in Nat
        BY <3>1, LenProperties
      <3>3. \A n \in Nat : n > 1 /\ n # 2 => n > 2
        OBVIOUS
      <3> QED BY <3>1, <3>2, <3>3
    <2>2. /\ Tail(q) \in Seq(X) /\ Len(Tail(q)) = Len(q) - 1
          /\ \A n \in 1..(Len(q) - 1) : Tail(q)[n] = q[n + 1]
      BY <2>1
    <2>3. Tail(q)[Len(Tail(q))] = T /\ Tail(q)[Len(Tail(q)) - 1] = Release(DBLock)
      BY <1>8, <2>1, <2>2 DEF Walk
    <2>4. \A n \in 1..(Len(Tail(q)) - 2) : Tail(q)[n] \in IntfTouches
      BY <1>8, <2>1, <2>2 DEF Walk
    <2>5. Walk(Tail(q))
      BY <2>1, <2>2, <2>3, <2>4 DEF Walk
    <2>6. Head(q) \in IntfTouches
      BY <1>8, <2>1 DEF Walk
    <2>7. PICK i \in Intf : Head(q) = Touch(IntfLock(i))
      BY <2>6 DEF IntfTouches
    <2>8. Rank(IntfLock(i)) < Rank(DBLock)
      BY Ranks
    <2> QED BY <1>2, <1>8, <2>5, <2>7, <2>8, GoesTouch
  <1> QED BY <1>3, <1>4, <1>5, <1>6, <1>7, <1>8

LEMMA UpdateGoes ==
  ASSUME NEW g, g[1] = "update", NEW q, NEW H, q # <<>>, UpdateAt(g[2], q, H)
  PROVE  Goes(g, q, H)
  <1> DEFINE I == IntfLock(g[2])
             P == Put(SendChan(g[2]))
  <1>1. \/ H = {} /\ q = <<Touch(I)>>
        \/ H = {} /\ q = <<Acquire(I), P, Release(I)>>
        \/ H = {I} /\ q = <<P, Release(I)>>
        \/ H = {I} /\ q = <<Release(I)>>
    BY Written DEF UpdateAt
  <1>2. Doing(g, <<>>, {}) /\ Doing(g, <<P, Release(I)>>, {I}) /\ Doing(g, <<Release(I)>>, {I})
    BY DEF Doing, UpdateAt
  <1>3. MaySend(g, SendChan(g[2])) /\ SendChan(g[2])[1] = "send"
    BY Ranks DEF MaySend
  <1> HIDE DEF I
  <1>4. CASE H = {} /\ q = <<Touch(I)>>
    <2>1. Head(q) = Touch(I) /\ Tail(q) = <<>>
      BY <1>4
    <2> QED BY <1>2, <1>4, <2>1, GoesTouch
  <1>5. CASE H = {} /\ q = <<Acquire(I), P, Release(I)>>
    <2>1. Head(q) = Acquire(I) /\ Tail(q) = <<P, Release(I)>> /\ H \cup {I} = {I}
      BY <1>5
    <2> QED BY <1>2, <1>5, <2>1, GoesLock
  <1>6. CASE H = {I} /\ q = <<P, Release(I)>>
    <2>1. Head(q) = P /\ Tail(q) = <<Release(I)>>
      BY <1>6
    <2> QED BY <1>2, <1>3, <1>6, <2>1, GoesSend
  <1>7. CASE H = {I} /\ q = <<Release(I)>>
    <2>1. Head(q) = Release(I) /\ Tail(q) = <<>> /\ H \ {I} = {}
      BY <1>7
    <2> QED BY <1>2, <1>7, <2>1, GoesUnlock
  <1> QED BY <1>1, <1>4, <1>5, <1>6, <1>7

LEMMA DoingGoes ==
  ASSUME NEW g, NEW q, NEW H, q # <<>>, Doing(g, q, H)
  PROVE  Goes(g, q, H)
  <1>1. CASE g[1] = "recvPdus" /\ H = {} /\ q \in RecvPdus(g[2])
    <2>1. PICK c : q = <<Put(c)>> /\ c[1] \in {"hello", "update"}
      BY <1>1 DEF RecvPdus, HelloChan, UpdateChan
    <2>2. Head(q) = Put(c) /\ Tail(q) = <<>>
      BY <2>1
    <2> QED BY <1>1, <2>1, <2>2, GoesSend DEF Doing, MaySend
  <1>2. CASE H = {} /\ \E l : q = <<Touch(l)>>
    <2>1. PICK l : q = <<Touch(l)>>
      BY <1>2
    <2>2. Head(q) = Touch(l) /\ Tail(q) = <<>>
      BY <2>1
    <2> QED BY <1>2, <2>2, GoesTouch DEF Doing
  <1> QED BY <1>1, <1>2, HelloSendGoes, HelloRecvGoes, UpdateInputGoes, UpdateGoes DEF Doing

-----------------------------------------------------------------------------
(* The invariant                                                           *)

\* A goroutine at the top of its loop holds nothing.
LEMMA EmptyDoing ==
  ASSUME NEW g, NEW H, Doing(g, <<>>, H)
  PROVE  H = {}
  <1>1. ~HelloSendAt(g[2], <<>>, H) \/ H = {}
    BY DEF HelloSendAt
  <1>2. ~UpdateInputAt(g[2], <<>>, H) \/ H = {}
    BY DEF UpdateInputAt, Walk
  <1>3. ~UpdateAt(g[2], <<>>, H) \/ H = {}
    BY DEF UpdateAt
  <1> QED BY <1>1, <1>2, <1>3 DEF Doing, HelloRecvAt

LEMMA ReceiversRun ==
  ASSUME NEW c \in Chan, NEW h \in Receivers(c)
  PROVE  h \in Goroutine
  <1>1. CASE c = TriggerSPF
    BY <1>1 DEF Receivers, TriggerSPF, Goroutine
  <1>2. ASSUME NEW i \in Intf, c \in {HelloChan(i), UpdateChan(i), SendChan(i)}
        PROVE  h \in Goroutine
    BY <1>2 DEF Receivers, HelloChan, UpdateChan, SendChan, Goroutine
  <1> QED BY <1>1, <1>2 DEF Chan

LEMMA FreeIsNobody == Free \notin Goroutine
  BY DEF Free, Goroutine

LEMMA InitInv == Init => LocksInv
  <1> SUFFICES ASSUME Init PROVE LocksInv
    OBVIOUS
  <1>1. \A g \in Goroutine : rest[g] = <<>> /\ Held(g) = {}
    BY FreeIsNobody DEF Init, Held
  <1>2. DOMAIN rest = Goroutine /\ holder \in [Lock -> Goroutine \cup {Free}]
    BY DEF Init
  <1> QED BY <1>1, <1>2 DEF LocksInv, Doing

\* The operation At speaks of, and that g can go on from it.
LEMMA AtGoes ==
  ASSUME LocksInv, NEW g \in Goroutine, NEW op, NEW x, At(g, op, x)
  PROVE  Head(rest[g]).op = op /\ Head(rest[g]).on = x /\ Goes(g, rest[g], Held(g))
  BY DoingGoes DEF At, LocksInv

LEMMA BeginInv ==
  ASSUME "GetIntf" \notin RpcKinds, LocksInv, NEW g \in Goroutine, Begin(g)
  PROVE  LocksInv'
  <1>1. PICK p \in Programs(g) : rest' = [rest EXCEPT ![g] = p]
    BY DEF Begin
  <1>2. rest[g] = <<>> /\ holder' = holder
    BY DEF Begin
  <1>3. \A h : Held(h)' = Held(h)
    BY <1>2 DEF Held
  <1>4. Held(g) = {}
    <2>1. Doing(g, <<>>, Held(g))
      BY <1>2 DEF LocksInv
    <2> QED BY <2>1, EmptyDoing
  <1>5. Doing(g, p, {})
    BY ProgramsDoing
  <1> QED BY <1>1, <1>2, <1>3, <1>4, <1>5 DEF LocksInv

LEMMA LockStepInv ==
  ASSUME LocksInv, NEW g \in Goroutine, NEW l \in Lock, LockStep(g, l)
  PROVE  LocksInv'
  <1>1. /\ At(g, "lock", l) /\ holder[l] = Free
        /\ holder' = [holder EXCEPT ![l] = g] /\ rest' = [rest EXCEPT ![g] = Tail(rest[g])]
    BY DEF LockStep
  <1>2. Doing(g, Tail(rest[g]), Held(g) \cup {l})
    BY <1>1, AtGoes DEF Goes
  <1>3. Held(g)' = Held(g) \cup {l}
    BY <1>1 DEF Held, LocksInv
  <1>4. \A h \in Goroutine : h # g => Held(h)' = Held(h)
    BY <1>1, FreeIsNobody DEF Held, LocksInv
  <1>5. DOMAIN rest' = Goroutine /\ holder' \in [Lock -> Goroutine \cup {Free}]
    BY <1>1 DEF LocksInv
  <1>6. rest'[g] = Tail(rest[g]) /\ \A h \in Goroutine : h # g => rest'[h] = rest[h]
    BY <1>1 DEF LocksInv
  <1> QED BY <1>2, <1>3, <1>4, <1>5, <1>6 DEF LocksInv

LEMMA UnlockStepInv ==
  ASSUME LocksInv, NEW g \in Goroutine, NEW l \in Lock, UnlockStep(g, l)
  PROVE  LocksInv'
  <1>1. /\ At(g, "unlock", l)
        /\ holder' = [holder EXCEPT ![l] = Free] /\ rest' = [rest EXCEPT ![g] = Tail(rest[g])]
    BY DEF UnlockStep
  <1>2. l \in Held(g) /\ Doing(g, Tail(rest[g]), Held(g) \ {l})
    BY <1>1, AtGoes DEF Goes
  <1>3. Held(g)' = Held(g) \ {l}
    BY <1>1, FreeIsNobody DEF Held, LocksInv
  <1>4. \A h \in Goroutine : h # g => Held(h)' = Held(h)
    BY <1>1, <1>2, FreeIsNobody DEF Held, LocksInv
  <1>5. DOMAIN rest' = Goroutine /\ holder' \in [Lock -> Goroutine \cup {Free}]
    BY <1>1 DEF LocksInv
  <1>6. rest'[g] = Tail(rest[g]) /\ \A h \in Goroutine : h # g => rest'[h] = rest[h]
    BY <1>1 DEF LocksInv
  <1> QED BY <1>2, <1>3, <1>4, <1>5, <1>6 DEF LocksInv

LEMMA TouchStepInv ==
  ASSUME LocksInv, NEW g \in Goroutine, NEW l \in Lock, TouchStep(g, l)
  PROVE  LocksInv'
  <1>1. At(g, "touch", l) /\ holder' = holder /\ rest' = [rest EXCEPT ![g] = Tail(rest[g])]
    BY DEF TouchStep
  <1>2. Doing(g, Tail(rest[g]), Held(g))
    BY <1>1, AtGoes DEF Goes
  <1>3. \A h : Held(h)' = Held(h)
    BY <1>1 DEF Held
  <1> QED BY <1>1, <1>2, <1>3 DEF LocksInv

LEMMA RendezvousInv ==
  ASSUME "GetIntf" \notin RpcKinds, LocksInv, NEW g \in Goroutine, NEW c \in Chan, Rendezvous(g, c)
  PROVE  LocksInv'
  <1>1. At(g, "send", c) /\ holder' = holder
    BY DEF Rendezvous
  <1>2. PICK h \in Receivers(c), p \in UNION {Programs(k) : k \in Receivers(c)} :
          /\ rest[h] = <<>> /\ p \in Programs(h)
          /\ rest' = [rest EXCEPT ![g] = Tail(rest[g]), ![h] = p]
    BY DEF Rendezvous
  <1>3. h \in Goroutine /\ h # g
    <2>1. h \in Goroutine
      BY <1>2, ReceiversRun
    <2> QED BY <1>1, <1>2, <2>1 DEF At
  <1>4. Doing(g, Tail(rest[g]), Held(g))
    BY <1>1, AtGoes DEF Goes
  <1>5. Doing(h, p, {}) /\ Held(h) = {}
    <2>1. Doing(h, <<>>, Held(h))
      BY <1>2, <1>3 DEF LocksInv
    <2> QED BY <1>2, <1>3, <2>1, ProgramsDoing, EmptyDoing
  <1>6. \A k : Held(k)' = Held(k)
    BY <1>1 DEF Held
  <1>7. /\ DOMAIN rest' = Goroutine /\ rest'[g] = Tail(rest[g]) /\ rest'[h] = p
        /\ \A k \in Goroutine : k # g /\ k # h => rest'[k] = rest[k]
    BY <1>2, <1>3 DEF LocksInv
  <1> QED BY <1>1, <1>4, <1>5, <1>6, <1>7 DEF LocksInv

LEMMA StepInv ==
  ASSUME "GetIntf" \notin RpcKinds, LocksInv, [Next]_vars
  PROVE  LocksInv'
  <1>1. CASE UNCHANGED vars
    BY <1>1 DEF LocksInv, Held, vars
  <1>2. ASSUME NEW g \in Goroutine, Begin(g) \/ Step(g) PROVE LocksInv'
    BY <1>2, BeginInv, LockStepInv, UnlockStepInv, TouchStepInv, RendezvousInv DEF Step
  <1> QED BY <1>1, <1>2 DEF Next

-----------------------------------------------------------------------------
(* No deadlock                                                             *)

\* A stuck set would have a member that waits for a mutex, of which one of the
\* lowest rank cannot be, or consist of senders, of which one waits for a
\* receiver that sends nothing.
LEMMA NobodyStuck == LocksInv => DeadlockFree
  <1> SUFFICES ASSUME LocksInv, NEW S \in SUBSET {g \in Goroutine : rest[g] # <<>>},
                      S # {}, Stuck(S)
               PROVE  FALSE
    BY DEF DeadlockFree
  <1>1. \A g \in S : g \in Goroutine /\ rest[g] # <<>>
    OBVIOUS
  <1>2. \A i : <<"sendPdus", i>> \notin S
    BY <1>1 DEF LocksInv, Doing
  <1>3. ASSUME NEW g \in S, NEW c \in Chan, At(g, "send", c), Receivers(c) \subseteq S
        PROVE  MaySend(g, c) /\ c[1] # "send" /\ Held(g) = {}
    <2>1. MaySend(g, c) /\ (Held(g) # {} => c[1] = "send")
      <3>1. Goes(g, rest[g], Held(g)) /\ Head(rest[g]).op = "send" /\ Head(rest[g]).on = c
        BY <1>1, <1>3, AtGoes
      <3>2. MaySend(g, Head(rest[g]).on) /\ (Held(g) # {} => Head(rest[g]).on[1] = "send")
        BY <3>1 DEF Goes
      <3> QED BY <3>1, <3>2
    <2>2. c[1] # "send"
      BY <1>2, <1>3 DEF Receivers
    <2> QED BY <2>1, <2>2
  <1>4. ASSUME NEW g \in S, Held(g) # {}
        PROVE  \E l \in Lock : /\ holder[l] \in S
                               /\ \A m \in Held(g) : Rank(l) < Rank(m)
    <2>1. PICK l \in Lock : (At(g, "lock", l) \/ At(g, "touch", l)) /\ holder[l] \in S
      BY <1>3, <1>4 DEF Stuck
    <2> QED BY <1>1, <2>1, AtGoes DEF Goes
  <1>5. ASSUME NEW l \in Lock, holder[l] \in S
        PROVE  \E m \in Lock : holder[m] \in S /\ Rank(m) < Rank(l)
    <2>1. l \in Held(holder[l])
      BY DEF Held
    <2> QED BY <1>4, <1>5, <2>1
  <1>6. \A l \in Lock : Rank(l) \in 1..3
    BY DEF Rank
  <1>7. \A l \in Lock : holder[l] \notin S
    <2>1. \A l \in Lock : Rank(l) < 2 => holder[l] \notin S
      BY <1>5, <1>6
    <2>2. \A l \in Lock : Rank(l) < 3 => holder[l] \notin S
      BY <1>5, <1>6, <2>1
    <2> QED BY <1>5, <1>6, <2>2
  <1>8. \A g \in S : \E c \in Chan : At(g, "send", c) /\ Receivers(c) \subseteq S
    BY <1>7 DEF Stuck
  <1>9. \A d \in Decision : <<"decision", d>> \notin S
    BY <1>3, <1>8 DEF MaySend
  <1>10. ASSUME NEW g \in S, g[1] = "updateInput" PROVE FALSE
    <2>1. PICK c \in Chan : At(g, "send", c) /\ Receivers(c) \subseteq S
      BY <1>8
    <2>2. c = TriggerSPF
      BY <1>3, <1>10, <2>1 DEF MaySend
    <2>3. {"decision"} \X Decision \subseteq S
      BY <2>1, <2>2 DEF Receivers, TriggerSPF
    <2>4. g[2] \in Intf
      BY <1>1, <1>10 DEF Goroutine
    <2>5. PICK d \in Decision : TRUE
      BY <2>4, LocksAssumption
    <2> QED BY <1>9, <2>3, <2>5
  <1>11. ASSUME NEW g \in S, g[1] = "helloRecv" PROVE FALSE
    <2>1. PICK c \in Chan : At(g, "send", c) /\ Receivers(c) \subseteq S
      BY <1>8
    <2> QED BY <1>3, <1>11, <2>1 DEF MaySend
  <1>12. PICK g \in S, c \in Chan : At(g, "send", c) /\ Receivers(c) \subseteq S
    BY <1>8
  <1>13. c[1] \in {"hello", "update"}
    BY <1>3, <1>10, <1>12 DEF MaySend
  <1>14. <<"helloRecv", c[2]>> \in S \/ <<"updateInput", c[2]>> \in S
    BY <1>12, <1>13 DEF Receivers
  <1> QED BY <1>10, <1>11, <1>14

\* The goroutines of a node never wait for each other in a circle, through
\* mutexes and channels alike, whatever its interfaces, as long as no client
\* calls GetIntf.
THEOREM NoDeadlock ==
  ASSUME "GetIntf" \notin RpcKinds
  PROVE  Spec => []DeadlockFree
  <1>1. Init => LocksInv
    BY InitInv
  <1>2. LocksInv /\ [Next]_vars => LocksInv'
    BY StepInv
  <1>3. LocksInv => DeadlockFree
    BY NobodyStuck
  <1> QED BY <1>1, <1>2, <1>3, PTL DEF Spec
=============================================================================
