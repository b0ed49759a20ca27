---------------------------- MODULE HelloProofs ----------------------------
(***************************************************************************)
(* Proofs about the hello process, for every network, every number of      *)
(* configurations, hellos in flight, lost frames and restarts.             *)
(***************************************************************************)
EXTENDS Hello, TLAPS

USE DEF faultVars

-----------------------------------------------------------------------------
(* The inductive invariant.                                                *)

\* What a hello in the receive socket of j tells about its sender.  A plain
\* hello comes from a node that was given an ID at some time; an answer goes to
\* such a node, and comes from an interface that has heard a hello, unless its
\* node has restarted since.  As long as nobody restarts or changes an ID, a
\* hello carries its sender's, and no node that knows its own frames answers
\* itself.
Sound(j, f) ==
  /\ f.src \in Lan[j]
  /\ f.to = NoTlv => Owner[f.src] \in named
  /\ f.to # NoTlv => Owner[f.to] \in named
  /\ f.to # NoTlv /\ Owner[f.src] \notin restarted => state[f.src] # "NEW"
  /\ Undisturbed /\ f.to = NoTlv => f.sid = SidBytes(sid[Owner[f.src]])
  /\ Undisturbed /\ f.to # NoTlv =>
       /\ f.sid \in {SidBytes(sid[Owner[f.src]]), Zero}
       /\ Dotted(Owner[f.to]) => Owner[f.src] # Owner[f.to]

FramesSound == \A j \in Intf : \A x \in 1..Len(inbox[j]) : Sound(j, inbox[j][x])

\* The answer isisHelloRecv(i) is about to send.
RepliesSound ==
  \A i \in Intf : replyTo[i] # NoTlv =>
    /\ state[i] # "NEW"
    /\ Owner[replyTo[i]] \in named
    /\ Undisturbed /\ Dotted(Owner[i]) => Owner[replyTo[i]] # Owner[i]

\* A node that has an ID was given it, and one that was never configured has none.
ConfigsCounted ==
  \A n \in Node : /\ sid[n] # Unset => n \in named
                  /\ n \in named => configs[n] # 0

HelloInv ==
  /\ TypeOK
  /\ FramesSound
  /\ RepliesSound
  /\ ConfigsCounted
  /\ UnconfiguredNeverUp
  /\ UpIsMutual

-----------------------------------------------------------------------------
(* Typing                                                                  *)

\* A frame sent on i joins the queue of every interface that hears i.
LEMMA SendType ==
  ASSUME TypeOK, NEW i \in Intf, NEW f \in Frame, SendHello(i, f)
  PROVE  /\ inbox' \in [Intf -> Seq(Frame)]
         /\ \A j \in Intf : \/ inbox'[j] = inbox[j]
                            \/ i \in Lan[j] /\ inbox'[j] = Append(inbox[j], f)
<1>1. \A j \in Intf : Append(inbox[j], f) \in Seq(Frame)
    BY DEF TypeOK
<1> QED
    BY <1>1, TopologyAssumption DEF TypeOK, SendHello, Heard

\* ConfigureSystemID gives one node a string and records whether it is an ID.
LEMMA ConfigType ==
  ASSUME TypeOK, NEW n \in Node, ConfigureSystemID(n)
  PROVE  \E s \in Sid : /\ sid' = [sid EXCEPT ![n] = s]
                        /\ named' = IF s = Unset THEN named ELSE named \cup {n}
<1>1. Choice \in [Node -> Seq(SUBSET Sid)]
    BY SidAssumption
<1>2. Choice[n] \in Seq(SUBSET Sid) /\ configs[n] + 1 \in 1..Len(Choice[n])
  <2>1. Choice[n] \in Seq(SUBSET Sid) /\ configs[n] \in Nat
    BY <1>1 DEF TypeOK
  <2>2. configs[n] < Len(Choice[n])
    BY DEF ConfigureSystemID
  <2> QED
    BY <2>1, <2>2
<1>3. Choice[n][configs[n] + 1] \subseteq Sid
    BY <1>2
<1> QED
    BY <1>3 DEF ConfigureSystemID

\* Every step of the hello process keeps the types.
LEMMA StepType == TypeOK /\ [Next]_vars => TypeOK'
<1> SUFFICES ASSUME TypeOK, [Next]_vars PROVE TypeOK'
    OBVIOUS
<1> USE TopologyAssumption, SidAssumption
<1>1. ASSUME NEW i \in Intf, HelloSend(i) PROVE TypeOK'
  <2>1. [src |-> i, sid |-> SidBytes(sid[Owner[i]]), to |-> NoTlv] \in Frame
    BY DEF TypeOK, Frame, SidBytes
  <2> QED
    BY <1>1, <2>1, SendType DEF HelloSend, TypeOK
<1>2. ASSUME NEW i \in Intf, SendReply(i) PROVE TypeOK'
  <2>1. [src |-> i, sid |-> SidBytes(sid[Owner[i]]), to |-> replyTo[i]] \in Frame
    BY DEF TypeOK, Frame, SidBytes
  <2> QED
    BY <1>2, <2>1, SendType DEF SendReply, TypeOK
<1>3. ASSUME NEW i \in Intf, RecvHello(i)
      PROVE  inbox' \in [Intf -> Seq(Frame)] /\ Got(i) \in Frame
    BY <1>3 DEF RecvHello, Got, TypeOK
<1>4. ASSUME NEW i \in Intf, RecvOwn(i) PROVE TypeOK'
    BY <1>3, <1>4 DEF RecvOwn, TypeOK
<1>5. ASSUME NEW i \in Intf, RecvPlain(i) PROVE TypeOK'
  <2>1. Got(i).src \in Intf
    BY <1>3, <1>5 DEF RecvPlain, Frame
  <2> QED
    BY <1>3, <1>5, <2>1 DEF RecvPlain, TypeOK
<1>6. ASSUME NEW i \in Intf, RecvMine(i) PROVE TypeOK'
  <2>1. Got(i).sid \in SixBytes
    BY <1>3, <1>6 DEF RecvMine, Frame
  <2> QED
    BY <1>3, <1>6, <2>1 DEF RecvMine, TypeOK
<1>7. ASSUME NEW i \in Intf, RecvOther(i) PROVE TypeOK'
    BY <1>3, <1>7 DEF RecvOther, TypeOK
<1>8. ASSUME NEW n \in Node, ConfigureSystemID(n) PROVE TypeOK'
  <2>1. PICK s \in Sid : /\ sid' = [sid EXCEPT ![n] = s]
                        /\ named' = IF s = Unset THEN named ELSE named \cup {n}
    BY <1>8, ConfigType
  <2>2. sid' \in [Node -> Sid] /\ named' \subseteq Node
    BY <2>1 DEF TypeOK
  <2>3. configs' \in [Node -> Nat]
    BY <1>8 DEF ConfigureSystemID, TypeOK
  <2> QED
    BY <1>8, <2>2, <2>3 DEF ConfigureSystemID, TypeOK
<1>9. ASSUME NEW i \in Intf, Lose(i) PROVE TypeOK'
    BY <1>9 DEF Lose, TypeOK
<1>11. ASSUME NEW n \in Node, Restart(n) PROVE TypeOK'
    BY <1>11 DEF Restart, TypeOK
<1>10. CASE UNCHANGED vars
    BY <1>10 DEF vars, TypeOK
<1> QED
    BY <1>1, <1>2, <1>4, <1>5, <1>6, <1>7, <1>8, <1>9, <1>10, <1>11
    DEF Next, HelloRecv

\* The state of the hello process stays well typed; in particular a hello
\* always carries six bytes of ID, configured or zero.
THEOREM TypeCorrect == Spec => []TypeOK
<1>1. Init => TypeOK
    BY SidAssumption DEF Init, TypeOK
<1> QED
    BY <1>1, StepType, PTL DEF Spec

-----------------------------------------------------------------------------
(* Frames                                                                  *)

\* The frames stay sound if the step keeps sound frames sound and sends only
\* sound ones.
LEMMA FramesMove ==
  ASSUME TypeOK, FramesSound,
         \A j \in Intf, f \in Frame : Sound(j, f) => Sound(j, f)',
         \A j \in Intf : \/ inbox'[j] = inbox[j]
                         \/ inbox'[j] = <<>>
                         \/ inbox[j] # <<>> /\ inbox'[j] = Tail(inbox[j])
                         \/ \E f \in Frame : /\ inbox'[j] = Append(inbox[j], f)
                                             /\ Sound(j, f)'
  PROVE  FramesSound'
<1> SUFFICES ASSUME NEW j \in Intf, NEW x \in 1..Len(inbox'[j])
             PROVE  Sound(j, inbox[j][x])'
    BY DEF FramesSound
<1>0. inbox[j] \in Seq(Frame)
    BY DEF TypeOK
<1>1. ASSUME NEW f \in Frame, f = inbox'[j][x], Sound(j, f)'
      PROVE  Sound(j, inbox[j][x])'
    BY <1>1 DEF Sound
<1>2. CASE inbox'[j] = inbox[j]
    BY <1>0, <1>1, <1>2 DEF FramesSound
<1>3. CASE inbox[j] # <<>> /\ inbox'[j] = Tail(inbox[j])
  <2>1. /\ x + 1 \in 1..Len(inbox[j])
        /\ inbox'[j][x] = inbox[j][x + 1]
        /\ inbox[j][x + 1] \in Frame
    BY <1>0, <1>3
  <2> QED
    BY <1>1, <2>1 DEF FramesSound
<1>4. ASSUME NEW f \in Frame, inbox'[j] = Append(inbox[j], f), Sound(j, f)'
      PROVE  Sound(j, inbox[j][x])'
  <2>1. CASE x \in 1..Len(inbox[j])
    <3>1. inbox'[j][x] = inbox[j][x] /\ inbox[j][x] \in Frame
      BY <1>0, <1>4, <2>1
    <3> QED
      BY <1>1, <2>1, <3>1 DEF FramesSound
  <2>2. CASE x \notin 1..Len(inbox[j])
    <3>1. inbox'[j][x] = f
      BY <1>0, <1>4, <2>2
    <3> QED
      BY <1>1, <1>4, <3>1
  <2> QED
    BY <2>1, <2>2
<1>5. CASE inbox'[j] = <<>>
    BY <1>5
<1> QED
    BY <1>2, <1>3, <1>4, <1>5

\* The head of a queue is a sound frame.
LEMMA GotSound ==
  ASSUME TypeOK, FramesSound, NEW i \in Intf, RecvHello(i)
  PROVE  Got(i) \in Frame /\ Sound(i, Got(i))
<1>1. inbox[i] \in Seq(Frame) /\ inbox[i] # <<>>
    BY DEF TypeOK, RecvHello
<1>2. 1 \in 1..Len(inbox[i]) /\ Got(i) = inbox[i][1] /\ Got(i) \in Frame
    BY <1>1 DEF Got
<1> QED
    BY <1>2 DEF FramesSound

\* Receiving or losing a frame.
LEMMA TakeFrame ==
  ASSUME TypeOK, NEW i \in Intf, inbox[i] # <<>>, inbox' = [inbox EXCEPT ![i] = Tail(@)]
  PROVE  \A j \in Intf : \/ inbox'[j] = inbox[j]
                         \/ inbox[j] # <<>> /\ inbox'[j] = Tail(inbox[j])
BY DEF TypeOK

-----------------------------------------------------------------------------
(* One lemma per kind of step.                                             *)

\* A periodic hello, or the answer to one.
LEMMA SendKeeps ==
  ASSUME HelloInv, TypeOK', NEW i \in Intf, HelloSend(i) \/ SendReply(i)
  PROVE  HelloInv'
<1> USE TopologyAssumption, SidAssumption DEF HelloInv
<1>1. UNCHANGED <<sid, state, nbr, configs, named, restarted>>
    BY DEF HelloSend, SendReply
<1>2. \A j \in Intf, f \in Frame : Sound(j, f) <=> Sound(j, f)'
    BY <1>1 DEF Sound, Undisturbed, Dotted
<1>3. PICK f \in Frame :
        /\ SendHello(i, f)
        /\ \A j \in Intf : i \in Lan[j] => Sound(j, f)
  <2>1. CASE HelloSend(i)
    <3> DEFINE f == [src |-> i, sid |-> SidBytes(sid[Owner[i]]), to |-> NoTlv]
    <3>1. f \in Frame
      BY DEF TypeOK, Frame, SidBytes
    <3>2. \A j \in Intf : i \in Lan[j] => Sound(j, f)
      BY <2>1 DEF HelloSend, Sound, ConfigsCounted, TypeOK
    <3> QED
      BY <2>1, <3>1, <3>2 DEF HelloSend
  <2>2. CASE SendReply(i)
    <3> DEFINE f == [src |-> i, sid |-> SidBytes(sid[Owner[i]]), to |-> replyTo[i]]
    <3>1. f \in Frame
      BY DEF TypeOK, Frame, SidBytes
    <3>2. /\ replyTo[i] # NoTlv
          /\ state[i] # "NEW"
          /\ Owner[replyTo[i]] \in named
          /\ Undisturbed /\ Dotted(Owner[i]) => Owner[replyTo[i]] # Owner[i]
      BY <2>2 DEF SendReply, RepliesSound
    <3>3. \A j \in Intf : i \in Lan[j] => Sound(j, f)
      BY <3>2 DEF Sound
    <3> QED
      BY <2>2, <3>1, <3>3 DEF SendReply
  <2> QED
    BY <2>1, <2>2
<1>4. FramesSound'
  <2>1. \A j \in Intf : \/ inbox'[j] = inbox[j]
                        \/ i \in Lan[j] /\ inbox'[j] = Append(inbox[j], f)
    BY <1>3, SendType
  <2>2. \A j \in Intf : \/ inbox'[j] = inbox[j]
                        \/ inbox'[j] = Append(inbox[j], f) /\ Sound(j, f)'
    BY <1>2, <1>3, <2>1
  <2> QED
    BY <1>2, <2>2, FramesMove
<1>5. RepliesSound'
  <2>1. Undisturbed' <=> Undisturbed
    BY <1>1 DEF Undisturbed
  <2>2. \A j \in Intf : replyTo'[j] \in {replyTo[j], NoTlv}
    BY DEF HelloSend, SendReply, TypeOK
  <2> QED
    BY <1>1, <2>1, <2>2 DEF RepliesSound, Dotted
<1>6. ConfigsCounted' /\ UnconfiguredNeverUp'
    BY <1>1 DEF ConfigsCounted, UnconfiguredNeverUp
<1>7. UpIsMutual'
    BY <1>1 DEF UpIsMutual, Undisturbed, Dotted
<1> QED
    BY <1>4, <1>5, <1>6, <1>7

\* A hello that is ignored, or lost.
LEMMA DropKeeps ==
  ASSUME HelloInv, TypeOK', NEW i \in Intf, RecvOwn(i) \/ RecvOther(i) \/ Lose(i)
  PROVE  HelloInv'
<1> USE DEF HelloInv
<1>1. /\ UNCHANGED <<sid, state, nbr, replyTo, configs, named, restarted>>
      /\ inbox[i] # <<>> /\ inbox' = [inbox EXCEPT ![i] = Tail(@)]
    BY DEF RecvOwn, RecvOther, Lose, RecvHello
<1>2. \A j \in Intf, f \in Frame : Sound(j, f) <=> Sound(j, f)'
    BY <1>1 DEF Sound, Undisturbed, Dotted
<1>3. FramesSound'
    BY <1>1, <1>2, TakeFrame, FramesMove
<1>4. RepliesSound' /\ ConfigsCounted'
    BY <1>1 DEF RepliesSound, ConfigsCounted, Undisturbed, Dotted
<1>5. UnconfiguredNeverUp' /\ UpIsMutual'
    BY <1>1 DEF UnconfiguredNeverUp, UpIsMutual, Undisturbed, Dotted
<1> QED
    BY <1>3, <1>4, <1>5

\* A hello without TLVs.  The system ID check keeps the node from answering
\* itself: with IDs configured once, a frame of its own carries its own ID.
LEMMA PlainKeeps ==
  ASSUME HelloInv, TypeOK', NEW i \in Intf, RecvPlain(i)
  PROVE  HelloInv'
<1> USE TopologyAssumption DEF HelloInv
<1>1. /\ UNCHANGED <<sid, nbr, configs, named, restarted>>
      /\ RecvHello(i)
      /\ inbox[i] # <<>> /\ inbox' = [inbox EXCEPT ![i] = Tail(@)]
      /\ \A j \in Intf : state[j] # "NEW" => state'[j] # "NEW"
      /\ \A j \in Intf : state'[j] = "UP" <=> state[j] = "UP"
      /\ state'[i] # "NEW"
      /\ replyTo' = [replyTo EXCEPT ![i] = Got(i).src]
    BY DEF RecvPlain, RecvHello, TypeOK
<1>2. ASSUME NEW j \in Intf, NEW f \in Frame, Sound(j, f) PROVE Sound(j, f)'
    BY <1>1, <1>2 DEF Sound, Undisturbed, Dotted, Frame
<1>3. FramesSound'
    BY <1>1, <1>2, TakeFrame, FramesMove
<1>4. RepliesSound'
  <2>1. Got(i) \in Frame /\ Sound(i, Got(i)) /\ Got(i).to = NoTlv /\ ~IsOwn(i)
    BY <1>1, GotSound DEF RecvPlain
  <2>2. /\ Owner[Got(i).src] \in named
        /\ Undisturbed /\ Dotted(Owner[i]) => Owner[Got(i).src] # Owner[i]
    BY <2>1 DEF Sound, IsOwn, Dotted
  <2>3. Undisturbed' <=> Undisturbed
    BY <1>1 DEF Undisturbed
  <2>4. /\ replyTo'[i] = Got(i).src
        /\ \A j \in Intf : j # i => replyTo'[j] = replyTo[j]
    BY <1>1 DEF TypeOK
  <2> QED
    BY <1>1, <2>2, <2>3, <2>4 DEF RepliesSound, Dotted
<1>5. ConfigsCounted' /\ UnconfiguredNeverUp'
    BY <1>1 DEF ConfigsCounted, UnconfiguredNeverUp
<1>6. UpIsMutual'
    BY <1>1 DEF UpIsMutual, Undisturbed, Dotted
<1> QED
    BY <1>3, <1>4, <1>5, <1>6

\* A hello that names our MAC: its sender has heard us.
LEMMA MineKeeps ==
  ASSUME HelloInv, TypeOK', NEW i \in Intf, RecvMine(i)
  PROVE  HelloInv'
<1> USE TopologyAssumption, SidAssumption DEF HelloInv
<1>1. /\ UNCHANGED <<sid, replyTo, configs, named, restarted>>
      /\ RecvHello(i)
      /\ inbox[i] # <<>> /\ inbox' = [inbox EXCEPT ![i] = Tail(@)]
      /\ \A j \in Intf : j # i => state'[j] = state[j] /\ nbr'[j] = nbr[j]
      /\ state'[i] = "UP" /\ nbr'[i] = Got(i).sid
      /\ Got(i).to = i
    BY DEF RecvMine, RecvHello, TypeOK
<1>2. ASSUME NEW j \in Intf, NEW f \in Frame, Sound(j, f) PROVE Sound(j, f)'
    BY <1>1, <1>2 DEF Sound, Undisturbed, Dotted, Frame
<1>3. FramesSound'
    BY <1>1, <1>2, TakeFrame, FramesMove
<1>4. RepliesSound' /\ ConfigsCounted'
    BY <1>1 DEF RepliesSound, ConfigsCounted, Undisturbed, Dotted
<1>5. /\ Got(i) \in Frame /\ Got(i).src \in Lan[i]
      /\ Owner[i] \in named
      /\ Undisturbed => /\ state[Got(i).src] # "NEW"
                        /\ Got(i).sid \in {SidBytes(sid[Owner[Got(i).src]]), Zero}
                        /\ Dotted(Owner[i]) => Owner[Got(i).src] # Owner[i]
    BY <1>1, GotSound DEF Sound, Undisturbed, Dotted
<1>7. UnconfiguredNeverUp'
    BY <1>1, <1>5 DEF UnconfiguredNeverUp
<1>8. UpIsMutual'
  <2> SUFFICES ASSUME Undisturbed, NEW j \in Intf, state'[j] = "UP"
               PROVE  \E p \in Lan[j] : /\ Dotted(Owner[j]) => Owner[p] # Owner[j]
                                       /\ state'[p] # "NEW"
                                       /\ nbr'[j] \in {SidBytes(sid[Owner[p]]), Zero}
    BY <1>1 DEF UpIsMutual, Undisturbed, Dotted
  <2>1. CASE j = i
    <3>1. state'[Got(i).src] # "NEW"
      BY <1>1, <1>5 DEF Frame
    <3> QED
      BY <1>1, <1>5, <2>1, <3>1
  <2>2. CASE j # i
    <3>1. PICK p \in Lan[j] : /\ Dotted(Owner[j]) => Owner[p] # Owner[j]
                              /\ state[p] # "NEW"
                              /\ nbr[j] \in {SidBytes(sid[Owner[p]]), Zero}
      BY <1>1, <2>2 DEF UpIsMutual
    <3> QED
      BY <1>1, <2>2, <3>1
  <2> QED
    BY <2>1, <2>2
<1> QED
    BY <1>3, <1>4, <1>7, <1>8

\* A node is sent an ID.  If it is the first time, nobody has heard of the node.
LEMMA ConfigKeeps ==
  ASSUME HelloInv, TypeOK', NEW n \in Node, ConfigureSystemID(n)
  PROVE  HelloInv'
<1> USE TopologyAssumption, SidAssumption DEF HelloInv
<1>1. /\ UNCHANGED <<state, nbr, inbox, replyTo, restarted>>
      /\ \A m \in Node : m # n => sid'[m] = sid[m] /\ configs'[m] = configs[m]
      /\ configs'[n] = configs[n] + 1 /\ configs[n] \in Nat
      /\ named \subseteq named' /\ named' \subseteq named \cup {n}
      /\ sid'[n] # Unset => n \in named'
  <2>1. PICK s \in Sid : /\ sid' = [sid EXCEPT ![n] = s]
                        /\ named' = IF s = Unset THEN named ELSE named \cup {n}
    BY ConfigType
  <2>2. /\ \A m \in Node : m # n => sid'[m] = sid[m]
        /\ sid'[n] = s
        /\ named \subseteq named' /\ named' \subseteq named \cup {n}
    BY <2>1 DEF TypeOK
  <2>3. /\ UNCHANGED <<state, nbr, inbox, replyTo, restarted>>
        /\ \A m \in Node : m # n => configs'[m] = configs[m]
        /\ configs'[n] = configs[n] + 1 /\ configs[n] \in Nat
    BY DEF ConfigureSystemID, TypeOK
  <2> QED
    BY <2>1, <2>2, <2>3
<1>2. Undisturbed' => Undisturbed /\ n \notin named /\ sid[n] = Unset
  <2> SUFFICES ASSUME Undisturbed' PROVE Undisturbed /\ n \notin named /\ sid[n] = Unset
    OBVIOUS
  <2>1. configs[n] = 0
    BY <1>1 DEF Undisturbed
  <2>2. restarted = {} /\ \A m \in Node : configs'[m] <= 1
    BY <1>1 DEF Undisturbed
  <2>3. \A m \in Node : configs[m] <= 1
    BY <1>1, <2>1, <2>2
  <2>4. Undisturbed
    BY <2>2, <2>3 DEF Undisturbed
  <2> QED
    BY <2>1, <2>4 DEF ConfigsCounted
<1>3. \A m \in Node : m # n => (Dotted(m)' <=> Dotted(m))
    BY <1>1 DEF Dotted
\* What a frame or an adjacency learned from an interface stays true of it: if
\* that was one of n, it answered without an ID.
<1>4. ASSUME Undisturbed', NEW i \in Intf, NEW b \in {SidBytes(sid[Owner[i]]), Zero}
      PROVE  b \in {SidBytes(sid'[Owner[i]]), Zero}
    BY <1>1, <1>2, <1>4 DEF SidBytes
<1>5. ASSUME NEW j \in Intf, NEW f \in Frame, Sound(j, f) PROVE Sound(j, f)'
  <2>1. /\ f.src \in Intf /\ Owner[f.src] \in Node
        /\ f.to # NoTlv => f.to \in Intf /\ Owner[f.to] \in Node
    BY DEF Frame
  <2>2. /\ f.src \in Lan[j]
        /\ f.to = NoTlv => Owner[f.src] \in named'
        /\ f.to # NoTlv => Owner[f.to] \in named'
        /\ f.to # NoTlv /\ Owner[f.src] \notin restarted' => state'[f.src] # "NEW"
    BY <1>1, <1>5 DEF Sound
  <2>3. ASSUME Undisturbed', f.to = NoTlv PROVE f.sid = SidBytes(sid'[Owner[f.src]])
    <3>1. Owner[f.src] # n /\ f.sid = SidBytes(sid[Owner[f.src]])
      BY <1>2, <1>5, <2>3 DEF Sound
    <3> QED
      BY <1>1, <2>1, <3>1
  <2>4. ASSUME Undisturbed', f.to # NoTlv
        PROVE  /\ f.sid \in {SidBytes(sid'[Owner[f.src]]), Zero}
               /\ Dotted(Owner[f.to])' => Owner[f.src] # Owner[f.to]
    <3>1. /\ Owner[f.to] # n
          /\ f.sid \in {SidBytes(sid[Owner[f.src]]), Zero}
          /\ Dotted(Owner[f.to]) => Owner[f.src] # Owner[f.to]
      BY <1>2, <1>5, <2>4 DEF Sound
    <3>2. f.sid \in {SidBytes(sid'[Owner[f.src]]), Zero}
      BY <1>4, <2>1, <2>4, <3>1
    <3> QED
      BY <1>3, <2>1, <2>4, <3>1, <3>2
  <2>5. (f.to # NoTlv /\ Dotted(Owner[f.to])') => (f.to # NoTlv /\ Dotted(Owner[f.to]))'
    OBVIOUS
  <2> QED
    BY <2>2, <2>3, <2>4 DEF Sound, Dotted
<1>6. FramesSound'
    BY <1>1, <1>5, FramesMove
<1>7. RepliesSound'
  <2> SUFFICES ASSUME NEW i \in Intf, replyTo[i] # NoTlv
               PROVE  /\ state[i] # "NEW"
                      /\ Owner[replyTo[i]] \in named'
                      /\ Undisturbed' /\ Dotted(Owner[i])' => Owner[replyTo[i]] # Owner[i]
    BY <1>1 DEF RepliesSound, Dotted
  <2>1. /\ state[i] # "NEW"
        /\ Owner[replyTo[i]] \in named
        /\ Undisturbed /\ Dotted(Owner[i]) => Owner[replyTo[i]] # Owner[i]
    BY DEF RepliesSound
  <2> QED
    BY <1>1, <1>2, <1>3, <2>1
<1>8. ConfigsCounted'
  <2> SUFFICES ASSUME NEW m \in Node
               PROVE  /\ sid'[m] # Unset => m \in named'
                      /\ m \in named' => configs'[m] # 0
    BY DEF ConfigsCounted
  <2>1. CASE m = n
    BY <1>1, <2>1
  <2>2. CASE m # n
    BY <1>1, <2>2 DEF ConfigsCounted
  <2> QED
    BY <2>1, <2>2
<1>9. UnconfiguredNeverUp'
    BY <1>1 DEF UnconfiguredNeverUp
<1>10. UpIsMutual'
  <2> SUFFICES ASSUME Undisturbed', NEW i \in Intf, state[i] = "UP"
               PROVE  \E p \in Lan[i] : /\ Dotted(Owner[i])' => Owner[p] # Owner[i]
                                       /\ state[p] # "NEW"
                                       /\ nbr[i] \in {SidBytes(sid'[Owner[p]]), Zero}
    BY <1>1 DEF UpIsMutual, Dotted
  <2>1. PICK p \in Lan[i] : /\ Dotted(Owner[i]) => Owner[p] # Owner[i]
                            /\ state[p] # "NEW"
                            /\ nbr[i] \in {SidBytes(sid[Owner[p]]), Zero}
    BY <1>2 DEF UpIsMutual
  <2>2. Owner[i] # n
    BY <1>2 DEF UnconfiguredNeverUp
  <2>3. p \in Intf /\ nbr[i] \in {SidBytes(sid'[Owner[p]]), Zero}
    BY <1>4, <2>1
  <2> QED
    BY <1>3, <2>1, <2>2, <2>3
<1> QED
    BY <1>6, <1>7, <1>8, <1>9, <1>10

\* A node restarts: what is known of it is suspended, and it has nothing itself.
LEMMA RestartKeeps ==
  ASSUME HelloInv, TypeOK', NEW n \in Node, Restart(n)
  PROVE  HelloInv'
<1> USE TopologyAssumption, SidAssumption DEF HelloInv
<1>1. /\ \A i \in Intf : Owner[i] # n => /\ state'[i] = state[i] /\ nbr'[i] = nbr[i]
                                         /\ inbox'[i] = inbox[i] /\ replyTo'[i] = replyTo[i]
      /\ \A i \in Intf : Owner[i] = n => /\ state'[i] = "NEW"
                                         /\ inbox'[i] = <<>> /\ replyTo'[i] = NoTlv
      /\ \A m \in Node : m # n => sid'[m] = sid[m]
      /\ sid'[n] = Unset
      /\ restarted' = restarted \cup {n} /\ configs' = configs /\ named' = named
    BY DEF Restart, TypeOK
<1>2. ~Undisturbed'
    BY <1>1 DEF Undisturbed
<1>3. ASSUME NEW j \in Intf, NEW f \in Frame, Sound(j, f) PROVE Sound(j, f)'
  <2>1. f.src \in Intf /\ f.to \in Intf \cup {NoTlv}
    BY DEF Frame
  <2> QED
    BY <1>1, <1>2, <1>3, <2>1 DEF Sound
<1>4. FramesSound'
    BY <1>1, <1>3, FramesMove
<1>5. RepliesSound'
    BY <1>1, <1>2 DEF RepliesSound, TypeOK
<1>6. ConfigsCounted'
    BY <1>1 DEF ConfigsCounted
<1>7. UnconfiguredNeverUp'
    BY <1>1 DEF UnconfiguredNeverUp
<1>8. UpIsMutual'
    BY <1>2 DEF UpIsMutual
<1> QED
    BY <1>4, <1>5, <1>6, <1>7, <1>8

-----------------------------------------------------------------------------
LEMMA InitHello == Init => HelloInv
<1> SUFFICES ASSUME Init PROVE HelloInv
    OBVIOUS
<1>1. TypeOK
    BY SidAssumption DEF Init, TypeOK
<1>2. FramesSound /\ RepliesSound /\ ConfigsCounted
    BY DEF Init, FramesSound, RepliesSound, ConfigsCounted
<1>3. UnconfiguredNeverUp /\ UpIsMutual
    BY DEF Init, UnconfiguredNeverUp, UpIsMutual
<1> QED
    BY <1>1, <1>2, <1>3 DEF HelloInv

\* Every step of the hello process keeps the invariant.
LEMMA StepHello == HelloInv /\ [Next]_vars => HelloInv'
<1> SUFFICES ASSUME HelloInv, [Next]_vars PROVE HelloInv'
    OBVIOUS
<1>1. TypeOK'
    BY StepType DEF HelloInv
<1>2. ASSUME NEW i \in Intf, HelloSend(i) \/ SendReply(i) PROVE HelloInv'
    BY <1>1, <1>2, SendKeeps
<1>3. ASSUME NEW i \in Intf, RecvOwn(i) \/ RecvOther(i) \/ Lose(i) PROVE HelloInv'
    BY <1>1, <1>3, DropKeeps
<1>4. ASSUME NEW i \in Intf, RecvPlain(i) PROVE HelloInv'
    BY <1>1, <1>4, PlainKeeps
<1>5. ASSUME NEW i \in Intf, RecvMine(i) PROVE HelloInv'
    BY <1>1, <1>5, MineKeeps
<1>6. ASSUME NEW n \in Node, ConfigureSystemID(n) PROVE HelloInv'
    BY <1>1, <1>6, ConfigKeeps
<1>7. CASE UNCHANGED vars
    BY <1>7 DEF vars, HelloInv, TypeOK, FramesSound, Sound, RepliesSound, ConfigsCounted,
                UnconfiguredNeverUp, UpIsMutual, Undisturbed, Dotted
<1>8. ASSUME NEW n \in Node, Restart(n) PROVE HelloInv'
    BY <1>1, <1>8, RestartKeeps
<1> QED
    BY <1>2, <1>3, <1>4, <1>5, <1>6, <1>7, <1>8 DEF Next, HelloRecv

\* The inductive invariant holds in every reachable state.
THEOREM HelloInvariant == Spec => []HelloInv
    BY InitHello, StepHello, PTL DEF Spec

\* On every segment, with any number of nodes and whatever IDs, malformed and
\* equal ones included: an adjacency that is UP leads to an interface that has
\* heard a hello, and never back to a node whose ID is spelled as frames print
\* it, as long as IDs do not change and no daemon restarts.
THEOREM HandshakeIsMutual == Spec => []UpIsMutual
<1>1. HelloInv => UpIsMutual
    BY DEF HelloInv
<1> QED
    BY <1>1, HelloInvariant, PTL

\* In every network, through any number of restarts and of IDs given and taken
\* away: a node that was never given one has no adjacency UP.
THEOREM NoIdNoAdjacency == Spec => []UnconfiguredNeverUp
<1>1. HelloInv => UnconfiguredNeverUp
    BY DEF HelloInv
<1> QED
    BY <1>1, HelloInvariant, PTL
=============================================================================
