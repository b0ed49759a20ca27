------------------------------- MODULE Hello -------------------------------
(***************************************************************************)
(* The hello process of go-is-is (hello.go): the three-way handshake that  *)
(* brings the adjacency of an interface from NEW over INIT to UP, and the  *)
(* system ID the operator configures while it runs (main.go).              *)
(*                                                                         *)
(* Per interface run isisHelloSend, which repeats a hello without TLVs     *)
(* until the adjacency is UP, and isisHelloRecv, which answers it with the  *)
(* sender's MAC in TLV 6.  The call of generateLocalLsp that ends the      *)
(* handshake is modelled in UpdateProcess and changes nothing here.        *)
(*                                                                         *)
(* cfg.sid is the string the operator sent, whatever it is; frames carry   *)
(* six bytes.  hello.go:211 compares the two by printing the bytes, so the *)
(* string that was configured and the string a frame prints as are kept    *)
(* apart here: only a lower-case dotted ID is its own print.               *)
(***************************************************************************)
EXTENDS Topology, Naturals, Sequences, FiniteSets

CONSTANTS
  Sid,          \* the strings ConfigureSystemID may bring, "" among them
  SixBytes,     \* what SourceSystemID in a frame may hold
  DecodeSid,    \* DecodeSid[s]: dots out, hex.DecodeString, copy to six bytes
  PrintSid,     \* PrintSid[b]: the lower-case hex digits of b with two dots
  Choice,       \* bound: Choice[n][c] are the system IDs the c-th call of
                \* ConfigureSystemID on n may bring
  Unset,        \* "", the value cfg.sid has from initConfig
  Zero,         \* the six zero bytes of 0000.0000.0000
  NoTlv,        \* a hello without TLVs
  MaxInFlight,  \* bound: an interface sends a periodic hello only while every
                \* socket holds fewer of its frames than this
  MaxFaults     \* bound: frames the network loses and restarts, together

ASSUME SidAssumption ==
  /\ Choice \in [Node -> Seq(SUBSET Sid)]
  /\ Unset \in Sid \ SixBytes /\ Zero \in SixBytes
  /\ DecodeSid \in [Sid -> SixBytes] /\ DecodeSid[Unset] = Zero
  /\ PrintSid \in [SixBytes -> Sid \ {Unset}]
  /\ \A b \in SixBytes : DecodeSid[PrintSid[b]] = b
  /\ NoTlv \notin Intf
ASSUME HelloBounds == MaxInFlight \in Nat \ {0} /\ MaxFaults \in Nat

VARIABLES
  sid,       \* sid[n]: cfg.sid
  state,     \* state[i]: intf.adj.state
  nbr,       \* nbr[i]: intf.adj.neighborSystemID, Unset while it is nil
  inbox,     \* inbox[i]: hello frames in the receive socket of i
  replyTo,   \* replyTo[i]: the MAC isisHelloRecv(i) is about to answer, or NoTlv
  configs,   \* configs[n]: ConfigureSystemID calls so far
  restarted, \* history: the nodes whose daemon has restarted
  named,     \* history: the nodes that have ever been given an ID
  faults     \* lost frames and restarts so far

faultVars == <<restarted, faults>>
vars == <<sid, state, nbr, inbox, replyTo, configs, named, faultVars>>

-----------------------------------------------------------------------------
\* A hello: source MAC, SourceSystemID, and the MAC in TLV 6 if there is one.
Frame == [src : Intf, sid : SixBytes, to : Intf \cup {NoTlv}]

\* Faulty variant of SidBytes: the ID goes out as it is.
SidAsIs(s) == s

\* systemIDToBytes.  Case and dots are lost, what is not hex is dropped, and ""
\* leaves six zeros.
SidBytes(s) == DecodeSid[s]

\* systemIDToString of six bytes.
SidText(b) == PrintSid[b]

\* sendHello on interface i, through sendPdus to every receive socket.
SendHello(i, f) ==
  inbox' = [j \in Intf |-> IF j \in Heard(i) THEN Append(inbox[j], f) ELSE inbox[j]]

\* Frames of i that socket j still holds.
InFlight(i, j) == Cardinality({x \in DOMAIN inbox[j] : inbox[j][x].src = i})

\* Faulty variant of HelloSend: cfg.sid != "" is not tested.
HelloSendAlways(i) ==
  /\ state[i] # "UP"
  /\ \A j \in Heard(i) : InFlight(i, j) < MaxInFlight
  /\ SendHello(i, [src |-> i, sid |-> SidBytes(sid[Owner[i]]), to |-> NoTlv])
  /\ UNCHANGED <<sid, state, nbr, replyTo, configs, named, faultVars>>

\* One round of isisHelloSend, under intf.lock and cfg.lock.
HelloSend(i) ==
  /\ sid[Owner[i]] # Unset
  /\ state[i] # "UP"
  /\ \A j \in Heard(i) : InFlight(i, j) < MaxInFlight
  /\ SendHello(i, [src |-> i, sid |-> SidBytes(sid[Owner[i]]), to |-> NoTlv])
  /\ UNCHANGED <<sid, state, nbr, replyTo, configs, named, faultVars>>

\* recvHello takes the next hello off the socket.  isisHelloRecv is between two
\* hellos when it has no answer to send.
RecvHello(i) ==
  /\ replyTo[i] = NoTlv
  /\ inbox[i] # <<>>
  /\ inbox' = [inbox EXCEPT ![i] = Tail(@)]

\* The hello it took.
Got(i) == Head(inbox[i])

\* Faulty variant of IsOwn: no hello is dropped.
IsOwnNever(i) == FALSE

\* "This should not be our own system id, drop it if it is."  The ID in the frame
\* is printed; what cfg.sid holds is not.
IsOwn(i) == SidText(Got(i).sid) = sid[Owner[i]]

RecvOwn(i) ==
  /\ RecvHello(i)
  /\ IsOwn(i)
  /\ UNCHANGED <<sid, state, nbr, replyTo, configs, named, faultVars>>

\* Faulty variant of RecvPlain: only an adjacency that is not UP answers.
RecvPlainUntilUp(i) ==
  /\ RecvHello(i)
  /\ ~IsOwn(i)
  /\ Got(i).to = NoTlv
  /\ state' = [state EXCEPT ![i] = IF @ = "UP" THEN @ ELSE "INIT"]
  /\ replyTo' = [replyTo EXCEPT ![i] = IF state[i] = "UP" THEN NoTlv ELSE Got(i).src]
  /\ UNCHANGED <<sid, nbr, configs, named, faultVars>>

\* No TLV: the adjacency is initializing, and an answer is due.
RecvPlain(i) ==
  /\ RecvHello(i)
  /\ ~IsOwn(i)
  /\ Got(i).to = NoTlv
  /\ state' = [state EXCEPT ![i] = IF @ = "UP" THEN @ ELSE "INIT"]
  /\ replyTo' = [replyTo EXCEPT ![i] = Got(i).src]
  /\ UNCHANGED <<sid, nbr, configs, named, faultVars>>

\* The answer, after intf.lock was released; cfg.sid is read without cfg.lock.
SendReply(i) ==
  /\ replyTo[i] # NoTlv
  /\ SendHello(i, [src |-> i, sid |-> SidBytes(sid[Owner[i]]), to |-> replyTo[i]])
  /\ replyTo' = [replyTo EXCEPT ![i] = NoTlv]
  /\ UNCHANGED <<sid, state, nbr, configs, named, faultVars>>

\* TLV 6 holds our own MAC: the adjacency is UP with the sender.
RecvMine(i) ==
  /\ RecvHello(i)
  /\ ~IsOwn(i)
  /\ Got(i).to = i
  /\ state' = [state EXCEPT ![i] = "UP"]
  /\ nbr' = [nbr EXCEPT ![i] = Got(i).sid]
  /\ UNCHANGED <<sid, replyTo, configs, named, faultVars>>

\* TLV 6 holds another MAC.
RecvOther(i) ==
  /\ RecvHello(i)
  /\ ~IsOwn(i)
  /\ Got(i).to \notin {i, NoTlv}
  /\ UNCHANGED <<sid, state, nbr, replyTo, configs, named, faultVars>>

\* The gRPC call ConfigureSystemID stores any string at any time: the empty one
\* takes the ID away again, also from a node that is UP.
ConfigureSystemID(n) ==
  /\ configs[n] < Len(Choice[n])
  /\ \E s \in Choice[n][configs[n] + 1] :
       /\ sid' = [sid EXCEPT ![n] = s]
       /\ named' = IF s = Unset THEN named ELSE named \cup {n}
  /\ configs' = [configs EXCEPT ![n] = @ + 1]
  /\ UNCHANGED <<state, nbr, inbox, replyTo, faultVars>>

\* The network drops a frame.
Lose(i) ==
  /\ faults < MaxFaults
  /\ inbox[i] # <<>>
  /\ inbox' = [inbox EXCEPT ![i] = Tail(@)]
  /\ faults' = faults + 1
  /\ UNCHANGED <<sid, state, nbr, replyTo, configs, named, restarted>>

\* The daemon of n dies and main runs again: initConfig and initInterfaces build
\* everything anew and the new sockets are empty.  What it sent is still under
\* way, and the others keep the adjacencies they have with it.
Restart(n) ==
  /\ faults < MaxFaults
  /\ sid' = [sid EXCEPT ![n] = Unset]
  /\ state' = [i \in Intf |-> IF Owner[i] = n THEN "NEW" ELSE state[i]]
  /\ nbr' = [i \in Intf |-> IF Owner[i] = n THEN Unset ELSE nbr[i]]
  /\ inbox' = [i \in Intf |-> IF Owner[i] = n THEN <<>> ELSE inbox[i]]
  /\ replyTo' = [i \in Intf |-> IF Owner[i] = n THEN NoTlv ELSE replyTo[i]]
  /\ restarted' = restarted \cup {n}
  /\ faults' = faults + 1
  /\ UNCHANGED <<configs, named>>

-----------------------------------------------------------------------------
\* initConfig and initInterfaces.
Init ==
  /\ sid = [n \in Node |-> Unset]
  /\ state = [i \in Intf |-> "NEW"]
  /\ nbr = [i \in Intf |-> Unset]
  /\ inbox = [i \in Intf |-> <<>>]
  /\ replyTo = [i \in Intf |-> NoTlv]
  /\ configs = [n \in Node |-> 0]
  /\ restarted = {} /\ named = {} /\ faults = 0

HelloRecv(i) ==
  RecvOwn(i) \/ RecvPlain(i) \/ SendReply(i) \/ RecvMine(i) \/ RecvOther(i)

Next ==
  \/ \E i \in Intf : HelloSend(i) \/ HelloRecv(i) \/ Lose(i)
  \/ \E n \in Node : ConfigureSystemID(n) \/ Restart(n)

Spec == Init /\ [][Next]_vars

\* The two goroutines of an interface keep running; nobody has to configure.
Fairness == \A i \in Intf : WF_vars(HelloSend(i)) /\ WF_vars(HelloRecv(i))

FairSpec == Spec /\ Fairness

-----------------------------------------------------------------------------
(* Properties                                                              *)

TypeOK ==
  /\ sid \in [Node -> Sid]
  /\ state \in [Intf -> {"NEW", "INIT", "UP"}]
  /\ nbr \in [Intf -> SixBytes \cup {Unset}]
  /\ inbox \in [Intf -> Seq(Frame)]
  /\ replyTo \in [Intf -> Intf \cup {NoTlv}]
  /\ configs \in [Node -> Nat]
  /\ restarted \subseteq Node /\ named \subseteq Node /\ faults \in Nat

\* No node was given a second system ID, and none has restarted.
Undisturbed == restarted = {} /\ \A n \in Node : configs[n] <= 1

\* The node can tell its own frames: its ID is spelled as frames print it, in
\* lower case with two dots (the format main.go:40 asks for).
Dotted(n) == SidText(SidBytes(sid[n])) = sid[n]

\* The handshake is three-way: an adjacency that is UP leads to an interface on
\* the segment that has itself heard a hello (its adjacency has left NEW), and
\* the neighbor ID is the one that node was given, or zero if it had none when
\* it answered.  This although every node hears its own frames
\* (ethernet.go:236): a node whose ID is Dotted never ends up with itself.  One
\* whose ID is spelled otherwise takes its own hellos for a neighbor's.
UpIsMutual ==
  Undisturbed =>
    \A i \in Intf : state[i] = "UP" =>
      \E p \in Lan[i] : /\ Dotted(Owner[i]) => Owner[p] # Owner[i]
                        /\ state[p] # "NEW"
                        /\ nbr[i] \in {SidBytes(sid[Owner[p]]), Zero}

\* A node that was never given a system ID answers hellos, but never has an
\* adjacency UP itself: nothing is ever addressed to it, whatever is lost, and
\* whichever daemons restart or lose their IDs in the meantime.  (A node that
\* had an ID and lost it, in a restart or to an empty string, can still be
\* brought UP by the answer to a hello it sent before.)
UnconfiguredNeverUp ==
  \A i \in Intf : state[i] = "UP" => Owner[i] \in named

\* A configured node gets its adjacencies up whatever frames are lost, whether
\* or not the neighbor has been configured, and again after a restart (unless
\* it loses its ID first): the neighbor, long UP, still answers.
ConfiguredComesUp ==
  \A i \in Intf : (sid[Owner[i]] # Unset) ~> (state[i] = "UP" \/ sid[Owner[i]] = Unset)
=============================================================================
