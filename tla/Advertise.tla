------------------------------ MODULE Advertise ------------------------------
(***************************************************************************)
(* What a daemon tells the others, from its host to their databases: it    *)
(* boots (Boot), advertises its routes and adjacencies in an LSP that is   *)
(* relayed from daemon to daemon, and answers a hello of a neighbor, all   *)
(* of it as bytes in frames (Wire).                                        *)
(*                                                                         *)
(* One PDU is followed at a time, on links that deliver frames as they are *)
(* sent: no padding, as between containers.  Whether an LSP is newer than  *)
(* what a receiver has, and when it is sent on, is UpdateProcess's matter; *)
(* here every receiver is a daemon that has not seen it.  That a daemon    *)
(* reads the frames it sent itself is modelled in Hello and UpdateProcess. *)
(***************************************************************************)
EXTENDS Boot, Wire

CONSTANTS
  Sid,          \* the system ID of the booted daemon
  Sequences,    \* the sequence numbers its LSP may have
  Adjacencies,  \* sequences of adjacencies, one for each interface
  MaxHops,      \* how many daemons an LSP is followed through
  PeerMac,      \* the MAC of a neighbor and of every daemon that relays
  PeerSid       \* the system ID of that neighbor

ASSUME AdvertiseAssumption ==
  /\ {Sid, PeerSid, PeerMac} \subseteq Octets(6)
  /\ \A seq \in Sequences : seq \in Nat \ {0} /\ seq \div 16777216 <= 255
  /\ Adjacencies \subseteq Seq(Adjacency)
  /\ MaxHops \in Nat \ {0}

VARIABLES
  pc,      \* "idle", "wire" (a frame is on its way), "parse", "done" or "panicked"
  sent,    \* the sequence number of the LSP
  frame,   \* the frame last sent, then the buffer of its receiver
  at,      \* startIndex of parseTLVs
  tlvs,    \* the TLVs that parseTLVs has found
  learnt   \* for every daemon that received the PDU, what it made of it

wireVars == <<pc, sent, frame, at, tlvs, learnt>>
vars == <<bootVars, wireVars>>

\* The MAC of a slot's interface.
Mac(i) == <<2, 66, 0, 0, 0, i>>

-----------------------------------------------------------------------------
\* Booting, before anything is sent.
BootStep == BootNext /\ UNCHANGED wireVars

\* generateLocalLsp reads the adjacencies it finds and isisUpdate sends the LSP.
GenerateLocalLsp(seq, adjs) ==
  /\ phase = "running" /\ pc = "idle" /\ interfaces # <<>>
  /\ Len(adjs) = Len(interfaces)
  /\ interfaces' = [i \in DOMAIN interfaces |-> [interfaces[i] EXCEPT !.adj = adjs[i]]]
  /\ frame' = buildEthernetFrame(l1_multicast, Mac(1),
                Serialize(PDUHeader(L1_LSP) \o LspHeader(Sid, seq),
                          <<getIPReachTLV(interfaces'), getNeighborTLV(interfaces')>>))
  /\ sent' = seq
  /\ pc' = "wire"
  /\ UNCHANGED <<host, phase, index, iface, addr, RawSocks, at, tlvs, learnt>>

\* A neighbor's isisHelloSend: a hello without TLVs reaches interface 1.
PeerHello ==
  /\ phase = "running" /\ pc = "idle" /\ interfaces # <<>>
  /\ frame' = buildEthernetFrame(l1_multicast, PeerMac,
                Serialize(PDUHeader(L1_LAN_HELLO) \o HelloHeader(PeerSid), <<>>))
  /\ pc' = "wire"
  /\ UNCHANGED <<bootVars, sent, at, tlvs, learnt>>

\* recvPdus looks at the type and hands the frame on; parsing begins.
Receive ==
  /\ pc = "wire"
  /\ frame' = recvFrame(frame)
  /\ frame'[ETHERNET_HEADER_SIZE + 1] = 131
  /\ pduType(frame') \in {L1_LAN_HELLO, L1_LSP}
  /\ at' = tlvOffset(frame')
  /\ tlvs' = <<>>
  /\ pc' = "parse"
  /\ UNCHANGED <<bootVars, sent, learnt>>

\* One turn of the loop of parseTLVs.
ParseTLV ==
  /\ pc = "parse" /\ at < Len(frame)
  /\ \/ /\ TLVPanics(frame, at)
        /\ pc' = "panicked"
        /\ UNCHANGED <<at, tlvs>>
     \/ /\ ~TLVPanics(frame, at)
        /\ LET tlv == TLVAt(frame, at)
           IN /\ tlvs' = Append(tlvs, tlv)
              /\ at' = at + tlv.lengthTLV + 2
        /\ UNCHANGED pc
  /\ UNCHANGED <<bootVars, sent, frame, learnt>>

\* parseTLVs is through with what pduType says this is.
Parsed(type) == pc = "parse" /\ at >= Len(frame) /\ pduType(frame) = type

\* deserializeLsp is done; isisUpdateInput files the LSP, and isisUpdate sends it
\* on, headers and all.
RelayLsp ==
  /\ Parsed(L1_LSP)
  /\ learnt' = Append(learnt, [source |-> LspSource(frame), seq |-> LspSequence(frame), tlvs |-> tlvs])
  /\ frame' = buildEthernetFrame(l1_multicast, PeerMac, Serialize(LspHeaders(frame), tlvs))
  /\ pc' = IF Len(learnt') = MaxHops THEN "done" ELSE "wire"
  /\ UNCHANGED <<bootVars, sent, at, tlvs>>

\* isisHelloRecv on a hello without TLVs: sendHello with the sender's MAC, on
\* the interface it came in on.
AnswerHello ==
  /\ Parsed(L1_LAN_HELLO) /\ tlvs = <<>>
  /\ frame' = buildEthernetFrame(l1_multicast, Mac(1),
                Serialize(PDUHeader(L1_LAN_HELLO) \o HelloHeader(Sid),
                          AnswerTLVs(SourceMac(frame), interfaces[1].prefix)))
  /\ pc' = "wire"
  /\ UNCHANGED <<bootVars, sent, at, tlvs, learnt>>

\* isisHelloRecv of the neighbor on that answer: the adjacency comes UP if the
\* first TLV is its own MAC, and the second is taken for our address.
PeerUp ==
  /\ Parsed(L1_LAN_HELLO) /\ tlvs # <<>>
  /\ learnt' = Append(learnt,
       IF tlvs[1].valueTLV = PeerMac
       THEN [state |-> "UP", neighborSystemID |-> HelloSource(frame), neighborIP |-> tlvs[2].valueTLV]
       ELSE [state |-> "NEW", neighborSystemID |-> <<>>, neighborIP |-> <<>>])
  /\ pc' = "done"
  /\ UNCHANGED <<bootVars, sent, frame, at, tlvs>>

-----------------------------------------------------------------------------
Init ==
  /\ BootInit
  /\ pc = "idle" /\ sent = 0
  /\ frame = <<>> /\ at = 0 /\ tlvs = <<>>
  /\ learnt = <<>>

Next ==
  \/ BootStep
  \/ \E seq \in Sequences, adjs \in Adjacencies : GenerateLocalLsp(seq, adjs)
  \/ PeerHello
  \/ Receive
  \/ ParseTLV
  \/ RelayLsp
  \/ AnswerHello
  \/ PeerUp

Spec == Init /\ [][Next]_vars

-----------------------------------------------------------------------------
(* Properties                                                              *)

Routes == RoutesOf(interfaces)
UpAdjs == UpAdjsOf(interfaces)

\* The lengths of both TLVs fit their byte, and no adjacency was read half set.
Fits ==
  /\ Len(Routes) <= 21 /\ Len(UpAdjs) <= 23
  /\ \A i \in DOMAIN UpAdjs : Len(UpAdjs[i].neighborSystemID) = 6

\* Every daemon an LSP gets to, the far ones too, reads the routes and neighbors
\* of the one that made it, in order, with its ID and its sequence number, up to
\* the 21 routes and 23 neighbors a length byte can hold; GetLsp shows the same.
LspArrives ==
  sent # 0 /\ Fits =>
    /\ pc # "panicked"
    /\ \A h \in DOMAIN learnt :
         /\ learnt[h].source = Sid /\ learnt[h].seq = sent
         /\ getDirectlyConnectedPrefixes(learnt[h].tlvs) = Routes
         /\ lookupNeighbors(learnt[h].tlvs) =
              [i \in DOMAIN UpAdjs |-> [metric |-> 10, systemID |-> UpAdjs[i].neighborSystemID]]
         /\ String(learnt[h].tlvs) =
              [r \in DOMAIN Routes |-> <<Routes[r].IP \o Routes[r].Mask, 10>>] \o
              [i \in DOMAIN UpAdjs |-> <<UpAdjs[i].neighborSystemID, 10>>]

\* Databases do not diverge over an LSP that was written wrongly: whatever its
\* first receiver makes of it, with a length byte that wrapped around or an ID
\* that was missing, all the others make of it too, and none of them panics as
\* it parses the LSP.  (GetLsp can: IsisLsp.String slices a TLV 2 of length zero.)
HopsAgree ==
  /\ \A h \in DOMAIN learnt : learnt[h] = learnt[1]
  /\ pc = "panicked" => learnt = <<>>

\* The answer to a hello brings the asking side UP, with the ID of the daemon
\* and the address its interface had when it booted.
AnswerUnderstood ==
  (sent = 0 /\ pc # "idle") =>
    /\ pc # "panicked"
    /\ \A h \in DOMAIN learnt :
         learnt[h] = [state |-> "UP", neighborSystemID |-> Sid, neighborIP |-> interfaces[1].prefix]
=============================================================================
