-------------------------------- MODULE Wire --------------------------------
(***************************************************************************)
(* The bytes of the protocol: how hellos and LSPs are written into         *)
(* Ethernet frames and read back (ethernet.go, hello.go, update.go).       *)
(*                                                                         *)
(* A byte is a number in 0..255 and a slice is a sequence of them.  A TLV  *)
(* is [typeTLV, lengthTLV, valueTLV]: lengthTLV is a byte that is counted  *)
(* up on its own, so it need not be the length of valueTLV.  A linked list *)
(* of TLVs is a sequence.  System IDs, IP addresses, masks and MACs are    *)
(* the bytes they are; the dotted strings system IDs become in between     *)
(* (systemIDToString) carry nothing more.                                  *)
(***************************************************************************)
EXTENDS Naturals, Sequences, SequencesExt

READ_BUF_SIZE == 1000
ETHERNET_HEADER_SIZE == 14

L1_LAN_HELLO == 15   \* TypePDU 0x0F
L1_LSP == 18         \* TypePDU 0x12

ISIS_NEIGHBORS_TLV == 2
IS_NEIGHBOR_MAC_TLV == 6
ISIS_IP_INTERNAL_REACH_TLV == 128
ISIS_IP_INTF_ADDR_TLV == 132

l1_multicast == <<1, 128, 194, 0, 0, 20>>

Zeros(n) == [i \in 1..n |-> 0]

\* binary.BigEndian.PutUint32 and binary.BigEndian.Uint32.
PutUint32(n) == <<n \div 16777216, (n \div 65536) % 256, (n \div 256) % 256, n % 256>>
Uint32(b) == b[1] * 16777216 + b[2] * 65536 + b[3] * 256 + b[4]

\* What every route and every adjacency costs.
Metric == PutUint32(10)

-----------------------------------------------------------------------------
(* Writing                                                                 *)

\* IsisPDUHeader: the 8 bytes all PDUs begin with.
PDUHeader(type) == <<131, 0, 1, 0, type, 1, 0, 0>>

\* IsisLspHeader (19 bytes) as buildEmptyLSP fills it in: no PDU length, lifetime
\* or checksum, the LSP ID being the system ID and two zeros.
LspHeader(sid, seq) == Zeros(4) \o sid \o Zeros(2) \o PutUint32(seq) \o Zeros(3)

\* IsisLanHelloHeader (20 bytes) as buildL1HelloPDU fills it in.
HelloHeader(sid) == <<1>> \o sid \o <<60, 0>> \o <<0, 0>> \o <<0, 64>> \o Zeros(7)

\* The routes of all interfaces, and the adjacencies that are UP, in order.
RoutesOf(interfaces) == FlattenSeq([i \in DOMAIN interfaces |-> interfaces[i].routes])
UpAdjsOf(interfaces) ==
  FlattenSeq([i \in DOMAIN interfaces |->
    IF interfaces[i].adj.state = "UP" THEN <<interfaces[i].adj>> ELSE <<>>])

\* TLV 128: 12 bytes for each route of each interface.
getIPReachTLV(interfaces) ==
  LET routes == RoutesOf(interfaces)
  IN [typeTLV |-> ISIS_IP_INTERNAL_REACH_TLV,
      lengthTLV |-> (12 * Len(routes)) % 256,
      valueTLV |-> FlattenSeq([r \in DOMAIN routes |-> routes[r].IP \o routes[r].Mask \o Metric])]

\* Faulty variant of getNeighborTLV: the flag byte is not counted.
getNeighborTLVNoFlag(interfaces) ==
  LET up == UpAdjsOf(interfaces)
  IN [typeTLV |-> ISIS_NEIGHBORS_TLV,
      lengthTLV |-> (11 * Len(up)) % 256,
      valueTLV |-> <<0>> \o FlattenSeq([i \in DOMAIN up |-> Metric \o up[i].neighborSystemID \o <<0>>])]

\* TLV 2: a flag byte, and 11 bytes for each adjacency that is UP.  One read while
\* isisHelloRecv is setting it may have no neighborSystemID yet: six bytes less,
\* of which lengthTLV knows nothing.
getNeighborTLV(interfaces) ==
  LET up == UpAdjsOf(interfaces)
  IN [typeTLV |-> ISIS_NEIGHBORS_TLV,
      lengthTLV |-> (1 + 11 * Len(up)) % 256,
      valueTLV |-> <<0>> \o FlattenSeq([i \in DOMAIN up |-> Metric \o up[i].neighborSystemID \o <<0>>])]

\* Faulty variant of AnswerTLVs: the two in the other order.
AnswerTLVsSwapped(mac, prefix) ==
  << [typeTLV |-> ISIS_IP_INTF_ADDR_TLV, lengthTLV |-> 4, valueTLV |-> prefix],
     [typeTLV |-> IS_NEIGHBOR_MAC_TLV, lengthTLV |-> 6, valueTLV |-> mac] >>

\* The TLVs of an answering hello: the MAC of the one it answers, our address.
AnswerTLVs(mac, prefix) ==
  << [typeTLV |-> IS_NEIGHBOR_MAC_TLV, lengthTLV |-> 6, valueTLV |-> mac],
     [typeTLV |-> ISIS_IP_INTF_ADDR_TLV, lengthTLV |-> 4, valueTLV |-> prefix] >>

\* Faulty variant of Serialize: TLVs of no known type are left out.
SerializeKnown(headers, tlvs) ==
  LET known == SelectSeq(tlvs, LAMBDA t : t.typeTLV \in
                 {ISIS_NEIGHBORS_TLV, IS_NEIGHBOR_MAC_TLV, ISIS_IP_INTERNAL_REACH_TLV, ISIS_IP_INTF_ADDR_TLV})
  IN headers \o FlattenSeq([t \in DOMAIN known |->
       <<known[t].typeTLV, known[t].lengthTLV>> \o known[t].valueTLV])

\* serializeLsp and serializeIsisHelloPDU: the headers, then TLV after TLV.
Serialize(headers, tlvs) ==
  headers \o FlattenSeq([t \in DOMAIN tlvs |->
    <<tlvs[t].typeTLV, tlvs[t].lengthTLV>> \o tlvs[t].valueTLV])

buildEthernetFrame(dst, src, payload) == dst \o src \o <<8, 0>> \o payload

-----------------------------------------------------------------------------
(* Reading.  Indices into a frame count from 0, as in the code.            *)

\* recvFrame: what fits the buffer.  Behind it the buffer is zero.
recvFrame(frame) ==
  IF Len(frame) <= READ_BUF_SIZE THEN frame ELSE SubSeq(frame, 1, READ_BUF_SIZE)

ByteAt(rawBytes, i) == IF i < Len(rawBytes) THEN rawBytes[i + 1] ELSE 0

\* raw_bytes[from:from+n], which may run past the end of what was received but
\* not past the end of the buffer.
Slice(rawBytes, from, n) == [j \in 1..n |-> ByteAt(rawBytes, from + j - 1)]

pduType(rawBytes) == rawBytes[ETHERNET_HEADER_SIZE + 5]

\* Where the TLVs begin.
tlvOffset(rawBytes) ==
  IF pduType(rawBytes) = L1_LSP THEN ETHERNET_HEADER_SIZE + 8 + 19
                                ELSE ETHERNET_HEADER_SIZE + 8 + 20

SourceMac(rawBytes) == Slice(rawBytes, 6, 6)
HelloSource(rawBytes) == Slice(rawBytes, ETHERNET_HEADER_SIZE + 8 + 1, 6)
LspHeaders(rawBytes) == Slice(rawBytes, ETHERNET_HEADER_SIZE, 8 + 19)
LspSource(rawBytes) == Slice(rawBytes, ETHERNET_HEADER_SIZE + 8 + 4, 6)
LspSequence(rawBytes) == Uint32(Slice(rawBytes, ETHERNET_HEADER_SIZE + 8 + 12, 4))

\* The TLV that parseTLVs finds at startIndex.
TLVAt(rawBytes, startIndex) ==
  LET n == ByteAt(rawBytes, startIndex + 1)
  IN [typeTLV |-> ByteAt(rawBytes, startIndex), lengthTLV |-> n,
      valueTLV |-> Slice(rawBytes, startIndex + 2, n)]

\* It panics where the length byte lies behind the frame, or the value behind the
\* buffer.
TLVPanics(rawBytes, startIndex) ==
  \/ startIndex + 1 >= Len(rawBytes)
  \/ startIndex + 2 + rawBytes[startIndex + 2] > READ_BUF_SIZE

\* The first TLV of the given type, as a sequence of at most one.
Lookup(tlvs, type) ==
  LET found == {t \in DOMAIN tlvs : tlvs[t].typeTLV = type}
  IN IF found = {} THEN <<>> ELSE <<tlvs[Min(found)]>>

\* lookupNeighbors, getNeighbors: what computeSPF reads.
lookupNeighbors(tlvs) ==
  FlattenSeq([t \in DOMAIN Lookup(tlvs, ISIS_NEIGHBORS_TLV) |->
    LET tlv == Lookup(tlvs, ISIS_NEIGHBORS_TLV)[t]
        neighborCount == IF tlv.lengthTLV = 0 THEN 0 ELSE (tlv.lengthTLV - 1) \div 11
    IN [i \in 1..neighborCount |->
          [metric |-> Uint32(SubSeq(tlv.valueTLV, 11 * i - 9, 11 * i - 6)),
           systemID |-> SubSeq(tlv.valueTLV, 11 * i - 5, 11 * i)]]])

\* getDirectlyConnectedPrefixes, getPrefixesFromTLV: what installRouteFromPath reads.
getDirectlyConnectedPrefixes(tlvs) ==
  FlattenSeq([t \in DOMAIN Lookup(tlvs, ISIS_IP_INTERNAL_REACH_TLV) |->
    LET tlv == Lookup(tlvs, ISIS_IP_INTERNAL_REACH_TLV)[t]
    IN [i \in 1..(tlv.lengthTLV \div 12) |->
          [IP |-> SubSeq(tlv.valueTLV, 12 * i - 11, 12 * i - 8),
           Mask |-> SubSeq(tlv.valueTLV, 12 * i - 7, 12 * i - 4)]]])

\* The lines IsisLsp.String, and with it GetLsp, shows for a TLV.  The length
\* of a neighbors TLV is a byte: a length of 0 wraps around.
Shown(tlv) ==
  CASE tlv.typeTLV = ISIS_IP_INTERNAL_REACH_TLV ->
         [i \in 1..(tlv.lengthTLV \div 12) |->
            << SubSeq(tlv.valueTLV, 12 * i - 11, 12 * i - 4),
               Uint32(SubSeq(tlv.valueTLV, 12 * i - 3, 12 * i)) >>]
    [] tlv.typeTLV = ISIS_NEIGHBORS_TLV ->
         [i \in 1..(((tlv.lengthTLV + 255) % 256) \div 11) |->
            << SubSeq(tlv.valueTLV, 11 * i - 5, 11 * i), tlv.valueTLV[11 * i - 6] >>]
    [] OTHER -> <<>>

String(tlvs) == FlattenSeq([t \in DOMAIN tlvs |-> Shown(tlvs[t])])
=============================================================================
