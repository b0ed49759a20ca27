-------------------------------- MODULE Boot --------------------------------
(***************************************************************************)
(* main of main.go until the goroutines run: initInterfaces turns what the *)
(* operating system says of its interfaces into cfg.interfaces, and        *)
(* ethernetIntfInit opens the raw sockets.  All of it is sequential; what  *)
(* varies is the host it runs on.                                          *)
(*                                                                         *)
(* A host is [listed, ifaces, raw]: whether net.Interfaces succeeds, the   *)
(* interfaces it lists and whether raw sockets can be opened.  An          *)
(* interface is [name, readable, addrs, routes]: whether Addrs succeeds,   *)
(* its addresses and the destinations of the routes over it.  An address   *)
(* is [kind, ip] with kind "v4", "v6" or "other" (no *net.IPNet).          *)
(***************************************************************************)
EXTENDS Naturals, Sequences, FiniteSets

\* n bytes.
Octets(n) == [1..n -> 0..255]

\* What the operating system says of an address, a route and an interface.
Addr == [kind : {"v4"}, ip : Octets(4)] \cup [kind : {"v6", "other"}, ip : Seq(0..255)]
Prefix == [IP : Octets(4), Mask : Octets(4)]
Iface == [name : STRING, readable : BOOLEAN, addrs : Seq(Addr), routes : Seq(Prefix)]

\* Intf: name, address, routes and adjacency.
Adjacency == [state : {"NEW", "INIT", "UP"}, neighborSystemID : Seq(0..255)]
Intf == [name : STRING, prefix : Octets(4), routes : Seq(Prefix), adj : Adjacency]

CONSTANTS
  Hosts,  \* the hosts to boot on
  Nil     \* a slot of cfg.interfaces that has not been filled in

\* No two interfaces of a host have the same name.
ASSUME HostsAssumption ==
  /\ Hosts \subseteq [listed : BOOLEAN, raw : BOOLEAN, ifaces : Seq(Iface)]
  /\ \A h \in Hosts : \A i, j \in DOMAIN h.ifaces : h.ifaces[i].name = h.ifaces[j].name => i = j
  /\ Nil \notin Intf

VARIABLES
  host,        \* the host this daemon runs on
  phase,       \* "list", "scan", "running" or "panicked"
  interfaces,  \* cfg.interfaces
  index,       \* the next slot to fill in
  iface,       \* which interface of the host initInterfaces looks at
  addr,        \* which of its addresses comes next
  RawSocks     \* RawSocks[name]: which slot the open sockets were opened for

scanVars == <<interfaces, index, iface, addr>>
bootVars == <<host, phase, scanVars, RawSocks>>

-----------------------------------------------------------------------------
\* The list is made one shorter than what net.Interfaces lists, for lo, before
\* err is looked at.  A negative length panics.
ListInterfaces ==
  /\ phase = "list"
  /\ LET ifaces == IF host.listed THEN host.ifaces ELSE <<>>
     IN IF ifaces = <<>>
        THEN /\ phase' = "panicked"
             /\ UNCHANGED interfaces
        ELSE /\ phase' = "scan"
             /\ interfaces' = [i \in 1..(Len(ifaces) - 1) |-> Nil]
  /\ UNCHANGED <<host, index, iface, addr, RawSocks>>

\* The addresses of interface i that initInterfaces looks at: none of lo, none
\* where Addrs fails.
AddrsOf(i) ==
  LET f == host.ifaces[i] IN IF f.name = "lo" \/ ~f.readable THEN <<>> ELSE f.addrs

\* The Intf made for an address: its adjacency is NEW, its routes are those of
\* the whole interface.
NewIntf(f, a) ==
  [name |-> f.name, prefix |-> a.ip, routes |-> f.routes,
   adj |-> [state |-> "NEW", neighborSystemID |-> <<>>]]

Scanning == phase = "scan" /\ iface <= Len(host.ifaces)

\* All addresses of an interface have been looked at.
NextInterface ==
  /\ Scanning /\ addr > Len(AddrsOf(iface))
  /\ iface' = iface + 1
  /\ addr' = 1
  /\ UNCHANGED <<host, phase, interfaces, index, RawSocks>>

\* Faulty variant of HasIntf: an Intf for an IPv6 address as well.
HasIntfAny(a) == a.kind # "other"

\* Only an IPv4 address gets an Intf.
HasIntf(a) == a.kind = "v4"

\* The next address.  A slot behind the end of the list panics.
ScanAddress ==
  /\ Scanning /\ addr <= Len(AddrsOf(iface))
  /\ LET a == AddrsOf(iface)[addr] IN
       \/ /\ ~HasIntf(a)
          /\ addr' = addr + 1
          /\ UNCHANGED <<phase, interfaces, index>>
       \/ /\ HasIntf(a) /\ index > Len(interfaces)
          /\ phase' = "panicked"
          /\ UNCHANGED <<interfaces, index, addr>>
       \/ /\ HasIntf(a) /\ index <= Len(interfaces)
          /\ interfaces' = [interfaces EXCEPT ![index] = NewIntf(host.ifaces[iface], a)]
          /\ index' = index + 1
          /\ addr' = addr + 1
          /\ UNCHANGED phase
  /\ UNCHANGED <<host, iface, RawSocks>>

\* NewRawSock and NewRawSockRecv return a socket; else nil, whichever system call
\* failed.
SocketsOpen == host.raw

\* The sockets are opened slot by slot, under the interface's name; reading the
\* name of an empty slot panics.  A socket that does not open is only logged, but
\* recvPdus, started right after, reads from it and panics.
OpenSockets ==
  /\ phase = "scan" /\ iface > Len(host.ifaces)
  /\ \/ /\ \E i \in DOMAIN interfaces : interfaces[i] = Nil \/ ~SocketsOpen
        /\ phase' = "panicked"
        /\ UNCHANGED RawSocks
     \/ /\ \A i \in DOMAIN interfaces : interfaces[i] # Nil /\ SocketsOpen
        /\ phase' = "running"
        /\ RawSocks' = [name \in {interfaces[i].name : i \in DOMAIN interfaces} |->
             CHOOSE i \in DOMAIN interfaces :
               /\ interfaces[i].name = name
               /\ \A j \in DOMAIN interfaces : interfaces[j].name = name => j <= i]
  /\ UNCHANGED <<host, scanVars>>

-----------------------------------------------------------------------------
BootInit ==
  /\ host \in Hosts
  /\ phase = "list"
  /\ interfaces = <<>> /\ index = 1 /\ iface = 1 /\ addr = 1
  /\ RawSocks = <<>>

BootNext == ListInterfaces \/ NextInterface \/ ScanAddress \/ OpenSockets

-----------------------------------------------------------------------------
(* Properties                                                              *)

\* The interfaces of the host but for lo.
Links(h) == {i \in DOMAIN h.ifaces : h.ifaces[i].name # "lo"}

\* What the containers of the README look like: lo, and links with one IPv4
\* address each, besides whatever else.
Container(h) ==
  /\ h.listed /\ h.raw
  /\ \E i \in DOMAIN h.ifaces : h.ifaces[i].name = "lo"
  /\ \A i \in Links(h) :
       LET f == h.ifaces[i]
       IN f.readable /\ \E a \in DOMAIN f.addrs : \A b \in DOMAIN f.addrs : f.addrs[b].kind = "v4" <=> b = a

\* The IPv4 addresses that can be read, <<i, a>> for address a of link i.
V4Addrs(h) == {p \in UNION {{i} \X DOMAIN h.ifaces[i].addrs : i \in Links(h)} :
            h.ifaces[p[1]].readable /\ h.ifaces[p[1]].addrs[p[2]].kind = "v4"}

\* p comes before q when the host is scanned.
Before(p, q) == p[1] < q[1] \/ (p[1] = q[1] /\ p[2] < q[2])

\* The slot an address should get: one for each address before it.
Slot(h, p) == 1 + Cardinality({q \in V4Addrs(h) : Before(q, p)})

\* The slots are counted before the addresses are.  On a container they match:
\* main does not panic, and every link gets one slot, with sockets of its own.
\* On any host, a daemon that runs has a slot for each IPv4 address, in order,
\* and no other.
SlotsMatchLinks ==
  /\ Container(host) => phase # "panicked"
  /\ phase = "running" =>
       /\ Len(interfaces) = Cardinality(V4Addrs(host))
       /\ \A p \in V4Addrs(host) :
            LET f == host.ifaces[p[1]]
            IN /\ Slot(host, p) \in DOMAIN interfaces
               /\ interfaces[Slot(host, p)].name = f.name
               /\ interfaces[Slot(host, p)].prefix = f.addrs[p[2]].ip
  /\ Container(host) /\ phase = "running" =>
       /\ {interfaces[s].name : s \in DOMAIN interfaces} = {host.ifaces[i].name : i \in Links(host)}
       /\ \A s \in DOMAIN interfaces : RawSocks[interfaces[s].name] = s
=============================================================================
