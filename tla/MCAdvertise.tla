----------------------------- MODULE MCAdvertise -----------------------------
(* Hosts with two links of all kinds, and hosts with as many routes or links *)
(* as a length byte can count and one more.                                  *)
EXTENDS Advertise, TLC

Ip(i, a) == <<172, 20, i, a>>
Route(i) == [IP |-> <<172, i, 0, 0>>, Mask |-> <<255, 255, 0, 0>>]
V4(i, a) == [kind |-> "v4", ip |-> Ip(i, a)]
V6 == [kind |-> "v6", ip |-> <<>>]
Other == [kind |-> "other", ip |-> <<>>]

Lo == [name |-> "lo", readable |-> TRUE, addrs |-> <<[kind |-> "v4", ip |-> <<127, 0, 0, 1>>]>>,
       routes |-> <<>>]

\* Link i with the given addresses and the routes of the given numbers.
LinkWith(i, readable, addrs, numbers) ==
  [name |-> "eth" \o ToString(i), readable |-> readable, addrs |-> addrs,
   routes |-> [r \in DOMAIN numbers |-> Route(numbers[r])]]

Addrs(i) == {<<>>, <<V4(i, 2)>>, <<V6, V4(i, 2)>>, <<V4(i, 2), Other, V4(i, 3)>>, <<V6>>}
AnyLink(i) == {LinkWith(i, ok, addrs, rs) : ok \in BOOLEAN, addrs \in Addrs(i), rs \in {<<>>, <<i, 9>>}}

Two == {[listed |-> TRUE, raw |-> TRUE, ifaces |-> <<Lo, a, b>>] : a \in AnyLink(1), b \in AnyLink(2)}

\* n links with one route each, and one link with n routes.
ManyLinks(n) == [listed |-> TRUE, raw |-> TRUE,
  ifaces |-> <<Lo>> \o [i \in 1..n |-> LinkWith(i, TRUE, <<V4(i, 2)>>, IF i <= 21 THEN <<i>> ELSE <<>>)]]
ManyRoutes(n) == [listed |-> TRUE, raw |-> TRUE,
  ifaces |-> <<Lo, LinkWith(1, TRUE, <<V4(1, 2)>>, [r \in 1..n |-> r])>>]

Odd == {[listed |-> FALSE, raw |-> TRUE, ifaces |-> <<Lo>>],
        [listed |-> TRUE, raw |-> TRUE, ifaces |-> <<Lo>>],
        [listed |-> TRUE, raw |-> FALSE, ifaces |-> <<Lo, LinkWith(1, TRUE, <<V4(1, 2)>>, <<1>>)>>],
        [listed |-> TRUE, raw |-> TRUE, ifaces |-> <<LinkWith(1, TRUE, <<V4(1, 2)>>, <<1>>)>>]}

MCHosts == Two \cup Odd \cup {ManyLinks(n) : n \in {23, 24}}
               \cup {ManyRoutes(n) : n \in {21, 22, 79, 85}}

UpWith(sid) == [state |-> "UP", neighborSystemID |-> sid]
Down == [state |-> "INIT", neighborSystemID |-> <<>>]
PeerId(i) == <<17, 17, 17, 17, 17, i>>
Adjs == {Down, UpWith(<<>>), UpWith(Zeros(6)), UpWith(PeerId(1))}
MCAdjacencies == {<<a>> : a \in Adjs} \cup {<<a, b>> : a, b \in Adjs}
                   \cup {[i \in 1..n |-> UpWith(PeerId(i))] : n \in {23, 24}}

MCSid == <<17, 17, 17, 17, 17, 99>>
MCPeerSid == <<34, 34, 34, 34, 34, 34>>
MCPeerMac == <<2, 66, 1, 1, 1, 1>>
MCSequences == {1, 16909060}
=============================================================================
