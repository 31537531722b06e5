---------------------------- MODULE NetworkProofs ----------------------------
(***************************************************************************)
(* Proofs about Network, for any servers, address pools and numbers of     *)
(* retries.  RequestIsOffer needs that no BOOTP server answers beside the  *)
(* DHCP servers, and ReadyIsLeased besides that none of these answers      *)
(* DHCPNAK.                                                                *)
(***************************************************************************)
EXTENDS Network, TLAPS

LEMMA AddressFacts ==
  /\ Servers \subseteq Addresses
  /\ Manual \subseteq Addresses
  /\ \A s \in Servers : Pool[s] \in Addresses /\ Gateways[s] \in Addresses \cup {0}
  /\ 0 \notin Servers /\ 0 \notin Manual
BY NetworkAssumption DEF Addresses, Servers

(* Initially the table is empty.                                           *)
LEMMA ArpInit == Init => ArpInv
BY DEF Init, ArpInv, TypeOK, MessageInv, ResolveInv, ArpFresh, Entries, Types, Discover

LEMMA BroadcastTyped ==
  ASSUME NEW p \in [type : {"discover", "request"}, xid : Nat, server : Servers \cup {0},
                    addr : Addresses \cup {0}]
  PROVE  /\ Broadcast(p) \subseteq Messages
         /\ \A m \in Broadcast(p) : m.to # 0
BY AddressFacts DEF Broadcast, Messages

(* Every step keeps an entry of the ARP table and its address together.    *)
LEMMA ArpStep ==
  ASSUME ArpInv, [Next]_vars
  PROVE  ArpInv'
<1> USE DEF ArpInv, Replaced
<1>0. CASE UNCHANGED vars
  BY <1>0 DEF vars, arpvars, dhcpvars, TypeOK, MessageInv, ResolveInv, ArpFresh
<1>1. CASE bootp
  <2>1. ip' \in [type : {"discover", "request"}, xid : Nat, server : Servers \cup {0},
                 addr : Addresses \cup {0}]
    BY <1>1 DEF bootp, Discover, TypeOK
  <2>2. Broadcast(ip') \subseteq Messages /\ \A m \in Broadcast(ip') : m.to # 0
    BY <2>1, BroadcastTyped
  <2>3. TypeOK'
    BY <1>1 DEF bootp, SendDiscover, TypeOK, arpvars, dhcpvars
  <2>4. MessageInv'
    BY <1>1, <2>1, <2>2 DEF bootp, SendDiscover, MessageInv
  <2>5. ResolveInv' /\ ArpFresh'
    BY <1>1 DEF bootp, SendDiscover, ResolveInv, ArpFresh
  <2> QED BY <2>3, <2>4, <2>5
<1>2. CASE rarp
  BY <1>2 DEF rarp, TypeOK, MessageInv, ResolveInv, ArpFresh, arpvars, dhcpvars
<1>3. CASE cleanup_net
  BY <1>3 DEF cleanup_net, TypeOK, MessageInv, ResolveInv, ArpFresh, arpvars, dhcpvars
<1>4. ASSUME NEW newip \in Given, NEW gw \in Given, NEW svr \in Given, NEW sm \in BOOLEAN,
             ifconfig(newip, sm, gw, svr)
      PROVE  ArpInv'
  BY <1>4, AddressFacts
     DEF ifconfig, Given, Entries, TypeOK, MessageInv, ResolveInv, ArpFresh, arpvars, dhcpvars
<1>5. ASSUME NEW hop \in Entries, udp_transmit(hop)
      PROVE  ArpInv'
  BY <1>5 DEF udp_transmit, EntryOf, Entries, TypeOK, MessageInv, ResolveInv, ArpFresh, dhcpvars
<1>6. ASSUME NEW m \in net, NEW rest, Taken(m, rest), rest \subseteq net, TakeReply(m),
             m.to = 0, UNCHANGED arpvars
      PROVE  /\ addr' \in [client : Addresses \cup {0}, server : Addresses \cup {0},
                           gateway : Addresses \cup {0}]
             /\ node' \in [Entries -> Addresses \cup {0}]
             /\ dhcp_server' \in Servers \cup {0} /\ dhcp_addr' \in Addresses \cup {0}
             /\ MsgType(m) \in Types
             /\ faults' \in Nat
             /\ ArpFresh'
  <2>1. m.server \in Servers /\ m.yiaddr \in Addresses \cup {0}
    BY <1>6 DEF MessageInv, Messages
  <2>2. Told(m) \in [client : Addresses \cup {0}, server : Addresses \cup {0},
                     gateway : Addresses \cup {0}]
    BY <2>1, AddressFacts DEF Told
  <2>3. /\ dhcp_server' \in Servers \cup {0} /\ dhcp_addr' \in Addresses \cup {0}
        /\ MsgType(m) \in Types /\ faults' \in Nat
    BY <1>6, <2>1 DEF TakeReply, MsgType, Types, Messages, MessageInv, TypeOK, Taken
  <2>4. CASE addr' = Told(m) /\ node' = [e \in Entries |-> 0]
    BY <2>2, <2>3, <2>4 DEF ArpFresh
  <2>5. ASSUME ExtGateway # 0, NEW x \in Entries,
               node' = [[e \in Entries |-> 0] EXCEPT ![x] = Told(m)[x]],
               addr' \in {Told(m), [Told(m) EXCEPT !.gateway = ExtGateway]}
        PROVE  /\ addr' \in [client : Addresses \cup {0}, server : Addresses \cup {0},
                             gateway : Addresses \cup {0}]
               /\ node' \in [Entries -> Addresses \cup {0}]
               /\ ArpFresh'
    <3>1. addr' \in [client : Addresses \cup {0}, server : Addresses \cup {0},
                     gateway : Addresses \cup {0}]
      BY <2>2, <2>5, NetworkAssumption
    <3>2. node' \in [Entries -> Addresses \cup {0}]
      BY <2>2, <2>5 DEF Entries
    <3>3. addr'[x] = Told(m)[x] \/ (x = "gateway" /\ addr'[x] = ExtGateway)
      BY <2>2, <2>5 DEF Entries
    <3> QED BY <2>5, <3>1, <3>2, <3>3 DEF ArpFresh
  <2> QED BY <1>6, <2>3, <2>4, <2>5 DEF TakeReply
<1>7. ASSUME NEW m \in net, NEW rest \in {net, net \ {m}}, DiscoverReply(m, rest)
      PROVE  ArpInv'
  <2> DEFINE R == Request(xid, dhcp_server', dhcp_addr')
  <2>1. /\ TakeReply(m) /\ Taken(m, rest) /\ m.to = 0 /\ UNCHANGED arpvars /\ rest \subseteq net
        BY <1>7 DEF DiscoverReply, IsReply
  <2>2. R \in [type : {"discover", "request"}, xid : Nat, server : Servers \cup {0},
               addr : Addresses \cup {0}]
    BY <1>6, <2>1 DEF Request, TypeOK
  <2>3. Broadcast(R) \subseteq Messages /\ \A x \in Broadcast(R) : x.to # 0
    BY <2>2, BroadcastTyped
  <2>4. TypeOK'
    BY <1>6, <1>7, <2>1 DEF DiscoverReply, IsReply, TypeOK, arpvars, Types
  <2>5. MessageInv'
    BY <1>7, <2>1, <2>2, <2>3 DEF DiscoverReply, IsReply, MessageInv
  <2>6. ResolveInv' /\ ArpFresh'
    BY <1>6, <1>7, <2>1 DEF DiscoverReply, IsReply, ResolveInv
  <2> QED BY <2>4, <2>5, <2>6
<1>8. ASSUME NEW m \in net, NEW rest \in {net, net \ {m}}, RequestReply(m, rest)
      PROVE  ArpInv'
  <2>1. /\ TakeReply(m) /\ Taken(m, rest) /\ m.to = 0 /\ UNCHANGED arpvars /\ rest \subseteq net
        BY <1>8 DEF RequestReply, IsReply
  <2>3. Broadcast(ip) \subseteq Messages /\ \A x \in Broadcast(ip) : x.to # 0
    BY BroadcastTyped DEF MessageInv
  <2>4. TypeOK'
    BY <1>6, <1>8, <2>1 DEF RequestReply, IsReply, NextRequest, SendDiscover, TypeOK, arpvars, Types
  <2>5. MessageInv'
    BY <1>8, <2>1, <2>3 DEF RequestReply, IsReply, NextRequest, SendDiscover, MessageInv
  <2>6. ResolveInv' /\ ArpFresh'
    BY <1>6, <1>8, <2>1 DEF RequestReply, IsReply, NextRequest, SendDiscover, ResolveInv
  <2> QED BY <2>4, <2>5, <2>6
<1>9. CASE DiscoverTimeout \/ RequestTimeout
  <2>3. Broadcast(ip) \subseteq Messages /\ \A x \in Broadcast(ip) : x.to # 0
    BY BroadcastTyped DEF MessageInv
  <2>4. TypeOK'
    BY <1>9 DEF DiscoverTimeout, RequestTimeout, NextRequest, SendDiscover, TypeOK, arpvars,
                dhcpvars, Types
  <2>5. MessageInv'
    BY <1>9, <2>3 DEF DiscoverTimeout, RequestTimeout, NextRequest, SendDiscover, MessageInv
  <2>6. ResolveInv' /\ ArpFresh'
    BY <1>9 DEF DiscoverTimeout, RequestTimeout, NextRequest, SendDiscover, ResolveInv, ArpFresh
  <2> QED BY <2>4, <2>5, <2>6
<1>10. ASSUME NEW s \in Servers, RarpReply(s)
       PROVE  ArpInv'
  BY <1>10, AddressFacts
     DEF RarpReply, Entries, TypeOK, MessageInv, ResolveInv, ArpFresh, arpvars, dhcpvars
<1>11. ASSUME NEW a \in Addresses, ArpReply(a)
       PROVE  ArpInv'
  BY <1>11 DEF ArpReply, Entries, TypeOK, MessageInv, ResolveInv, ArpFresh, arpvars, dhcpvars
<1>12. CASE ArpTimeout \/ Abort
  BY <1>12 DEF ArpTimeout, Abort, TypeOK, MessageInv, ResolveInv, ArpFresh, arpvars, dhcpvars
<1>13. ASSUME NEW m \in net, NEW s \in Servers, NEW rest \in {net, net \ {m}},
              ServeDiscover(s, m, rest) \/ ServeRequest(s, m, rest)
       PROVE  ArpInv'
  <2>1. \A r \in {Reply("offer", s, m.xid, Pool[s]), Reply("bootp", s, m.xid, Pool[s]),
                  Reply("nak", s, m.xid, 0), Reply("ack", s, m.xid, Pool[s])} :
          r \in Messages /\ r.server \in Servers /\ r.type \in {"offer", "ack", "nak", "bootp"}
    BY AddressFacts DEF Reply, Messages, MessageInv
  <2>2. TypeOK' /\ ResolveInv' /\ ArpFresh'
    BY <1>13 DEF ServeDiscover, ServeRequest, Taken, client, TypeOK, ResolveInv, ArpFresh,
                 arpvars, dhcpvars
  <2>3. MessageInv'
    BY <1>13, <2>1 DEF ServeDiscover, ServeRequest, client, MessageInv
  <2> QED BY <2>2, <2>3
<1>14. CASE (\E m \in net : Lose(m)) \/ (\E s \in Servers : Expire(s))
  BY <1>14 DEF Lose, Expire, client, TypeOK, MessageInv, ResolveInv, ArpFresh, arpvars, dhcpvars
<1> QED
  BY <1>0, <1>1, <1>2, <1>3, <1>4, <1>5, <1>7, <1>8, <1>9, <1>10, <1>11, <1>12, <1>13, <1>14
     DEF Next, Command, Step, Environment

(* The ARP table never sends a packet to the wrong station, whatever the   *)
(* order of ifconfig, rarp, bootp and late replies, but for a gateway that *)
(* an extension file has replaced.                                         *)
THEOREM ArpTableIsFresh == Spec => []ArpFresh
<1>1. Init => ArpInv
  BY ArpInit
<1>2. ArpInv /\ [Next]_vars => ArpInv'
  BY ArpStep
<1>3. ArpInv => ArpFresh
  BY DEF ArpInv
<1> QED BY <1>1, <1>2, <1>3, PTL DEF Spec
-----------------------------------------------------------------------------
(* Sending a packet that satisfies OfferInv keeps RequestInv.              *)
LEMMA BroadcastOffer ==
  ASSUME NEW p, p.type \in {"discover", "request"},
         p.type = "request" => p.addr = Pool[p.server]
  PROVE  \A m \in Broadcast(p) :
           /\ m.type \notin {"offer", "bootp"}
           /\ m.type = "request" => m.yiaddr = Pool[m.server]
BY DEF Broadcast

LEMMA RequestStep ==
  ASSUME BootpServers = {}, RequestInv, [Next]_vars
  PROVE  RequestInv'
<1> USE DEF RequestInv, OfferInv, RequestIsOffer
<1>1. \A m \in Broadcast(ip) :
        /\ m.type \notin {"offer", "bootp"}
        /\ m.type = "request" => m.yiaddr = Pool[m.server]
  BY BroadcastOffer
<1>2. CASE UNCHANGED <<net, ip>>
  BY <1>2
<1>3. CASE bootp
  <2>1. ip'.type = "discover"
    BY <1>3 DEF bootp, Discover
  <2>2. \A m \in Broadcast(ip') :
          /\ m.type \notin {"offer", "bootp"}
          /\ m.type = "request" => m.yiaddr = Pool[m.server]
    BY <2>1, BroadcastOffer
  <2> QED BY <1>3, <2>1, <2>2 DEF bootp, SendDiscover
<1>4. ASSUME NEW m \in net, NEW rest \in {net, net \ {m}}, DiscoverReply(m, rest)
      PROVE  RequestInv'
  <2>1. CASE MsgType(m) # "offer"
    BY <1>4, <2>1 DEF DiscoverReply, IsReply
  <2>2. CASE MsgType(m) = "offer"
    <3>1. m.type = "offer" /\ m.yiaddr = Pool[m.server]
      BY <2>2 DEF MsgType
    <3>2. ip' = Request(xid, m.server, m.yiaddr) /\ net' = rest \cup Broadcast(ip')
      BY <1>4, <2>2, <3>1 DEF DiscoverReply, IsReply, TakeReply, Told
    <3>3. ip'.type = "request" /\ ip'.addr = Pool[ip'.server]
      BY <3>1, <3>2 DEF Request
    <3>4. \A x \in Broadcast(ip') :
            /\ x.type \notin {"offer", "bootp"}
            /\ x.type = "request" => x.yiaddr = Pool[x.server]
      BY <3>3, BroadcastOffer
    <3> QED BY <3>2, <3>3, <3>4
  <2> QED BY <2>1, <2>2
<1>5. ASSUME NEW m \in net, NEW rest \in {net, net \ {m}}, RequestReply(m, rest)
      PROVE  RequestInv'
  BY <1>1, <1>5 DEF RequestReply, IsReply, NextRequest, SendDiscover
<1>6. CASE DiscoverTimeout \/ RequestTimeout
  BY <1>1, <1>6 DEF DiscoverTimeout, RequestTimeout, NextRequest, SendDiscover
<1>7. ASSUME NEW m \in net, NEW s \in Servers, NEW rest \in {net, net \ {m}},
             ServeDiscover(s, m, rest) \/ ServeRequest(s, m, rest)
      PROVE  RequestInv'
  BY <1>7 DEF ServeDiscover, ServeRequest, Reply, client
<1>8. ASSUME NEW m \in net, Lose(m)
      PROVE  RequestInv'
  BY <1>8 DEF Lose, client
<1>9. CASE UNCHANGED vars
  BY <1>2, <1>9 DEF vars
<1>10. CASE rarp \/ cleanup_net \/ ArpTimeout \/ Abort
  BY <1>2, <1>10 DEF rarp, cleanup_net, ArpTimeout, Abort
<1>11. CASE \/ \E newip, gw, svr \in Given, sm \in BOOLEAN : ifconfig(newip, sm, gw, svr)
            \/ \E hop \in Entries : udp_transmit(hop)
            \/ \E s \in Servers : RarpReply(s)
            \/ \E a \in Addresses : ArpReply(a)
            \/ \E s \in Servers : Expire(s)
  BY <1>2, <1>11 DEF ifconfig, udp_transmit, RarpReply, ArpReply, Expire, client
<1> QED
  BY <1>3, <1>4, <1>5, <1>6, <1>7, <1>8, <1>9, <1>10, <1>11
     DEF Next, Command, Step, Environment

(* Among DHCP servers, every DHCPREQUEST bootp sends names an address that *)
(* the server it names has offered, however many offers arrive and when.   *)
THEOREM RequestsAreOffers ==
  ASSUME BootpServers = {}
  PROVE  Spec => []RequestIsOffer
<1>1. Init => RequestInv
  BY DEF Init, RequestInv, OfferInv, RequestIsOffer, Discover
<1>2. RequestInv /\ [Next]_vars => RequestInv'
  BY RequestStep
<1>3. RequestInv => RequestIsOffer
  BY DEF RequestInv
<1> QED BY <1>1, <1>2, <1>3, PTL DEF Spec
-----------------------------------------------------------------------------
(* A packet of the client is not a reply, and is of the exchange it has.   *)
LEMMA BroadcastFacts ==
  ASSUME NEW p, p.type \in {"discover", "request"}
  PROVE  \A m \in Broadcast(p) :
           m.to # 0 /\ m.type \in {"discover", "request"} /\ m.xid = p.xid
BY AddressFacts DEF Broadcast

(* Sending one keeps LeaseInv, whatever becomes of the packets before it.  *)
LEMMA SendKeepsLease ==
  ASSUME LeaseInv, UNCHANGED <<xid, lease>>,
         ip'.type \in {"discover", "request"}, ip'.xid \in Nat, ip'.xid <= xid,
         pc' \in {"idle", "rarp", "arp"} \/ pc \in {"discover", "request"},
         net' \subseteq net \cup Broadcast(ip')
  PROVE  LeaseInv'
<1>1. \A m \in Broadcast(ip') :
        m.to # 0 /\ m.type \in {"discover", "request"} /\ m.xid = ip'.xid
  BY BroadcastFacts
<1> QED BY <1>1 DEF LeaseInv

LEMMA LeaseStep ==
  ASSUME BootpServers = {}, Refusing = {}, ReadyInv, [Next]_vars
  PROVE  LeaseInv'
<1> USE DEF ReadyInv
<1>0. ip.type \in {"discover", "request"} /\ LeaseInv /\ RequestIsOffer
  BY DEF RequestInv, OfferInv
<1>1. CASE UNCHANGED <<net, ip, xid, lease>> /\ pc' \in {pc, "idle", "rarp", "arp"}
  BY <1>1 DEF LeaseInv
<1>2. CASE bootp
  <2>1. ip' = Discover(xid + 1) /\ xid' = xid + 1 /\ lease' = lease
    BY <1>2 DEF bootp
  <2>2. \A m \in Broadcast(ip') :
          m.to # 0 /\ m.type \in {"discover", "request"} /\ m.xid = ip'.xid
    BY <2>1, BroadcastFacts DEF Discover
  <2>3. net' \subseteq net \cup Broadcast(ip')
    BY <1>2 DEF bootp, SendDiscover
  <2> QED BY <2>1, <2>2, <2>3 DEF LeaseInv, Discover
<1>3. ASSUME NEW m \in net, NEW rest \in {net, net \ {m}}, DiscoverReply(m, rest)
      PROVE  LeaseInv'
  <2>1. /\ UNCHANGED <<xid, lease>> /\ pc = "discover"
        /\ ip' = ip \/ ip' = Request(xid, dhcp_server', dhcp_addr')
        /\ net' \subseteq net \cup Broadcast(ip')
    BY <1>3 DEF DiscoverReply
  <2>2. ip'.type \in {"discover", "request"} /\ ip'.xid \in Nat /\ ip'.xid <= xid
    BY <1>0, <2>1 DEF LeaseInv, Request
  <2> QED BY <2>1, <2>2, SendKeepsLease
<1>4. ASSUME NEW m \in net, NEW rest \in {net, net \ {m}}, RequestReply(m, rest)
      PROVE  LeaseInv'
  <2>1. /\ UNCHANGED <<xid, lease, ip>> /\ pc = "request"
        /\ net' \subseteq net \cup Broadcast(ip')
    BY <1>4 DEF RequestReply, NextRequest, SendDiscover
  <2>2. ip'.type \in {"discover", "request"} /\ ip'.xid \in Nat /\ ip'.xid <= xid
    BY <1>0, <2>1 DEF LeaseInv
  <2> QED BY <2>1, <2>2, SendKeepsLease
<1>5. CASE DiscoverTimeout \/ RequestTimeout
  <2>1. /\ UNCHANGED <<xid, lease, ip>> /\ pc \in {"discover", "request"}
        /\ net' \subseteq net \cup Broadcast(ip')
    BY <1>5 DEF DiscoverTimeout, RequestTimeout, NextRequest, SendDiscover
  <2>2. ip'.type \in {"discover", "request"} /\ ip'.xid \in Nat /\ ip'.xid <= xid
    BY <1>0, <2>1 DEF LeaseInv
  <2> QED BY <2>1, <2>2, SendKeepsLease
<1>6. ASSUME NEW m \in net, NEW s \in Servers, NEW rest \in {net, net \ {m}},
             ServeDiscover(s, m, rest)
      PROVE  LeaseInv'
  <2>1. /\ UNCHANGED <<pc, xid, ip, lease>>
        /\ net' = rest \cup {Reply("offer", s, m.xid, Pool[s])}
    BY <1>6 DEF ServeDiscover, client
  <2> QED BY <2>1 DEF LeaseInv, Reply
<1>7. ASSUME NEW m \in net, NEW s \in Servers, NEW rest \in {net, net \ {m}},
             ServeRequest(s, m, rest)
      PROVE  LeaseInv'
  <2>1. UNCHANGED <<pc, xid, ip>> /\ m.type = "request" /\ m.yiaddr = Pool[m.server]
    BY <1>0, <1>7 DEF ServeRequest, client, RequestIsOffer
  <2>2. \/ net' = rest /\ lease' = lease
        \/ net' = rest \cup {Reply("ack", s, m.xid, Pool[s])} /\ lease' = lease \cup {s}
    BY <1>7, <2>1 DEF ServeRequest
  <2> QED BY <2>1, <2>2 DEF LeaseInv, Reply
<1>8. ASSUME NEW m \in net, Lose(m)
      PROVE  LeaseInv'
  BY <1>8 DEF Lose, client, LeaseInv
<1>9. ASSUME NEW s \in Servers, Expire(s)
      PROVE  LeaseInv'
  BY <1>9 DEF Expire, client, LeaseInv
<1>10. CASE UNCHANGED vars
  BY <1>1, <1>10 DEF vars
<1>11. CASE rarp \/ cleanup_net \/ ArpTimeout \/ Abort
  BY <1>1, <1>11 DEF rarp, cleanup_net, ArpTimeout, Abort
<1>12. CASE \/ \E newip, gw, svr \in Given, sm \in BOOLEAN : ifconfig(newip, sm, gw, svr)
            \/ \E hop \in Entries : udp_transmit(hop)
            \/ \E s \in Servers : RarpReply(s)
            \/ \E a \in Addresses : ArpReply(a)
  BY <1>1, <1>12 DEF ifconfig, udp_transmit, RarpReply, ArpReply
<1> QED
  BY <1>2, <1>3, <1>4, <1>5, <1>6, <1>7, <1>8, <1>9, <1>10, <1>11, <1>12
     DEF Next, Command, Step, Environment

(* The reply that ends bootp is an acknowledgement under way: the address  *)
(* it brings is one its server has assigned.                               *)
LEMMA ReadyStep ==
  ASSUME BootpServers = {}, ReadyInv, [Next]_vars,
         pc \in {"discover", "request"}, network_ready' = 1, network_ready = 0
  PROVE  \E s \in lease : addr'.client = Pool[s]
<1>1. PICK m \in net :
        \E rest \in {net, net \ {m}} : DiscoverReply(m, rest) \/ RequestReply(m, rest)
  <2>1. ~Command
    BY DEF Command, bootp, rarp, cleanup_net, ifconfig, udp_transmit
  <2>2. ~Environment
    BY DEF Environment, Lose, ServeDiscover, ServeRequest, Expire, client
  <2>3. ~(\E s \in Servers : RarpReply(s)) /\ ~(\E a \in Addresses : ArpReply(a))
    BY DEF RarpReply, ArpReply
  <2>5. ~DiscoverTimeout /\ ~RequestTimeout
    BY DEF DiscoverTimeout, RequestTimeout
  <2>6. ~ArpTimeout
    BY DEF ArpTimeout
  <2>7. ~Abort
    BY DEF Abort
  <2>4. ~UNCHANGED vars
    BY DEF vars
  <2> QED BY <2>1, <2>2, <2>3, <2>4, <2>5, <2>6, <2>7 DEF Next, Step
<1>2. IsReply(m) /\ TakeReply(m) /\ MsgType(m) # "offer"
  BY <1>1 DEF DiscoverReply, RequestReply
<1>3. m.type = "ack" /\ m.server \in lease /\ m.yiaddr = Pool[m.server]
  BY <1>2 DEF IsReply, MsgType, ReadyInv, LeaseInv
<1>4. addr'.client = m.yiaddr
  BY <1>2 DEF TakeReply, Told
<1> QED BY <1>3, <1>4

(* With DHCP servers that do not refuse, bootp leaves the network ready    *)
(* only with an address its server has assigned to this client and has not *)
(* taken back, however late or often the replies of this exchange and of   *)
(* earlier ones arrive.                                                    *)
THEOREM ReadyMeansLeased ==
  ASSUME BootpServers = {}, Refusing = {}
  PROVE  Spec => ReadyIsLeased
<1>1. Init => ReadyInv
  BY DEF Init, ReadyInv, RequestInv, OfferInv, RequestIsOffer, LeaseInv, Discover
<1>2. ReadyInv /\ [Next]_vars => ReadyInv'
  BY RequestStep, LeaseStep DEF ReadyInv
<1>3. ReadyInv /\ [Next]_vars =>
        [ (pc \in {"discover", "request"} /\ network_ready' = 1 /\ network_ready = 0)
            => \E s \in lease : addr'.client = Pool[s] ]_vars
  BY ReadyStep
<1> QED BY <1>1, <1>2, <1>3, PTL DEF Spec, ReadyIsLeased
=============================================================================
