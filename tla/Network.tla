------------------------------- MODULE Network -------------------------------
(***************************************************************************)
(* The network configuration of GRUB (netboot/main.c): ifconfig, rarp,     *)
(* bootp with DHCP, the ARP resolution of udp_transmit, and the replies    *)
(* await_reply and decode_rfc1533 take in.                                 *)
(*                                                                         *)
(* An address stands for itself and for the Ethernet address of its        *)
(* station; 0 is the cleared value of both.  Every exchange over IP ends   *)
(* in await_reply, which the model leaves with a reply, with a timeout or  *)
(* with the user's Control-C (ip_abort).                                   *)
(***************************************************************************)
EXTENDS Integers, FiniteSets

CONSTANTS
  DhcpServers, BootpServers,   \* the servers; each is also the address it has
  Pool,                        \* server -> the address it gives this client
  Gateways,                    \* server -> its RFC1533_GATEWAY option, 0: none
  ExtGateway,                  \* gateway in the extension file, 0: no such file
  Refusing,                    \* the DHCP servers that answer DHCPNAK
  Manual,                      \* addresses the user gives to ifconfig
  MAX_BOOTP_RETRIES, MAX_ARP_RETRIES,
  MaxBootp, MaxOther,          \* bounds: calls of bootp; of rarp, ifconfig and ARP
  MaxFaults                    \* bound: packets lost or duplicated

Servers == DhcpServers \cup BootpServers
Addresses == Servers \cup Manual \cup {Pool[s] : s \in Servers}
               \cup (({Gateways[s] : s \in Servers} \cup {ExtGateway}) \ {0})

ASSUME NetworkAssumption ==
  /\ 0 \notin DhcpServers /\ 0 \notin BootpServers /\ 0 \notin Manual
  /\ DhcpServers \cap BootpServers = {}
  /\ Pool \in [Servers -> Addresses]
  /\ Gateways \in [Servers -> Addresses \cup {0}]
  /\ ExtGateway \in Addresses \cup {0}
  /\ Refusing \subseteq DhcpServers
  /\ MAX_BOOTP_RETRIES \in Nat \ {0} /\ MAX_ARP_RETRIES \in Nat \ {0}
  /\ {MaxBootp, MaxOther} \subseteq Nat /\ MaxFaults \in Nat

VARIABLES
  pc,            \* "idle", in bootp "discover" or "request", "rarp", "arp"
  retry, reqretry,
  ip,            \* the packet bootp sends: its message type, server and address
  xid,
  addr,          \* ipaddr of arptable[ARP_CLIENT], [ARP_SERVER], [ARP_GATEWAY]
  node,          \* node of arptable[ARP_SERVER] and [ARP_GATEWAY]
  arpentry, tip, \* the entry udp_transmit resolves and the address it asks for
  dhcp_reply, dhcp_server, dhcp_addr,
  network_ready,
  calls, faults, \* counted for the bounds; xid counts the calls of bootp
  net,           \* packets of the DHCP exchange in flight
  lease          \* the servers that have assigned their Pool address to the client

dhcpvars == <<dhcp_reply, dhcp_server, dhcp_addr>>
arpvars == <<arpentry, tip>>
vars == <<pc, retry, reqretry, ip, xid, addr, node, arpvars, dhcpvars,
          network_ready, calls, faults, net, lease>>

Entries == {"server", "gateway"}
Discover(x) == [type |-> "discover", xid |-> x, server |-> 0, addr |-> 0]
Request(x, s, a) == [type |-> "request", xid |-> x, server |-> s, addr |-> a]

(* A packet of the client goes to every server: it is broadcast.           *)
Broadcast(p) ==
  {[type |-> p.type, to |-> s, xid |-> p.xid, server |-> p.server, yiaddr |-> p.addr]
     : s \in Servers}

(* The reply of server s: its type and bp_yiaddr; bp_siaddr and the option *)
(* RFC2132_SRV_ID are s itself.                                            *)
Reply(type, s, x, a) ==
  [type |-> type, to |-> 0, xid |-> x, server |-> s, yiaddr |-> a]

-----------------------------------------------------------------------------
(* The servers and the network (external).                                 *)
(* The packets left when m has been received: it may arrive once more.     *)
Taken(m, rest) ==
  \/ rest = net \ {m} /\ UNCHANGED faults
  \/ rest = net /\ faults < MaxFaults /\ faults' = faults + 1

client == <<pc, retry, reqretry, ip, xid, addr, node, arpvars, dhcpvars, network_ready, calls>>

ServeDiscover(s, m, rest) ==
  /\ m.to = s /\ m.type = "discover" /\ Taken(m, rest)
  /\ \/ /\ s \in DhcpServers
        /\ net' = rest \cup {Reply("offer", s, m.xid, Pool[s])}
        /\ UNCHANGED lease
     \/ /\ s \in BootpServers
        /\ net' = rest \cup {Reply("bootp", s, m.xid, Pool[s])}
        /\ lease' = lease \cup {s}
  /\ UNCHANGED client

ServeRequest(s, m, rest) ==
  /\ m.to = s /\ m.type = "request" /\ Taken(m, rest)
  /\ \/ /\ s # m.server \/ s \in BootpServers
        /\ net' = rest /\ UNCHANGED lease
     \/ /\ s = m.server /\ s \in DhcpServers
        /\ s \in Refusing \/ m.yiaddr # Pool[s]
        /\ net' = rest \cup {Reply("nak", s, m.xid, 0)} /\ UNCHANGED lease
     \/ /\ s = m.server /\ s \in DhcpServers \ Refusing /\ m.yiaddr = Pool[s]
        /\ net' = rest \cup {Reply("ack", s, m.xid, Pool[s])}
        /\ lease' = lease \cup {s}
  /\ UNCHANGED client

Lose(m) ==
  /\ faults < MaxFaults /\ faults' = faults + 1
  /\ net' = net \ {m}
  /\ UNCHANGED <<client, lease>>

(* Time passes between two commands: a server takes its address back.      *)
Expire(s) ==
  /\ pc = "idle" /\ s \in lease
  /\ lease' = lease \ {s}
  /\ UNCHANGED <<client, net, faults>>

-----------------------------------------------------------------------------
(***************************************************************************)
(* await_reply takes a BOOTP reply in: the addresses, "Kill arp.", then    *)
(* the options.  An extension file is fetched by TFTP at once: this        *)
(* resolves the next hop, and the options in the file follow.              *)
(***************************************************************************)
KeepServer(m) ==                                                    \* mutant
  /\ addr' = [client |-> m.yiaddr, server |-> m.server, gateway |-> Gateways[m.server]]
  /\ node' = [e \in Entries |-> 0]
  /\ dhcp_server' = (IF dhcp_server = 0 THEN m.server ELSE dhcp_server)
  /\ dhcp_addr' = m.yiaddr

KeepArp(m) ==                                                       \* mutant
  /\ addr' = [client |-> m.yiaddr, server |-> m.server, gateway |-> Gateways[m.server]]
  /\ node' = node
  /\ dhcp_server' = (IF m.type = "bootp" THEN dhcp_server ELSE m.server)
  /\ dhcp_addr' = m.yiaddr

Told(m) == [client |-> m.yiaddr, server |-> m.server, gateway |-> Gateways[m.server]]

TakeReply(m) ==
  LET none == [e \in Entries |-> 0]
  IN /\ \/ addr' = Told(m) /\ node' = none
        \/ /\ ExtGateway # 0
           /\ \E e \in {x \in Entries : Told(m)[x] # 0} :
                /\ node' = [none EXCEPT ![e] = Told(m)[e]]
                /\ addr' \in {Told(m), [Told(m) EXCEPT !.gateway = ExtGateway]}
     /\ dhcp_server' = (IF m.type = "bootp" THEN dhcp_server ELSE m.server)
     /\ dhcp_addr' = m.yiaddr

(* A whole packet with good checksums, no fragment, that answers the       *)
(* exchange under way; anything else is as good as lost.                   *)
IsReply(m) == m.to = 0 /\ m.xid = xid

(* dhcp_reply after decode_rfc1533: a BOOTP reply has no message type.     *)
MsgType(m) == IF m.type = "bootp" THEN dhcp_reply ELSE m.type

(* The head of the outer loop of bootp: send ip (again), or "Timeout."     *)
SendDiscover(n, p, rest) ==
  \/ /\ n < MAX_BOOTP_RETRIES
     /\ retry' = n + 1 /\ pc' = "discover"
     /\ net' = rest \cup Broadcast(p)
  \/ /\ n >= MAX_BOOTP_RETRIES
     /\ pc' = "idle" /\ net' = rest
     /\ UNCHANGED retry

Uncounted(reply, rest) ==                                           \* mutant
  /\ pc' = "request" /\ net' = rest \cup Broadcast(ip)
  /\ dhcp_reply' = "none"
  /\ UNCHANGED <<retry, reqretry>>

(* The head of the inner loop, which falls back to the outer one.          *)
NextRequest(reply, rest) ==
  \/ /\ reqretry < MAX_BOOTP_RETRIES
     /\ reqretry' = reqretry + 1 /\ pc' = "request"
     /\ net' = rest \cup Broadcast(ip)
     /\ dhcp_reply' = "none"
     /\ UNCHANGED retry
  \/ /\ reqretry >= MAX_BOOTP_RETRIES
     /\ SendDiscover(retry, ip, rest)
     /\ dhcp_reply' = reply
     /\ UNCHANGED reqretry

SameXid ==                                                          \* mutant
  /\ pc = "idle" /\ xid < MaxBootp
  /\ network_ready' = 0 /\ xid' \in {xid, xid + 1} /\ xid' > 0
  /\ ip' = Discover(xid')
  /\ SendDiscover(0, ip', {m \in net : m.to = 0})
  /\ UNCHANGED <<reqretry, addr, node, arpvars, dhcpvars, calls, faults, lease>>

(* Of the packets with an older xid only the replies are kept: those still *)
(* on their way to a server could only add more of these.                  *)
bootp ==
  /\ pc = "idle" /\ xid < MaxBootp
  /\ network_ready' = 0 /\ xid' = xid + 1
  /\ ip' = Discover(xid')
  /\ SendDiscover(0, ip', {m \in net : m.to = 0})
  /\ UNCHANGED <<reqretry, addr, node, arpvars, dhcpvars, calls, faults, lease>>

(* In the outer loop: anything but an offer ends bootp; an offer is        *)
(* requested.                                                              *)
DiscoverReply(m, rest) ==
  /\ pc = "discover"
  /\ IsReply(m) /\ Taken(m, rest)
  /\ TakeReply(m)
  /\ \/ /\ MsgType(m) # "offer"
        /\ net' = rest /\ dhcp_reply' = MsgType(m)
        /\ network_ready' = 1 /\ pc' = "idle"
        /\ UNCHANGED <<ip, reqretry>>
     \/ /\ MsgType(m) = "offer"
        /\ ip' = Request(xid, dhcp_server', dhcp_addr')
        /\ net' = rest \cup Broadcast(ip')
        /\ reqretry' = 1 /\ pc' = "request" /\ dhcp_reply' = "none"
        /\ UNCHANGED network_ready
  /\ UNCHANGED <<retry, xid, arpvars, calls, lease>>

(* In the inner loop: only DHCPACK will do.                                *)
RequestReply(m, rest) ==
  /\ pc = "request"
  /\ IsReply(m) /\ Taken(m, rest)
  /\ TakeReply(m)
  /\ \/ /\ MsgType(m) = "ack"
        /\ net' = rest
        /\ dhcp_reply' = "ack" /\ network_ready' = 1 /\ pc' = "idle"
        /\ UNCHANGED <<retry, reqretry>>
     \/ /\ MsgType(m) # "ack"
        /\ NextRequest(MsgType(m), rest)
        /\ UNCHANGED network_ready
  /\ UNCHANGED <<ip, xid, arpvars, calls, lease>>

DiscoverTimeout ==
  /\ pc = "discover"
  /\ SendDiscover(retry, ip, net)
  /\ UNCHANGED <<reqretry, ip, xid, addr, node, arpvars, dhcpvars, network_ready, calls,
                 faults, lease>>

RequestTimeout ==
  /\ pc = "request"
  /\ NextRequest(dhcp_reply, net)
  /\ UNCHANGED <<ip, xid, addr, node, arpvars, dhcp_server, dhcp_addr, network_ready, calls,
                 faults, lease>>

(* Control-C.                                                              *)
Abort ==
  /\ pc # "idle"
  /\ pc' = "idle"
  /\ UNCHANGED <<retry, reqretry, ip, xid, addr, node, arpvars, dhcpvars, network_ready, calls,
                 faults, net, lease>>

-----------------------------------------------------------------------------
rarp ==
  /\ pc = "idle" /\ calls < MaxOther
  /\ calls' = calls + 1 /\ network_ready' = 0
  /\ retry' = 1 /\ pc' = "rarp"
  /\ UNCHANGED <<reqretry, ip, xid, addr, node, arpvars, dhcpvars, faults, net, lease>>

(* Server s answers: the station and its address come from one reply.      *)
RarpReply(s) ==
  /\ pc = "rarp"
  /\ addr' = [addr EXCEPT !.server = s, !.client = Pool[s]]
  /\ node' = [node EXCEPT !["server"] = s]
  /\ network_ready' = 1 /\ pc' = "idle"
  /\ UNCHANGED <<retry, reqretry, ip, xid, arpvars, dhcpvars, calls, faults, net, lease>>

(* rarp and udp_transmit ask MAX_ARP_RETRIES times.                        *)
ArpTimeout ==
  /\ pc \in {"rarp", "arp"}
  /\ \/ retry < MAX_ARP_RETRIES /\ retry' = retry + 1 /\ UNCHANGED pc
     \/ retry >= MAX_ARP_RETRIES /\ pc' = "idle" /\ UNCHANGED retry
  /\ UNCHANGED <<reqretry, ip, xid, addr, node, arpvars, dhcpvars, network_ready, calls,
                 faults, net, lease>>

(* ifconfig: the user's ip, gw and svr, each absent ("none"), malformed    *)
(* ("bad") or an address; sm says whether a netmask is given.  It returns  *)
(* at the first malformed one, leaving what it has already set; whether    *)
(* the netmask makes the address usable is left open.                      *)
ifconfig(newip, sm, gw, svr) ==
  LET ok1 == newip # "bad"
      ok2 == ok1 /\ gw # "bad"
      ok3 == ok2 /\ svr # "bad"
      set(old, new, ok) == IF ok /\ new \notin {"none", "bad"} THEN new ELSE old
  IN /\ pc = "idle" /\ calls < MaxOther
     /\ calls' = calls + 1
     /\ addr' = [client |-> set(addr.client, newip, TRUE),
                 gateway |-> set(addr.gateway, gw, ok1),
                 server |-> set(addr.server, svr, ok2)]
     /\ node' = [e \in Entries |-> IF (e = "gateway" /\ ok2) \/ ok3 THEN 0 ELSE node[e]]
     /\ network_ready' \in IF ok3 /\ (newip # "none" \/ sm) THEN {0, 1} ELSE {network_ready}
     /\ UNCHANGED <<pc, retry, reqretry, ip, xid, arpvars, dhcpvars, faults, net, lease>>

(* udp_transmit to the server, directly or through the gateway as the      *)
(* netmask says: the first entry with the address is used, and resolved if *)
(* it is empty.                                                            *)
EntryOf(a) ==
  CHOOSE e \in {"client", "server", "gateway"} :
    /\ addr[e] = a
    /\ e # "client" => addr.client # a
    /\ e = "gateway" => addr.server # a

udp_transmit(hop) ==
  LET dest == addr[hop] IN
  /\ pc = "idle" /\ network_ready = 1 /\ calls < MaxOther
  /\ hop = "gateway" => dest # 0
  /\ EntryOf(dest) # "client" /\ node[EntryOf(dest)] = 0
  /\ arpentry' = EntryOf(dest) /\ tip' = dest
  /\ retry' = 1 /\ pc' = "arp" /\ calls' = calls + 1
  /\ UNCHANGED <<reqretry, ip, xid, addr, node, dhcpvars, network_ready, faults, net, lease>>

(* A station's ARP_REPLY, perhaps to an older request: it must be from the *)
(* address that is being resolved.                                         *)
ArpReply(a) ==
  /\ pc = "arp" /\ a = tip
  /\ node' = [node EXCEPT ![arpentry] = a]
  /\ pc' = "idle"
  /\ UNCHANGED <<retry, reqretry, ip, xid, addr, arpvars, dhcpvars, network_ready, calls,
                 faults, net, lease>>

(* Before the kernel is started.                                           *)
cleanup_net ==
  /\ pc = "idle" /\ network_ready = 1
  /\ network_ready' = 0
  /\ UNCHANGED <<pc, retry, reqretry, ip, xid, addr, node, arpvars, dhcpvars, calls,
                 faults, net, lease>>

-----------------------------------------------------------------------------
Init ==
  /\ pc = "idle" /\ retry = 0 /\ reqretry = 0 /\ ip = Discover(0) /\ xid = 0
  /\ addr = [client |-> 0, server |-> 0, gateway |-> 0]
  /\ node = [e \in Entries |-> 0]
  /\ arpentry = "server" /\ tip = 0
  /\ dhcp_reply = "none" /\ dhcp_server = 0 /\ dhcp_addr = 0
  /\ network_ready = 0
  /\ calls = 0 /\ faults = 0 /\ net = {} /\ lease = {}

Given == Manual \cup {"none", "bad"}

Command ==
  \/ bootp \/ rarp \/ cleanup_net
  \/ \E newip, gw, svr \in Given, sm \in BOOLEAN : ifconfig(newip, sm, gw, svr)
  \/ \E hop \in Entries : udp_transmit(hop)

Step ==
  \/ \E m \in net : \E rest \in {net, net \ {m}} : DiscoverReply(m, rest) \/ RequestReply(m, rest)
  \/ \E s \in Servers : RarpReply(s)
  \/ \E a \in Addresses : ArpReply(a)
  \/ DiscoverTimeout \/ RequestTimeout \/ ArpTimeout \/ Abort

Environment ==
  \/ \E m \in net : Lose(m)
  \/ \E m \in net, s \in Servers : \E rest \in {net, net \ {m}} :
       ServeDiscover(s, m, rest) \/ ServeRequest(s, m, rest)
  \/ \E s \in Servers : Expire(s)

Next == Command \/ Step \/ Environment

(* await_reply polls and checks the clock: a call in progress goes on.     *)
Spec == Init /\ [][Next]_vars /\ WF_vars(Step)
-----------------------------------------------------------------------------
Types == {"none", "offer", "ack", "nak"}

(* Every variable of the client has its type: in particular a reply is     *)
(* never stored with a message type the decoder does not know.             *)
TypeOK ==
  /\ pc \in {"idle", "discover", "request", "rarp", "arp"}
  /\ retry \in Nat /\ reqretry \in Nat /\ xid \in Nat /\ calls \in Nat /\ faults \in Nat
  /\ addr \in [client : Addresses \cup {0}, server : Addresses \cup {0},
               gateway : Addresses \cup {0}]
  /\ node \in [Entries -> Addresses \cup {0}]
  /\ arpentry \in Entries /\ tip \in Addresses \cup {0}
  /\ dhcp_reply \in Types /\ dhcp_server \in Servers \cup {0}
  /\ dhcp_addr \in Addresses \cup {0}
  /\ network_ready \in {0, 1}
  /\ lease \subseteq Servers

(* RFC1533_GATEWAY of an extension file replaces the address of the        *)
(* gateway, and leaves the station that was resolved to fetch this very    *)
(* file beside it (main.c:1037).                                           *)
Replaced(e) == e = "gateway" /\ ExtGateway # 0 /\ addr[e] = ExtGateway

(* The ARP table never sends to the wrong station: an entry that is filled *)
(* holds the station of the address beside it, however the addresses were  *)
(* changed by ifconfig, rarp, offers and acknowledgements in between.  The *)
(* one exception is a gateway that an extension file has replaced.         *)
ArpFresh == \A e \in Entries : node[e] # 0 => node[e] = addr[e] \/ Replaced(e)

(* bootp makes the network ready only with an address that a server has    *)
(* assigned to this client: "Set if an ethernet card is probed and IP      *)
(* addresses are set."                                                     *)
ReadyIsLeased ==
  [][ (pc \in {"discover", "request"} /\ network_ready' = 1 /\ network_ready = 0)
        => \E s \in lease : addr'.client = Pool[s] ]_vars

(* Every DHCPREQUEST asks a server for the address this server offered,    *)
(* with several servers' offers arriving in any order and at any time.     *)
RequestIsOffer == \A m \in net : m.type = "request" => m.yiaddr = Pool[m.server]

(* bootp, rarp and the ARP exchange of udp_transmit come to an end.        *)
CallsEnd == (pc # "idle") ~> (pc = "idle")
-----------------------------------------------------------------------------
(* The messages in flight, and the packet bootp sends.                     *)
Messages ==
  [type : {"discover", "request", "offer", "ack", "nak", "bootp"},
   to : Servers \cup {0}, xid : Nat, server : Servers \cup {0},
   yiaddr : Addresses \cup {0}]

MessageInv ==
  /\ net \subseteq Messages
  /\ \A m \in net : m.to = 0 => m.server \in Servers
  /\ \A m \in net : m.to = 0 => m.type \in {"offer", "ack", "nak", "bootp"}
  /\ ip \in [type : {"discover", "request"}, xid : Nat, server : Servers \cup {0},
             addr : Addresses \cup {0}]

(* The entry that is being resolved still has the address asked for.       *)
ResolveInv == pc = "arp" => addr[arpentry] = tip

ArpInv == TypeOK /\ MessageInv /\ ResolveInv /\ ArpFresh

(* What RequestIsOffer needs of replies and of the packet sent.            *)
OfferInv ==
  /\ \A m \in net : m.type = "offer" => m.yiaddr = Pool[m.server]
  /\ \A m \in net : m.type # "bootp"
  /\ ip.type \in {"discover", "request"}
  /\ ip.type = "request" => ip.addr = Pool[ip.server]

RequestInv == OfferInv /\ RequestIsOffer

(* What ReadyIsLeased needs of them: no packet is from an exchange to come,*)
(* and an acknowledgement of the one under way is of an address the server *)
(* has assigned to the client and not yet taken back.                      *)
LeaseInv ==
  /\ xid \in Nat /\ ip.xid \in Nat /\ ip.xid <= xid
  /\ \A m \in net : m.xid \in Nat /\ m.xid <= xid
  /\ \A m \in net : m.to = 0 => m.type \in {"offer", "ack"}
  /\ \A m \in net : m.type = "ack" =>
       /\ m.server \in Servers /\ m.yiaddr = Pool[m.server]
       /\ (pc \in {"discover", "request"} /\ m.xid = xid) => m.server \in lease

ReadyInv == RequestInv /\ LeaseInv
=============================================================================
