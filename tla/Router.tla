------------------------------- MODULE Router -------------------------------
(***************************************************************************)
(* The packet path: the processing nodes ethernet-in, arp-in, ipv4-in,     *)
(* icmpv4-in-local, ipv6-in and icmpv6-in-local, and the tables they share *)
(* (MAC_ADDR_TABLE, IPV4_ADJACENT, the host routes of IPV4_FIB_INDEX).     *)
(*                                                                         *)
(* VirtioNet::interrupt_handler gives ethernet-in the frames of one        *)
(* interrupt as a batch and runs the nodes to the end with interrupts off, *)
(* so one batch is one step; its frames are gone when the handler returns. *)
(*                                                                         *)
(* Of a frame the model keeps the addresses and what the nodes branch on.  *)
(* The sender's hardware address of an ARP packet is that of its frame.    *)
(* The IPv6 tables hold what start_rust put there: the only handler that   *)
(* would change them indexes IPV6_FIB_INDEX out of its bounds first.       *)
(***************************************************************************)
EXTENDS Integers, FiniteSets, Sequences, Functions

CONSTANTS
  Ifaces,       \* sequence of the interfaces, in the order they are set up
  OwnMac,       \* OwnMac[i]: the MAC address of interface i
  OwnIp4,       \* OwnIp4[i]: its IPv4 address
  SnMac,        \* SnMac[i]: MAC of its IPv6 solicited-node multicast group
  AllNodesMac,  \* MAC of the IPv6 all-nodes group
  Broadcast,    \* ff:ff:ff:ff:ff:ff
  LocalIp6,     \* the IPv6 addresses with a Local route
  Frames,       \* Frames[i]: the frames hosts send to interface i
  MaxBatch      \* bound: frames handled in one interrupt

Iface == Range(Ifaces)

ASSUME RouterAssumption ==
  Ifaces \in Seq(Iface) /\ Ifaces # << >> /\ MaxBatch \in Nat

VARIABLES
  mac_table,  \* MAC_ADDR_TABLE: MAC -> [netif, local]
  adj4,       \* IPV4_ADJACENT: address -> [mac, netif, local]
  fib4,       \* IPV4_FIB_INDEX[32]: address -> [fib_type, mac, netif]
  batch,      \* the frames of the interrupt being handled
  ingress,    \* the interface the last interrupt came from
  out,        \* the replies given to xmit while handling them
  panicked

vars == <<mac_table, adj4, fib4, batch, ingress, out, panicked>>

-----------------------------------------------------------------------------
Insert(table, key, entry) ==
  [k \in DOMAIN table \cup {key} |-> IF k = key THEN entry ELSE table[k]]

(* Mutant: an existing entry is replaced.                                  *)
Register_Replace(table, key, entry) == Insert(table, key, entry)

(* register_macaddress, register_ipv4_adjacent: every caller passes no     *)
(* expiry time, and an entry without one is never replaced.                *)
Register(table, key, entry) ==
  IF key \in DOMAIN table THEN table ELSE Insert(table, key, entry)

(* register_ipv4_fib replaces an existing route.                           *)
RegisterFib(table, key, entry) == Insert(table, key, entry)

Empty == [x \in {} |-> x]

(* What setup_virtio_net registers for interface i.                        *)
BootMac(table, i) ==
  LET own == Register(table, OwnMac[i], [netif |-> i, local |-> TRUE])
      sn == Register(own, SnMac[i], [netif |-> i, local |-> TRUE])
  IN  Register(sn, AllNodesMac, [netif |-> i, local |-> TRUE])

BootAdj4(table, i) ==
  Register(table, OwnIp4[i], [mac |-> OwnMac[i], netif |-> i, local |-> TRUE])

BootFib4(table, i) ==
  RegisterFib(table, OwnIp4[i],
              [fib_type |-> "Local", mac |-> OwnMac[i], netif |-> i])

(* The tables once start_rust has set up the first k interfaces.           *)
Boot[k \in 0..Len(Ifaces)] ==
  IF k = 0
  THEN [macs |-> Empty, adj4 |-> Empty, fib4 |-> Empty]
  ELSE [macs |-> BootMac(Boot[k - 1].macs, Ifaces[k]),
        adj4 |-> BootAdj4(Boot[k - 1].adj4, Ifaces[k]),
        fib4 |-> BootFib4(Boot[k - 1].fib4, Ifaces[k])]

Init ==
  /\ mac_table = Boot[Len(Ifaces)].macs
  /\ adj4 = Boot[Len(Ifaces)].adj4
  /\ fib4 = Boot[Len(Ifaces)].fib4
  /\ batch = << >>
  /\ ingress = Head(Ifaces)
  /\ out = << >>
  /\ panicked = FALSE

-----------------------------------------------------------------------------
(* ethernet-in.  Each node loops over the frames: what it has made of the  *)
(* first k of them is a recursive function of k.                           *)

Learn(table, frames, i) ==
  LET learnt[k \in 0..Len(frames)] ==
        IF k = 0
        THEN table
        ELSE Register(learnt[k - 1], frames[k].src, [netif |-> i, local |-> FALSE])
  IN  learnt[Len(frames)]

(* Mutant: any MAC address in the table is taken for an own one.           *)
ForMe_AnyKnown(f, table) == f.dst = Broadcast \/ f.dst \in DOMAIN table

(* Learning comes before the look-up, and never changes what is local.     *)
ForMe(f, table) ==
  \/ f.dst = Broadcast
  \/ f.dst \in DOMAIN table /\ table[f.dst].local

(* Whether ethernet-in hands a frame to the node of a type.                *)
Selected(f, table, type) == f.type = type /\ ForMe(f, table)

(* A frame given to xmit of interface netif: the hardware address it is    *)
(* sent to, and the protocol address it speaks for.                        *)
Reply(kind, netif, to, from) ==
  [kind |-> kind, netif |-> netif, to |-> to, from |-> from]

ArpReply(f, netif) == Reply("arp", netif, f.src, f.tpa)

Echo4Reply(f, i) == Reply("echo4", i, f.src, f.dip)

(* The IPv6 header is written with a fixed source address.                 *)
Echo6Reply(f, i) == Reply("echo6", i, f.src, "0x02 x 16")

(* Mutant: only a request tells the sender's address.                      *)
ArpAdjacent_Request(table, f, i) ==
  IF f.oper = "request"
  THEN Register(table, f.spa, [mac |-> f.src, netif |-> i, local |-> FALSE])
  ELSE table

ArpAdjacent(table, f, i) ==
  Register(table, f.spa, [mac |-> f.src, netif |-> i, local |-> FALSE])

(* arp-in, on one packet: the sender is registered in both tables, and a   *)
(* request for an own address is answered through the interface that has   *)
(* the address.                                                            *)
ArpStep(st, f, i) ==
  LET fib == RegisterFib(st.fib4, f.spa,
               [fib_type |-> "AdjacentResolved", mac |-> f.src, netif |-> i])
      adj == ArpAdjacent(st.adj4, f, i)
      asked == f.tpa \in DOMAIN adj /\ adj[f.tpa].local /\ f.oper = "request"
  IN  [fib4 |-> fib, adj4 |-> adj,
       out |-> IF asked THEN Append(st.out, ArpReply(f, adj[f.tpa].netif))
                         ELSE st.out]

ArpIn(init, frames, i, macs) ==
  LET st[k \in 0..Len(frames)] ==
        IF k = 0
        THEN init
        ELSE IF Selected(frames[k], macs, "arp")
        THEN ArpStep(st[k - 1], frames[k], i)
        ELSE st[k - 1]
  IN  st[Len(frames)]

(* The echo requests among the packets of an ICMP node.                    *)
Echoes(frames) ==
  LET echoes[k \in 0..Len(frames)] ==
        IF k = 0
        THEN << >>
        ELSE IF frames[k].icmp = "echo"
        THEN Append(echoes[k - 1], frames[k])
        ELSE echoes[k - 1]
  IN  echoes[Len(frames)]

(* icmpv4-in-local on a list of packets: an echo request is answered       *)
(* through the interface it came from, in the name of the address asked.   *)
Icmpv4InLocal(frames, i) ==
  [k \in 1..Len(Echoes(frames)) |-> Echo4Reply(Echoes(frames)[k], i)]

(* icmpv6-in-local, on an echo request.                                    *)
Icmpv6InLocal(frames, i) ==
  [k \in 1..Len(Echoes(frames)) |-> Echo6Reply(Echoes(frames)[k], i)]

(* Mutant: what is no echo request is taken for an advertisement.          *)
OutOfBounds_NotEcho(frames) == \E k \in DOMAIN frames : frames[k].icmp # "echo"

(* icmpv6-in-local on a neighbour advertisement: register_ipv6_fib indexes *)
(* a table of 129 entries at 0xffffffff.                                   *)
OutOfBounds(frames) == \E k \in DOMAIN frames : frames[k].icmp = "na"

(* ipv4-in and ipv6-in, on one packet.  The list of ICMP packets is handed *)
(* on inside the loop over the frames, so what it holds is handled again   *)
(* after each later frame; an irregular frame skips that.                  *)
IpStep(st, f, local) ==
  LET icmp == IF f.dip \in local /\ f.icmp # "none" THEN Append(st.icmp, f)
                                                    ELSE st.icmp
  IN  IF f.regular THEN [icmp |-> icmp, handed |-> st.handed \o icmp] ELSE st

(* All that the node of a type hands to its ICMP node, in order.           *)
HandedOn(frames, macs, type, local) ==
  LET st[k \in 0..Len(frames)] ==
        IF k = 0
        THEN [icmp |-> << >>, handed |-> << >>]
        ELSE IF Selected(frames[k], macs, type)
        THEN IpStep(st[k - 1], frames[k], local)
        ELSE st[k - 1]
  IN  st[Len(frames)].handed

Ipv4In(frames, i, macs, local) ==
  Icmpv4InLocal(HandedOn(frames, macs, "ip4", local), i)

Ipv6In(frames, i, macs, local) ==
  Icmpv6InLocal(HandedOn(frames, macs, "ip6", local), i)

(* Mutant: a route an ARP packet leaves behind counts as local too.        *)
LocalIp4_Any(fib) == DOMAIN fib

LocalIp4(fib) == {a \in DOMAIN fib : fib[a].fib_type = "Local"}

(* One receive interrupt of interface i.                                   *)
Handle(i, frames) ==
  LET macs == Learn(mac_table, frames, i)
      arp  == ArpIn([fib4 |-> fib4, adj4 |-> adj4, out |-> << >>], frames, i, macs)
      ip4  == Ipv4In(frames, i, macs, LocalIp4(arp.fib4))
      ip6  == Ipv6In(frames, i, macs, LocalIp6)
  IN  /\ ~ panicked /\ batch = << >>
      /\ mac_table' = macs
      /\ fib4' = arp.fib4
      /\ adj4' = arp.adj4
      /\ out' = arp.out \o ip4 \o ip6
      /\ panicked' = OutOfBounds(HandedOn(frames, macs, "ip6", LocalIp6))
      /\ batch' = frames
      /\ ingress' = i

(* The interrupt handler returns and drops the frames.                     *)
HandlerReturn ==
  /\ ~ panicked /\ batch # << >>
  /\ batch' = << >> /\ out' = << >>
  /\ UNCHANGED <<mac_table, adj4, fib4, ingress, panicked>>

Next ==
  \/ \E i \in Iface, n \in 1..MaxBatch :
       \E frames \in [1..n -> Frames[i]] : Handle(i, frames)
  \/ HandlerReturn

Spec == Init /\ [][Next]_vars

-----------------------------------------------------------------------------
OwnMacs == {OwnMac[i] : i \in Iface} \cup {SnMac[i] : i \in Iface} \cup {AllNodesMac}

(* Whatever is learnt from source addresses, exactly the own and joined    *)
(* MAC addresses, and exactly the own IPv4 addresses, count as local.      *)
LocalIsOwn ==
  /\ \A m \in DOMAIN mac_table : mac_table[m].local <=> m \in OwnMacs
  /\ \A a \in DOMAIN adj4 : adj4[a].local <=> \E i \in Iface : a = OwnIp4[i]

(* "permanent entry if expire_time is None": an entry of the MAC or the    *)
(* adjacency table is never changed or removed.                            *)
EntriesPermanent ==
  [][/\ \A m \in DOMAIN mac_table :
          m \in DOMAIN mac_table' /\ mac_table'[m] = mac_table[m]
     /\ \A a \in DOMAIN adj4 : a \in DOMAIN adj4' /\ adj4'[a] = adj4[a]]_vars

(* Who uses an IPv4 address: the interface that has it, and the hosts that *)
(* send ARP packets in its name, each with the interface it is behind.     *)
Claimants(a) ==
  {[mac |-> OwnMac[i], netif |-> i, local |-> TRUE]
     : i \in {j \in Iface : OwnIp4[j] = a}}
  \cup UNION {{[mac |-> f.src, netif |-> i, local |-> FALSE]
                  : f \in {g \in Frames[i] : g.type = "arp" /\ g.spa = a}}
               : i \in Iface}

Undisputed(a) == \A c, d \in Claimants(a) : c = d

(* arp-in registers the source in the FIB, where the newest entry stays,   *)
(* and in the adjacency table, where the oldest does: the two know the     *)
(* same addresses, and agree on the MAC address and the interface of every *)
(* address that one station has for itself, whatever happens to others.    *)
FibAgreesWithAdjacency ==
  /\ DOMAIN fib4 = DOMAIN adj4
  /\ \A a \in DOMAIN fib4 : Undisputed(a) =>
       /\ fib4[a].mac = adj4[a].mac
       /\ fib4[a].netif = adj4[a].netif
       /\ fib4[a].fib_type = "Local" <=> adj4[a].local

(* An ARP reply is only ever sent by the interface that has the address,   *)
(* so it carries the right MAC, and only to a host that asked for it in a  *)
(* frame addressed to this machine.                                        *)
ArpReplyTrue ==
  \A k \in DOMAIN out : out[k].kind = "arp" =>
    /\ out[k].from = OwnIp4[out[k].netif]
    /\ \E j \in DOMAIN batch :
         /\ batch[j].type = "arp" /\ batch[j].src = out[k].to
         /\ batch[j].tpa = out[k].from
         /\ batch[j].dst \in OwnMacs \cup {Broadcast}

EchoRequests(type) ==
  {j \in DOMAIN batch :
     /\ batch[j].type = type /\ batch[j].regular /\ batch[j].icmp = "echo"
     /\ batch[j].dst \in OwnMacs \cup {Broadcast}
     /\ \/ type = "ip6" /\ batch[j].dip \in LocalIp6
        \/ /\ type = "ip4"
           /\ \E i \in Iface : batch[j].dip = OwnIp4[i] /\ Undisputed(OwnIp4[i])}

(* Replies from an own address that a host disputes are left out: whether  *)
(* it is still Local depends on what that host has sent.                   *)
EchoReplies(kind) ==
  {k \in DOMAIN out :
     /\ out[k].kind = kind
     /\ kind = "echo4" =>
          \A i \in Iface : out[k].from = OwnIp4[i] => Undisputed(OwnIp4[i])}

(* A host gets an echo reply, through the interface its frame came from,   *)
(* exactly if it sent an echo request for an own address, and an IPv4      *)
(* reply comes from the address asked, whatever else the interrupt's batch *)
(* holds: no ARP packet of the batch, which is handled first, takes away   *)
(* an address that no host disputes.                                       *)
EchoAnswered ==
  ~ panicked =>
    /\ {<<batch[j].src, batch[j].dip>> : j \in EchoRequests("ip4")}
         = {<<out[k].to, out[k].from>> : k \in EchoReplies("echo4")}
    /\ {batch[j].src : j \in EchoRequests("ip6")}
         = {out[k].to : k \in EchoReplies("echo6")}
    /\ \A k \in EchoReplies("echo4") \cup EchoReplies("echo6") : out[k].netif = ingress

(* "echo request ... reply": as many echo replies are sent as there are    *)
(* echo requests for an own address.                                       *)
EchoAnsweredOnce ==
  ~ panicked =>
    /\ Cardinality(EchoReplies("echo4")) = Cardinality(EchoRequests("ip4"))
    /\ Cardinality(EchoReplies("echo6")) = Cardinality(EchoRequests("ip6"))

(* Only a neighbour advertisement, in a frame for this machine, stops it.  *)
PanicsOnlyOnAdvertisement ==
  panicked =>
    \E j \in DOMAIN batch :
      /\ batch[j].type = "ip6" /\ batch[j].icmp = "na" /\ batch[j].regular
      /\ batch[j].dst \in OwnMacs \cup {Broadcast} /\ batch[j].dip \in LocalIp6
=============================================================================
