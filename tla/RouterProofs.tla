----------------------------- MODULE RouterProofs -----------------------------
(***************************************************************************)
(* The packet path, for any interfaces, any hosts and batches of any size. *)
(*                                                                         *)
(* Three facts about the tables carry everything: every own address is in  *)
(* them from the start, every entry of the adjacency table and of the FIB  *)
(* is that of a station which uses the address, and permanent entries are  *)
(* never replaced.  What a batch is answered with then follows from what   *)
(* the loops of the nodes hand on.                                         *)
(***************************************************************************)
EXTENDS Router, Preliminaries

OwnIps == {OwnIp4[i] : i \in Iface}

(* The station an entry of the FIB leads to.                               *)
Station(entry) ==
  [mac |-> entry.mac, netif |-> entry.netif, local |-> entry.fib_type = "Local"]

MacsOk(macs) ==
  /\ OwnMacs \subseteq DOMAIN macs
  /\ \A m \in DOMAIN macs : macs[m].local <=> m \in OwnMacs

AdjacenciesOk(adj) ==
  /\ \A a \in OwnIps : a \in DOMAIN adj /\ adj[a].local
  /\ \A a \in DOMAIN adj : adj[a] \in Claimants(a)

RoutesOk(fib, adj) ==
  /\ DOMAIN fib = DOMAIN adj
  /\ \A a \in DOMAIN fib : Station(fib[a]) \in Claimants(a)

Tables == MacsOk(mac_table) /\ AdjacenciesOk(adj4) /\ RoutesOk(fib4, adj4)

RouterInv ==
  Tables /\ ArpReplyTrue /\ EchoAnswered /\ PanicsOnlyOnAdvertisement
-----------------------------------------------------------------------------
(* The loops: each of the recursive functions of the model exists, so it   *)
(* satisfies its own equation.                                             *)

(* What the loop of EthernetIn::process makes of the MAC table.           *)
LearnLoop(t, table, frames, i) ==
  /\ t[0] = table
  /\ \A k \in 1..Len(frames) :
       t[k] = Register(t[k - 1], frames[k].src, [netif |-> i, local |-> FALSE])
  /\ Learn(table, frames, i) = t[Len(frames)]

(* The loop over the source addresses of a batch.                          *)
LEMMA LearnRuns ==
  ASSUME NEW table, NEW frames, NEW i, Len(frames) \in Nat
  PROVE  \E t : LearnLoop(t, table, frames, i)
<1> DEFINE base == table
           Step(x, k) == Register(x, frames[k].src, [netif |-> i, local |-> FALSE])
           Is(t, n) == t = [k \in 0..n |-> IF k = 0 THEN base ELSE Step(t[k - 1], k)]
           S == {n \in 0..Len(frames) : \E t : Is(t, n)}
           f == CHOOSE t : Is(t, Len(frames))
<1>1. Learn(table, frames, i) = f[Len(frames)]
  BY DEF Learn
<1> HIDE DEF base, Step, f
<1>2. Is([k \in 0..0 |-> base], 0) /\ 0 \in 0..Len(frames)
  OBVIOUS
<1>3. ASSUME NEW n \in 1..Len(frames), n - 1 \in S
      PROVE  n \in S
  <2>1. PICK t : Is(t, n - 1)
    BY <1>3
  <2> DEFINE u == [k \in 0..n |-> IF k = n THEN Step(t[n - 1], n) ELSE t[k]]
  <2>2. /\ u[n] = Step(t[n - 1], n) /\ \A k \in 0..n - 1 : u[k] = t[k]
        /\ u = [k \in 0..n |-> u[k]]
    OBVIOUS
  <2> HIDE DEF u
  <2>3. \A k \in 0..n : u[k] = IF k = 0 THEN base ELSE Step(u[k - 1], k)
    BY <2>1, <2>2
  <2>4. Is(u, n)
    BY ZenonT(30), <2>2, <2>3
  <2> HIDE DEF Is
  <2> QED
    BY <2>4
<1>4. Len(frames) \in S
  <2> HIDE DEF Is
  <2>1. 0 \in S
    BY <1>2
  <2> HIDE DEF S
  <2>2. 0..Len(frames) \subseteq S
    BY ZenonT(30), <1>3, <2>1, SetInduction
  <2> QED
    BY <2>2
<1>5. Is(f, Len(frames))
  BY <1>4, Zenon DEF f
<1>6. f[0] = base /\ \A k \in 1..Len(frames) : f[k] = Step(f[k - 1], k)
  BY <1>5
<1>7. LearnLoop(f, table, frames, i)
  BY ZenonT(30), <1>1, <1>6 DEF LearnLoop, base, Step
<1> QED
  BY <1>7

(* What the loop of ArpIn::process computes.                              *)
ArpLoop(t, init, frames, i, macs) ==
  /\ t[0] = init
  /\ \A k \in 1..Len(frames) :
       t[k] = IF Selected(frames[k], macs, "arp")
              THEN ArpStep(t[k - 1], frames[k], i)
              ELSE t[k - 1]
  /\ ArpIn(init, frames, i, macs) = t[Len(frames)]

(* The loop over the ARP packets of a batch.                               *)
LEMMA ArpInRuns ==
  ASSUME NEW init, NEW frames, NEW i, NEW macs, Len(frames) \in Nat
  PROVE  \E t : ArpLoop(t, init, frames, i, macs)
<1> DEFINE base == init
           Step(x, k) == IF Selected(frames[k], macs, "arp")
                         THEN ArpStep(x, frames[k], i) ELSE x
           Is(t, n) == t = [k \in 0..n |-> IF k = 0 THEN base ELSE Step(t[k - 1], k)]
           S == {n \in 0..Len(frames) : \E t : Is(t, n)}
           f == CHOOSE t : Is(t, Len(frames))
<1>1. ArpIn(init, frames, i, macs) = f[Len(frames)]
  BY DEF ArpIn
<1> HIDE DEF base, Step, f
<1>2. Is([k \in 0..0 |-> base], 0) /\ 0 \in 0..Len(frames)
  OBVIOUS
<1>3. ASSUME NEW n \in 1..Len(frames), n - 1 \in S
      PROVE  n \in S
  <2>1. PICK t : Is(t, n - 1)
    BY <1>3
  <2> DEFINE u == [k \in 0..n |-> IF k = n THEN Step(t[n - 1], n) ELSE t[k]]
  <2>2. /\ u[n] = Step(t[n - 1], n) /\ \A k \in 0..n - 1 : u[k] = t[k]
        /\ u = [k \in 0..n |-> u[k]]
    OBVIOUS
  <2> HIDE DEF u
  <2>3. \A k \in 0..n : u[k] = IF k = 0 THEN base ELSE Step(u[k - 1], k)
    BY <2>1, <2>2
  <2>4. Is(u, n)
    BY ZenonT(30), <2>2, <2>3
  <2> HIDE DEF Is
  <2> QED
    BY <2>4
<1>4. Len(frames) \in S
  <2> HIDE DEF Is
  <2>1. 0 \in S
    BY <1>2
  <2> HIDE DEF S
  <2>2. 0..Len(frames) \subseteq S
    BY ZenonT(30), <1>3, <2>1, SetInduction
  <2> QED
    BY <2>2
<1>5. Is(f, Len(frames))
  BY <1>4, Zenon DEF f
<1>6. f[0] = base /\ \A k \in 1..Len(frames) : f[k] = Step(f[k - 1], k)
  BY <1>5
<1>7. ArpLoop(f, init, frames, i, macs)
  BY <1>1, <1>6 DEF ArpLoop, base, Step
<1> QED
  BY <1>7

(* What the loops of the ICMP nodes pick out.                             *)
EchoLoop(t, frames) ==
  /\ t[0] = << >>
  /\ \A k \in 1..Len(frames) :
       t[k] = IF frames[k].icmp = "echo"
              THEN Append(t[k - 1], frames[k])
              ELSE t[k - 1]
  /\ Echoes(frames) = t[Len(frames)]

(* The loop over the packets of an ICMP node.                              *)
LEMMA EchoesRuns ==
  ASSUME NEW frames, Len(frames) \in Nat
  PROVE  \E t : EchoLoop(t, frames)
<1> DEFINE base == << >>
           Step(x, k) == IF frames[k].icmp = "echo" THEN Append(x, frames[k]) ELSE x
           Is(t, n) == t = [k \in 0..n |-> IF k = 0 THEN base ELSE Step(t[k - 1], k)]
           S == {n \in 0..Len(frames) : \E t : Is(t, n)}
           f == CHOOSE t : Is(t, Len(frames))
<1>1. Echoes(frames) = f[Len(frames)]
  BY DEF Echoes
<1> HIDE DEF base, Step, f
<1>2. Is([k \in 0..0 |-> base], 0) /\ 0 \in 0..Len(frames)
  OBVIOUS
<1>3. ASSUME NEW n \in 1..Len(frames), n - 1 \in S
      PROVE  n \in S
  <2>1. PICK t : Is(t, n - 1)
    BY <1>3
  <2> DEFINE u == [k \in 0..n |-> IF k = n THEN Step(t[n - 1], n) ELSE t[k]]
  <2>2. /\ u[n] = Step(t[n - 1], n) /\ \A k \in 0..n - 1 : u[k] = t[k]
        /\ u = [k \in 0..n |-> u[k]]
    OBVIOUS
  <2> HIDE DEF u
  <2>3. \A k \in 0..n : u[k] = IF k = 0 THEN base ELSE Step(u[k - 1], k)
    BY <2>1, <2>2
  <2>4. Is(u, n)
    BY ZenonT(30), <2>2, <2>3
  <2> HIDE DEF Is
  <2> QED
    BY <2>4
<1>4. Len(frames) \in S
  <2> HIDE DEF Is
  <2>1. 0 \in S
    BY <1>2
  <2> HIDE DEF S
  <2>2. 0..Len(frames) \subseteq S
    BY ZenonT(30), <1>3, <2>1, SetInduction
  <2> QED
    BY <2>2
<1>5. Is(f, Len(frames))
  BY <1>4, Zenon DEF f
<1>6. f[0] = base /\ \A k \in 1..Len(frames) : f[k] = Step(f[k - 1], k)
  BY <1>5
<1>7. EchoLoop(f, frames)
  BY <1>1, <1>6 DEF EchoLoop, base, Step
<1> QED
  BY <1>7

(* What the loops of Ipv4In::process and Ipv6In::process hand on.         *)
IpLoop(t, frames, macs, type, local) ==
  /\ t[0] = [icmp |-> << >>, handed |-> << >>]
  /\ \A k \in 1..Len(frames) :
       t[k] = IF Selected(frames[k], macs, type)
              THEN IpStep(t[k - 1], frames[k], local)
              ELSE t[k - 1]
  /\ HandedOn(frames, macs, type, local) = t[Len(frames)].handed

(* The loop over the IP packets of a batch.                                *)
LEMMA HandedOnRuns ==
  ASSUME NEW frames, NEW macs, NEW type, NEW local, Len(frames) \in Nat
  PROVE  \E t : IpLoop(t, frames, macs, type, local)
<1> DEFINE base == [icmp |-> << >>, handed |-> << >>]
           Step(x, k) == IF Selected(frames[k], macs, type)
                         THEN IpStep(x, frames[k], local) ELSE x
           Is(t, n) == t = [k \in 0..n |-> IF k = 0 THEN base ELSE Step(t[k - 1], k)]
           S == {n \in 0..Len(frames) : \E t : Is(t, n)}
           f == CHOOSE t : Is(t, Len(frames))
<1>1. HandedOn(frames, macs, type, local) = f[Len(frames)].handed
  BY DEF HandedOn
<1> HIDE DEF base, Step, f
<1>2. Is([k \in 0..0 |-> base], 0) /\ 0 \in 0..Len(frames)
  OBVIOUS
<1>3. ASSUME NEW n \in 1..Len(frames), n - 1 \in S
      PROVE  n \in S
  <2>1. PICK t : Is(t, n - 1)
    BY <1>3
  <2> DEFINE u == [k \in 0..n |-> IF k = n THEN Step(t[n - 1], n) ELSE t[k]]
  <2>2. /\ u[n] = Step(t[n - 1], n) /\ \A k \in 0..n - 1 : u[k] = t[k]
        /\ u = [k \in 0..n |-> u[k]]
    OBVIOUS
  <2> HIDE DEF u
  <2>3. \A k \in 0..n : u[k] = IF k = 0 THEN base ELSE Step(u[k - 1], k)
    BY <2>1, <2>2
  <2>4. Is(u, n)
    BY ZenonT(30), <2>2, <2>3
  <2> HIDE DEF Is
  <2> QED
    BY <2>4
<1>4. Len(frames) \in S
  <2> HIDE DEF Is
  <2>1. 0 \in S
    BY <1>2
  <2> HIDE DEF S
  <2>2. 0..Len(frames) \subseteq S
    BY ZenonT(30), <1>3, <2>1, SetInduction
  <2> QED
    BY <2>2
<1>5. Is(f, Len(frames))
  BY <1>4, Zenon DEF f
<1>6. f[0] = base /\ \A k \in 1..Len(frames) : f[k] = Step(f[k - 1], k)
  BY <1>5
<1>7. IpLoop(f, frames, macs, type, local)
  BY <1>1, <1>6 DEF IpLoop, base, Step
<1> QED
  BY <1>7

(* What start_rust registers, interface by interface.                     *)
BootLoop(t) ==
  /\ t[0] = [macs |-> Empty, adj4 |-> Empty, fib4 |-> Empty]
  /\ \A k \in 1..Len(Ifaces) :
       t[k] = [macs |-> BootMac(t[k - 1].macs, Ifaces[k]),
               adj4 |-> BootAdj4(t[k - 1].adj4, Ifaces[k]),
               fib4 |-> BootFib4(t[k - 1].fib4, Ifaces[k])]
  /\ Boot[Len(Ifaces)] = t[Len(Ifaces)]

(* The loop over the interfaces.                                           *)
LEMMA BootRuns ==
  ASSUME Len(Ifaces) \in Nat
  PROVE  \E t : BootLoop(t)
<1> DEFINE base == [macs |-> Empty, adj4 |-> Empty, fib4 |-> Empty]
           Step(x, k) == [macs |-> BootMac(x.macs, Ifaces[k]),
                          adj4 |-> BootAdj4(x.adj4, Ifaces[k]),
                          fib4 |-> BootFib4(x.fib4, Ifaces[k])]
           Is(t, n) == t = [k \in 0..n |-> IF k = 0 THEN base ELSE Step(t[k - 1], k)]
           S == {n \in 0..Len(Ifaces) : \E t : Is(t, n)}
           f == CHOOSE t : Is(t, Len(Ifaces))
<1>1. Boot[Len(Ifaces)] = f[Len(Ifaces)]
  BY DEF Boot
<1> HIDE DEF base, Step, f
<1>2. Is([k \in 0..0 |-> base], 0) /\ 0 \in 0..Len(Ifaces)
  OBVIOUS
<1>3. ASSUME NEW n \in 1..Len(Ifaces), n - 1 \in S
      PROVE  n \in S
  <2>1. PICK t : Is(t, n - 1)
    BY <1>3
  <2> DEFINE u == [k \in 0..n |-> IF k = n THEN Step(t[n - 1], n) ELSE t[k]]
  <2>2. /\ u[n] = Step(t[n - 1], n) /\ \A k \in 0..n - 1 : u[k] = t[k]
        /\ u = [k \in 0..n |-> u[k]]
    OBVIOUS
  <2> HIDE DEF u
  <2>3. \A k \in 0..n : u[k] = IF k = 0 THEN base ELSE Step(u[k - 1], k)
    BY <2>1, <2>2
  <2>4. Is(u, n)
    BY ZenonT(30), <2>2, <2>3
  <2> HIDE DEF Is
  <2> QED
    BY <2>4
<1>4. Len(Ifaces) \in S
  <2> HIDE DEF Is
  <2>1. 0 \in S
    BY <1>2
  <2> HIDE DEF S
  <2>2. 0..Len(Ifaces) \subseteq S
    BY ZenonT(30), <1>3, <2>1, SetInduction
  <2> QED
    BY <2>2
<1>5. Is(f, Len(Ifaces))
  BY <1>4, Zenon DEF f
<1>6. f[0] = base /\ \A k \in 1..Len(Ifaces) : f[k] = Step(f[k - 1], k)
  BY <1>5
<1>7. BootLoop(f)
  BY <1>1, <1>6 DEF BootLoop, base, Step
<1> QED
  BY <1>7
-----------------------------------------------------------------------------
(* The tables.                                                             *)

(* An entry that is there stays as it is, a missing one is made.           *)
LEMMA RegisterIs ==
  ASSUME NEW table, NEW key, NEW entry
  PROVE  /\ DOMAIN Register(table, key, entry) = DOMAIN table \cup {key}
         /\ \A k \in DOMAIN table : Register(table, key, entry)[k] = table[k]
         /\ key \notin DOMAIN table => Register(table, key, entry)[key] = entry
  BY DEF Register, Insert

Extends(new, old) == \A k \in DOMAIN old : k \in DOMAIN new /\ new[k] = old[k]

(* Learning source addresses changes no entry and makes nothing local.     *)
LEMMA LearnKeeps ==
  ASSUME NEW table, NEW frames, NEW i, Len(frames) \in Nat, MacsOk(table)
  PROVE  MacsOk(Learn(table, frames, i)) /\ Extends(Learn(table, frames, i), table)
<1> DEFINE n == Len(frames)
           entry == [netif |-> i, local |-> FALSE]
<1>0. PICK t : LearnLoop(t, table, frames, i)
  BY LearnRuns
<1>1. /\ t[0] = table
      /\ \A k \in 1..n : t[k] = Register(t[k - 1], frames[k].src, entry)
      /\ Learn(table, frames, i) = t[n]
  BY ZenonT(30), <1>0 DEF LearnLoop
<1> DEFINE S == {k \in 0..n : MacsOk(t[k]) /\ Extends(t[k], table)}
<1>2. 0 \in S
  BY <1>1 DEF Extends
<1>3. ASSUME NEW k \in 1..n, k - 1 \in S
      PROVE  k \in S
  <2> DEFINE old == t[k - 1]
             src == frames[k].src
  <2>1. MacsOk(old) /\ Extends(old, table) /\ t[k] = Register(old, src, entry)
    BY ZenonT(30), <1>1, <1>3
  <2> HIDE DEF old, src, entry
  <2>2. /\ DOMAIN t[k] = DOMAIN old \cup {src}
        /\ \A m \in DOMAIN old : t[k][m] = old[m]
        /\ src \notin DOMAIN old => t[k][src] = entry
    <3>1. /\ DOMAIN Register(old, src, entry) = DOMAIN old \cup {src}
          /\ \A m \in DOMAIN old : Register(old, src, entry)[m] = old[m]
          /\ src \notin DOMAIN old => Register(old, src, entry)[src] = entry
      BY ZenonT(30), RegisterIs
    <3> QED
      BY <2>1, <3>1
  <2>3. entry.local = FALSE
    BY DEF entry
  <2>4. MacsOk(t[k])
    <3>1. OwnMacs \subseteq DOMAIN t[k]
      BY <2>1, <2>2 DEF MacsOk
    <3>2. ASSUME NEW m \in DOMAIN t[k]
          PROVE  t[k][m].local <=> m \in OwnMacs
      <4>1. CASE m \in DOMAIN old
        BY <2>1, <2>2, <4>1 DEF MacsOk
      <4>2. CASE m \notin DOMAIN old
        BY <2>1, <2>2, <2>3, <4>2 DEF MacsOk
      <4> QED
        BY <4>1, <4>2
    <3> QED
      BY <3>1, <3>2 DEF MacsOk
  <2>5. Extends(t[k], table)
    BY <2>1, <2>2 DEF Extends
  <2> QED
    BY <2>4, <2>5
<1> HIDE DEF S
<1>4. 0..n \subseteq S
  BY ZenonT(30), <1>2, <1>3, SetInduction
<1>5. n \in S
  BY <1>4
<1> QED
  BY <1>1, <1>5 DEF S

(* A frame for this machine is one that is sent to it, or to all.          *)
LEMMA ForMeIs ==
  ASSUME NEW macs, MacsOk(macs), NEW f
  PROVE  ForMe(f, macs) <=> f.dst \in OwnMacs \cup {Broadcast}
  BY DEF ForMe, MacsOk

(* Start-up puts the own addresses into the tables, and nothing else.      *)
LEMMA BootMacIs ==
  ASSUME NEW table, NEW i, \A m \in DOMAIN table : table[m].local
  PROVE  /\ DOMAIN BootMac(table, i) = DOMAIN table \cup {OwnMac[i], SnMac[i], AllNodesMac}
         /\ \A m \in DOMAIN BootMac(table, i) : BootMac(table, i)[m].local
<1> DEFINE entry == [netif |-> i, local |-> TRUE]
           own == Register(table, OwnMac[i], entry)
           sn == Register(own, SnMac[i], entry)
           all == Register(sn, AllNodesMac, entry)
<1>1. ASSUME NEW t, NEW key, \A m \in DOMAIN t : t[m].local
      PROVE  /\ DOMAIN Register(t, key, entry) = DOMAIN t \cup {key}
             /\ \A m \in DOMAIN Register(t, key, entry) : Register(t, key, entry)[m].local
  <2>1. entry.local
    OBVIOUS
  <2> HIDE DEF entry
  <2>2. /\ DOMAIN Register(t, key, entry) = DOMAIN t \cup {key}
        /\ \A k \in DOMAIN t : Register(t, key, entry)[k] = t[k]
        /\ key \notin DOMAIN t => Register(t, key, entry)[key] = entry
    BY ZenonT(30), RegisterIs
  <2> QED
    BY <1>1, <2>1, <2>2
<1> HIDE DEF entry
<1>2. DOMAIN own = DOMAIN table \cup {OwnMac[i]} /\ \A m \in DOMAIN own : own[m].local
  BY ZenonT(30), <1>1
<1> HIDE DEF own
<1>3. DOMAIN sn = DOMAIN own \cup {SnMac[i]} /\ \A m \in DOMAIN sn : sn[m].local
  BY ZenonT(30), <1>1, <1>2
<1> HIDE DEF sn
<1>4. DOMAIN all = DOMAIN sn \cup {AllNodesMac} /\ \A m \in DOMAIN all : all[m].local
  BY ZenonT(30), <1>1, <1>3
<1>5. BootMac(table, i) = all
  BY DEF BootMac, all, sn, own, entry
<1> HIDE DEF all
<1> QED
  BY <1>2, <1>3, <1>4, <1>5

(* An interface uses its address.                                          *)
LEMMA OwnClaim ==
  ASSUME NEW i \in Iface
  PROVE  [mac |-> OwnMac[i], netif |-> i, local |-> TRUE] \in Claimants(OwnIp4[i])
  BY ZenonT(30) DEF Claimants

(* A host that sends an ARP packet uses the address it gives.              *)
LEMMA HostClaim ==
  ASSUME NEW i \in Iface, NEW f \in Frames[i], f.type = "arp"
  PROVE  [mac |-> f.src, netif |-> i, local |-> FALSE] \in Claimants(f.spa)
<1> DEFINE c == [mac |-> f.src, netif |-> i, local |-> FALSE]
           of(j) == {[mac |-> g.src, netif |-> j, local |-> FALSE]
                       : g \in {h \in Frames[j] : h.type = "arp" /\ h.spa = f.spa}}
<1>1. c \in of(i)
  BY ZenonT(30)
<1>2. UNION {of(j) : j \in Iface} \subseteq Claimants(f.spa)
  BY DEF Claimants
<1> HIDE DEF c, of
<1>3. c \in UNION {of(j) : j \in Iface}
  BY <1>1
<1> QED
  BY ZenonT(30), <1>2, <1>3 DEF c

(* Who claims an address for this machine is an interface that has it.     *)
LEMMA LocalClaim ==
  ASSUME NEW a, NEW c \in Claimants(a), c.local
  PROVE  c.netif \in Iface /\ OwnIp4[c.netif] = a
<1>1. CASE c \in {[mac |-> OwnMac[i], netif |-> i, local |-> TRUE]
                    : i \in {j \in Iface : OwnIp4[j] = a}}
  BY <1>1
<1>2. ASSUME NEW i \in Iface,
             c \in {[mac |-> f.src, netif |-> i, local |-> FALSE]
                      : f \in {g \in Frames[i] : g.type = "arp" /\ g.spa = a}}
      PROVE  FALSE
  BY <1>2
<1>3. ~ (c \in UNION {{[mac |-> f.src, netif |-> i, local |-> FALSE]
                          : f \in {g \in Frames[i] : g.type = "arp" /\ g.spa = a}}
                       : i \in Iface})
  BY <1>2
<1> QED
  BY <1>1, <1>3 DEF Claimants

(* start_rust leaves the tables as the invariant has them.                 *)
LEMMA BootTables ==
  LET boot == Boot[Len(Ifaces)]
  IN  /\ MacsOk(boot.macs) /\ AdjacenciesOk(boot.adj4)
      /\ RoutesOk(boot.fib4, boot.adj4)
<1> DEFINE n == Len(Ifaces)
<1>0. n \in Nat \ {0} /\ \A k \in 1..n : Ifaces[k] \in Iface
  BY RouterAssumption
<1>1. PICK t : BootLoop(t)
  BY <1>0, BootRuns
<1>2. /\ t[0].macs = Empty /\ t[0].adj4 = Empty /\ t[0].fib4 = Empty
      /\ \A k \in 1..n : /\ t[k].macs = BootMac(t[k - 1].macs, Ifaces[k])
                         /\ t[k].adj4 = BootAdj4(t[k - 1].adj4, Ifaces[k])
                         /\ t[k].fib4 = BootFib4(t[k - 1].fib4, Ifaces[k])
      /\ Boot[n] = t[n]
  <2>1. t[0] = [macs |-> Empty, adj4 |-> Empty, fib4 |-> Empty] /\ Boot[n] = t[n]
    BY <1>1 DEF BootLoop
  <2>2. ASSUME NEW k \in 1..n
        PROVE  /\ t[k].macs = BootMac(t[k - 1].macs, Ifaces[k])
               /\ t[k].adj4 = BootAdj4(t[k - 1].adj4, Ifaces[k])
               /\ t[k].fib4 = BootFib4(t[k - 1].fib4, Ifaces[k])
    <3>1. t[k] = [macs |-> BootMac(t[k - 1].macs, Ifaces[k]),
                  adj4 |-> BootAdj4(t[k - 1].adj4, Ifaces[k]),
                  fib4 |-> BootFib4(t[k - 1].fib4, Ifaces[k])]
      BY <1>1 DEF BootLoop
    <3> QED
      BY <3>1
  <2>3. t[0].macs = Empty /\ t[0].adj4 = Empty /\ t[0].fib4 = Empty
    BY <2>1
  <2> QED
    BY <2>1, <2>2, <2>3
<1> DEFINE Macs(m, k) ==
             /\ \A x \in DOMAIN m : x \in OwnMacs /\ m[x].local
             /\ \A j \in 1..k : {OwnMac[Ifaces[j]], SnMac[Ifaces[j]], AllNodesMac}
                                  \subseteq DOMAIN m
           Adj(m, k) ==
             /\ \A a \in DOMAIN m : m[a] \in Claimants(a) /\ m[a].local
             /\ \A j \in 1..k : OwnIp4[Ifaces[j]] \in DOMAIN m
           S == {k \in 0..n : /\ Macs(t[k].macs, k) /\ Adj(t[k].adj4, k)
                              /\ RoutesOk(t[k].fib4, t[k].adj4)}
<1>3. 0 \in S
  <2>1. DOMAIN Empty = {}
    BY DEF Empty
  <2>2. Macs(Empty, 0) /\ Adj(Empty, 0) /\ RoutesOk(Empty, Empty)
    BY <2>1 DEF RoutesOk
  <2> HIDE DEF Macs, Adj
  <2> QED
    BY <1>0, <1>2, <2>2
<1>4. ASSUME NEW k \in 1..n, k - 1 \in S
      PROVE  k \in S
  <2> DEFINE i == Ifaces[k]
             macs == t[k - 1].macs
             adj == t[k - 1].adj4
             fib == t[k - 1].fib4
  <2>1. /\ Macs(macs, k - 1) /\ Adj(adj, k - 1) /\ RoutesOk(fib, adj) /\ i \in Iface
        /\ t[k].macs = BootMac(macs, i) /\ t[k].adj4 = BootAdj4(adj, i)
        /\ t[k].fib4 = BootFib4(fib, i)
    <3> HIDE DEF Macs, Adj
    <3> QED
      BY <1>0, <1>2, <1>4
  <2>2. \A j \in 1..k : j \in 1..k - 1 \/ j = k
    OBVIOUS
  <2> HIDE DEF i, macs, adj, fib
  <2>3. Macs(t[k].macs, k)
    <3>1. /\ DOMAIN t[k].macs = DOMAIN macs \cup {OwnMac[i], SnMac[i], AllNodesMac}
          /\ \A m \in DOMAIN t[k].macs : t[k].macs[m].local
      BY ZenonT(30), <2>1, BootMacIs
    <3>2. {OwnMac[i], SnMac[i], AllNodesMac} \subseteq OwnMacs
      BY <2>1 DEF OwnMacs
    <3> QED
      BY <2>1, <2>2, <3>1, <3>2 DEF i
  <2> DEFINE ip == OwnIp4[i]
             own == [mac |-> OwnMac[i], netif |-> i, local |-> TRUE]
             route == [fib_type |-> "Local", mac |-> OwnMac[i], netif |-> i]
  <2>4. own \in Claimants(ip) /\ own.local /\ Station(route) = own
    BY ZenonT(30), <2>1, OwnClaim DEF Station
  <2>5. t[k].adj4 = Register(adj, ip, own) /\ t[k].fib4 = Insert(fib, ip, route)
    BY <2>1 DEF BootAdj4, BootFib4, RegisterFib
  <2>6. \A j \in 1..k : j \in 1..k - 1 \/ OwnIp4[Ifaces[j]] = ip
    BY <2>2 DEF i
  <2> HIDE DEF ip, own, route
  <2>7. /\ DOMAIN Register(adj, ip, own) = DOMAIN adj \cup {ip}
        /\ \A a \in DOMAIN adj : Register(adj, ip, own)[a] = adj[a]
        /\ ip \notin DOMAIN adj => Register(adj, ip, own)[ip] = own
    BY ZenonT(30), RegisterIs
  <2>8. /\ DOMAIN Insert(fib, ip, route) = DOMAIN fib \cup {ip}
        /\ Insert(fib, ip, route)[ip] = route
        /\ \A a \in DOMAIN fib : a # ip => Insert(fib, ip, route)[a] = fib[a]
    BY DEF Insert
  <2>9. Adj(t[k].adj4, k)
    BY <2>1, <2>4, <2>5, <2>6, <2>7
  <2>10. RoutesOk(t[k].fib4, t[k].adj4)
    BY <2>1, <2>4, <2>5, <2>7, <2>8 DEF RoutesOk
  <2> HIDE DEF Macs, Adj
  <2> QED
    BY <2>3, <2>9, <2>10
<1> HIDE DEF S
<1>5. 0..n \subseteq S
  BY ZenonT(30), <1>0, <1>3, <1>4, SetInduction
<1>6. n \in S
  BY <1>0, <1>5
<1>7. Macs(t[n].macs, n) /\ Adj(t[n].adj4, n) /\ RoutesOk(t[n].fib4, t[n].adj4)
  BY <1>6 DEF S
<1>8. \A i \in Iface : \E j \in 1..n : Ifaces[j] = i
  BY RouterAssumption DEF Iface, Range
<1>9. MacsOk(t[n].macs)
  <2>1. AllNodesMac \in DOMAIN t[n].macs
    BY <1>0, <1>7
  <2>2. \A i \in Iface : OwnMac[i] \in DOMAIN t[n].macs /\ SnMac[i] \in DOMAIN t[n].macs
    BY <1>7, <1>8
  <2>3. OwnMacs \subseteq DOMAIN t[n].macs
    BY <2>1, <2>2 DEF OwnMacs
  <2> QED
    BY <1>7, <2>3 DEF MacsOk
<1>10. AdjacenciesOk(t[n].adj4)
  BY <1>7, <1>8 DEF AdjacenciesOk, OwnIps
<1> QED
  BY <1>2, <1>7, <1>9, <1>10
-----------------------------------------------------------------------------
(* arp-in.                                                                 *)

(* The replies that arp-in may give to the ARP packets of a batch.         *)
ArpAnswers(frames) ==
  {r \in {ArpReply(frames[j], i) : j \in 1..Len(frames), i \in Iface} :
     /\ r.kind = "arp" /\ r.from = OwnIp4[r.netif]
     /\ \E j \in 1..Len(frames) :
          /\ frames[j].type = "arp" /\ frames[j].src = r.to
          /\ frames[j].tpa = r.from
          /\ frames[j].dst \in OwnMacs \cup {Broadcast}}

ArpOk(st, frames, adj) ==
  /\ AdjacenciesOk(st.adj4) /\ RoutesOk(st.fib4, st.adj4)
  /\ Extends(st.adj4, adj) /\ st.out \in Seq(ArpAnswers(frames))

(* arp-in, on one packet, keeps the tables right and answers truly.        *)
LEMMA ArpStepKeeps ==
  ASSUME NEW st, NEW frames, NEW adj, ArpOk(st, frames, adj),
         NEW macs, MacsOk(macs), NEW i \in Iface,
         NEW j \in 1..Len(frames), frames[j] \in Frames[i],
         Selected(frames[j], macs, "arp")
  PROVE  ArpOk(ArpStep(st, frames[j], i), frames, adj)
<1> DEFINE f == frames[j]
           spa == f.spa
           tpa == f.tpa
           route == [fib_type |-> "AdjacentResolved", mac |-> f.src, netif |-> i]
           host == [mac |-> f.src, netif |-> i, local |-> FALSE]
           fib == Insert(st.fib4, spa, route)
           new == Register(st.adj4, spa, host)
           asked == tpa \in DOMAIN new /\ new[tpa].local /\ f.oper = "request"
           reply == ArpReply(f, new[tpa].netif)
           sent == IF asked THEN Append(st.out, reply) ELSE st.out
<1>1. ArpStep(st, frames[j], i) = [fib4 |-> fib, adj4 |-> new, out |-> sent]
  BY DEF ArpStep, RegisterFib, ArpAdjacent
<1>2. f.type = "arp" /\ f.dst \in OwnMacs \cup {Broadcast}
  BY ForMeIs DEF Selected
<1>3. host \in Claimants(spa) /\ Station(route) = host
  BY ZenonT(30), <1>2, HostClaim DEF Station
<1> HIDE DEF spa, route, host
<1>4. /\ DOMAIN new = DOMAIN st.adj4 \cup {spa}
      /\ \A a \in DOMAIN st.adj4 : new[a] = st.adj4[a]
      /\ spa \notin DOMAIN st.adj4 => new[spa] = host
  BY ZenonT(30), RegisterIs
<1>5. /\ DOMAIN fib = DOMAIN st.fib4 \cup {spa} /\ fib[spa] = route
      /\ \A a \in DOMAIN st.fib4 : a # spa => fib[a] = st.fib4[a]
  BY DEF Insert
<1> HIDE DEF new, fib
<1>6. AdjacenciesOk(new) /\ Extends(new, adj)
  BY <1>3, <1>4 DEF ArpOk, AdjacenciesOk, Extends
<1>7. RoutesOk(fib, new)
  BY <1>3, <1>4, <1>5 DEF ArpOk, RoutesOk
<1>8. sent \in Seq(ArpAnswers(frames))
  <2>1. CASE ~ asked
    BY <2>1 DEF ArpOk
  <2>2. CASE asked
    <3>1. new[tpa].netif \in Iface /\ OwnIp4[new[tpa].netif] = tpa
      BY <1>6, <2>2, LocalClaim DEF AdjacenciesOk
    <3>2. /\ reply.kind = "arp" /\ reply.netif = new[tpa].netif
          /\ reply.to = f.src /\ reply.from = tpa
      BY DEF ArpReply, Reply
    <3>3. reply \in {ArpReply(frames[l], n) : l \in 1..Len(frames), n \in Iface}
      BY <3>1
    <3> HIDE DEF reply
    <3>4. reply \in ArpAnswers(frames)
      BY <1>2, <3>1, <3>2, <3>3 DEF ArpAnswers
    <3>5. st.out \in Seq(ArpAnswers(frames)) /\ sent = Append(st.out, reply)
      BY <2>2 DEF ArpOk
    <3> QED
      BY <3>4, <3>5
  <2> QED
    BY <2>1, <2>2
<1> HIDE DEF sent
<1>9. ArpOk([fib4 |-> fib, adj4 |-> new, out |-> sent], frames, adj)
  BY <1>6, <1>7, <1>8 DEF ArpOk
<1> QED
  BY <1>1, <1>9

(* arp-in keeps the tables right, and answers truly.                       *)
LEMMA ArpInKeeps ==
  ASSUME NEW init, NEW frames, ArpOk(init, frames, init.adj4),
         NEW macs, MacsOk(macs), NEW i \in Iface,
         Len(frames) \in Nat, \A j \in 1..Len(frames) : frames[j] \in Frames[i]
  PROVE  ArpOk(ArpIn(init, frames, i, macs), frames, init.adj4)
<1> DEFINE n == Len(frames)
           adj == init.adj4
<1>1. PICK t : ArpLoop(t, init, frames, i, macs)
  BY ArpInRuns
<1> DEFINE S == {k \in 0..n : ArpOk(t[k], frames, adj)}
<1>2. 0 \in S
  BY <1>1 DEF ArpLoop
<1>3. ASSUME NEW k \in 1..n, k - 1 \in S
      PROVE  k \in S
  <2>1. ArpOk(t[k - 1], frames, adj)
    BY <1>3
  <2>2. CASE Selected(frames[k], macs, "arp")
    <3>1. t[k] = ArpStep(t[k - 1], frames[k], i)
      BY <1>1, <2>2 DEF ArpLoop
    <3> HIDE DEF adj
    <3>2. ArpOk(ArpStep(t[k - 1], frames[k], i), frames, adj)
      BY <2>1, <2>2, ArpStepKeeps
    <3> QED
      BY <3>1, <3>2
  <2>3. CASE ~ Selected(frames[k], macs, "arp")
    <3>1. t[k] = t[k - 1]
      BY <1>1, <2>3 DEF ArpLoop
    <3> QED
      BY <2>1, <3>1
  <2> QED
    BY <2>2, <2>3
<1> HIDE DEF S
<1>4. 0..n \subseteq S
  BY ZenonT(30), <1>2, <1>3, SetInduction
<1>5. n \in S
  BY <1>4
<1> QED
  BY <1>1, <1>5 DEF S, ArpLoop
-----------------------------------------------------------------------------
(* ipv4-in, ipv6-in and the ICMP nodes.                                    *)

Elems(s) == {s[k] : k \in 1..Len(s)}

(* What push adds to a list.                                               *)
LEMMA ElemsAppend ==
  ASSUME NEW X, NEW s \in Seq(X), NEW x \in X
  PROVE  Append(s, x) \in Seq(X) /\ Elems(Append(s, x)) = Elems(s) \cup {x}
<1> DEFINE n == Len(s)
           u == Append(s, x)
<1>1. /\ u \in Seq(X) /\ Len(u) = n + 1 /\ n \in Nat /\ u[n + 1] = x
      /\ \A k \in 1..n : u[k] = s[k]
  OBVIOUS
<1> HIDE DEF u
<1>2. \A k \in 1..n + 1 : k \in 1..n \/ k = n + 1
  BY <1>1
<1>3. n + 1 \in 1..n + 1 /\ \A k \in 1..n : k \in 1..n + 1
  BY <1>1
<1>4. Elems(u) = Elems(s) \cup {x}
  <2>1. \A y \in Elems(u) : y \in Elems(s) \cup {x}
    BY <1>1, <1>2 DEF Elems
  <2>2. \A y \in Elems(s) \cup {x} : y \in Elems(u)
    BY <1>1, <1>3 DEF Elems
  <2> QED
    BY <2>1, <2>2
<1> QED
  BY <1>1, <1>4 DEF u

(* What a list holds that is appended to another.                          *)
LEMMA ElemsConcat ==
  ASSUME NEW X, NEW s \in Seq(X), NEW t \in Seq(X)
  PROVE  s \o t \in Seq(X) /\ Elems(s \o t) = Elems(s) \cup Elems(t)
<1> DEFINE n == Len(s)
           m == Len(t)
           u == s \o t
<1>1. /\ u \in Seq(X) /\ Len(u) = n + m /\ n \in Nat /\ m \in Nat
      /\ \A k \in 1..n : u[k] = s[k]
      /\ \A k \in 1..m : u[n + k] = t[k]
  OBVIOUS
<1> HIDE DEF u
<1>2. \A k \in 1..n + m : k \in 1..n \/ \E l \in 1..m : k = n + l
  <2>0. n \in Nat /\ m \in Nat
    BY <1>1
  <2> HIDE DEF n, m
  <2> SUFFICES ASSUME NEW k \in 1..n + m, k > n PROVE \E l \in 1..m : k = n + l
    BY <2>0
  <2>1. k - n \in 1..m /\ k = n + (k - n)
    BY <2>0
  <2> QED
    BY <2>1
<1>3. /\ \A k \in 1..n : k \in 1..n + m
      /\ \A l \in 1..m : n + l \in 1..n + m
  BY <1>1
<1>4. Elems(u) = Elems(s) \cup Elems(t)
  <2>1. ASSUME NEW y \in Elems(u) PROVE y \in Elems(s) \cup Elems(t)
    <3>1. PICK k \in 1..n + m : y = u[k]
      BY <1>1 DEF Elems
    <3>2. CASE k \in 1..n
      BY <1>1, <3>1, <3>2 DEF Elems
    <3>3. ASSUME NEW l \in 1..m, k = n + l PROVE y \in Elems(t)
      BY <1>1, <3>1, <3>3 DEF Elems
    <3> QED
      BY <1>2, <3>2, <3>3
  <2>2. \A y \in Elems(s) \cup Elems(t) : y \in Elems(u)
    BY ZenonT(30), <1>1, <1>3 DEF Elems
  <2> QED
    BY <2>1, <2>2
<1> QED
  BY <1>1, <1>4 DEF u

(* The ICMP nodes see the echo requests of what they are handed.           *)
LEMMA EchoesAre ==
  ASSUME NEW X, NEW frames \in Seq(X)
  PROVE  /\ Echoes(frames) \in Seq(X)
         /\ Elems(Echoes(frames)) = {f \in Elems(frames) : f.icmp = "echo"}
<1> DEFINE n == Len(frames)
           Upto(k) == {frames[j] : j \in {l \in 1..k : frames[l].icmp = "echo"}}
<1>0. n \in Nat /\ \A k \in 1..n : frames[k] \in X
  OBVIOUS
<1>1. PICK t : EchoLoop(t, frames)
  BY <1>0, EchoesRuns
<1> DEFINE Ok(x, k) == x \in Seq(X) /\ Elems(x) = Upto(k)
           S == {k \in 0..n : Ok(t[k], k)}
<1>2. 0 \in S
  <2>1. t[0] = << >>
    BY <1>1 DEF EchoLoop
  <2>2. Elems(<< >>) = {} /\ Upto(0) = {} /\ << >> \in Seq(X)
    BY DEF Elems
  <2>3. Ok(t[0], 0)
    BY <2>1, <2>2
  <2> HIDE DEF Ok
  <2> QED
    BY <1>0, <2>3
<1>3. ASSUME NEW k \in 1..n, k - 1 \in S
      PROVE  k \in S
  <2>1. t[k - 1] \in Seq(X) /\ Elems(t[k - 1]) = Upto(k - 1)
    BY <1>3
  <2>2. \A j : j \in 1..k <=> j \in 1..k - 1 \/ j = k
    BY <1>0
  <2>3. CASE frames[k].icmp = "echo"
    <3>1. t[k] = Append(t[k - 1], frames[k])
      BY ZenonT(30), <1>1, <2>3 DEF EchoLoop
    <3>2. Upto(k) = Upto(k - 1) \cup {frames[k]}
      BY <2>2, <2>3
    <3> HIDE DEF Upto
    <3>3. frames[k] \in X
      BY <1>0
    <3>4. /\ Append(t[k - 1], frames[k]) \in Seq(X)
          /\ Elems(Append(t[k - 1], frames[k])) = Elems(t[k - 1]) \cup {frames[k]}
      BY <2>1, <3>3, ElemsAppend
    <3>5. Ok(t[k], k)
      BY <2>1, <3>1, <3>2, <3>4
    <3> HIDE DEF Ok
    <3> QED
      BY <3>5
  <2>4. CASE frames[k].icmp # "echo"
    <3>1. t[k] = t[k - 1]
      BY <1>1, <2>4 DEF EchoLoop
    <3>2. Upto(k) = Upto(k - 1)
      BY <2>2, <2>4
    <3> HIDE DEF Upto
    <3>3. Ok(t[k], k)
      BY <2>1, <3>1, <3>2
    <3> HIDE DEF Ok
    <3> QED
      BY <3>3
  <2> QED
    BY <2>3, <2>4
<1> HIDE DEF S
<1>4. 0..n \subseteq S
  BY ZenonT(30), <1>0, <1>2, <1>3, SetInduction
<1>5. n \in S
  BY <1>0, <1>4
<1>6. Echoes(frames) \in Seq(X) /\ Elems(Echoes(frames)) = Upto(n)
  BY <1>1, <1>5 DEF S, EchoLoop
<1>7. Upto(n) = {f \in Elems(frames) : f.icmp = "echo"}
  BY DEF Elems
<1> QED
  BY <1>6, <1>7

(* What an IP node hands to its ICMP node: the ICMP packets for a local    *)
(* address, and no others, however often.                                  *)
Heard(f, macs, type, local) ==
  Selected(f, macs, type) /\ f.regular /\ f.dip \in local /\ f.icmp # "none"

(* By induction over the loop: the list so far and all that was handed on  *)
(* hold the same packets.                                                  *)
LEMMA HandedOnAre ==
  ASSUME NEW X, NEW frames \in Seq(X), NEW macs, NEW type, NEW local
  PROVE  /\ HandedOn(frames, macs, type, local) \in Seq(X)
         /\ Elems(HandedOn(frames, macs, type, local))
              = {f \in Elems(frames) : Heard(f, macs, type, local)}
<1> DEFINE n == Len(frames)
           H(f) == Heard(f, macs, type, local)
           Upto(k) == {frames[j] : j \in {l \in 1..k : H(frames[l])}}
<1>0. n \in Nat /\ \A k \in 1..n : frames[k] \in X
  OBVIOUS
<1>1. PICK t : IpLoop(t, frames, macs, type, local)
  BY <1>0, HandedOnRuns
<1> DEFINE Ok(st, k) == /\ st.icmp \in Seq(X) /\ st.handed \in Seq(X)
                        /\ Elems(st.icmp) = Upto(k) /\ Elems(st.handed) = Upto(k)
           S == {k \in 0..n : Ok(t[k], k)}
<1>2. 0 \in S
  <2>1. t[0] = [icmp |-> << >>, handed |-> << >>]
    BY <1>1 DEF IpLoop
  <2>2. Elems(<< >>) = {} /\ Upto(0) = {} /\ << >> \in Seq(X)
    BY DEF Elems
  <2>3. Ok(t[0], 0)
    BY <2>1, <2>2
  <2> HIDE DEF Ok
  <2> QED
    BY <1>0, <2>3
<1>3. ASSUME NEW k \in 1..n, k - 1 \in S
      PROVE  k \in S
  <2> DEFINE f == frames[k]
             st == t[k - 1]
  <2>1. Ok(st, k - 1) /\ f \in X
    <3> HIDE DEF Ok
    <3> QED
      BY <1>0, <1>3
  <2>2. \A j : j \in 1..k <=> j \in 1..k - 1 \/ j = k
    BY <1>0
  <2>3. t[k] = IF Selected(f, macs, type) THEN IpStep(st, f, local) ELSE st
    BY <1>1 DEF IpLoop
  <2>4. CASE ~ (Selected(f, macs, type) /\ f.regular)
    <3>1. t[k] = st
      BY <2>3, <2>4 DEF IpStep
    <3>2. Upto(k) = Upto(k - 1)
      BY <2>2, <2>4 DEF Heard
    <3> HIDE DEF Upto, st
    <3>3. Ok(t[k], k)
      BY <2>1, <3>1, <3>2
    <3> HIDE DEF Ok
    <3> QED
      BY <3>3
  <2>5. CASE Selected(f, macs, type) /\ f.regular
    <3> DEFINE icmp == IF f.dip \in local /\ f.icmp # "none"
                       THEN Append(st.icmp, f) ELSE st.icmp
    <3>1. t[k] = [icmp |-> icmp, handed |-> st.handed \o icmp]
      BY <2>3, <2>5 DEF IpStep
    <3>2. Upto(k) = IF H(f) THEN Upto(k - 1) \cup {f} ELSE Upto(k - 1)
      BY <2>2
    <3>3. H(f) <=> f.dip \in local /\ f.icmp # "none"
      BY <2>5 DEF Heard
    <3> HIDE DEF Upto, H, f, st
    <3>4. icmp \in Seq(X) /\ Elems(icmp) = Upto(k)
      <4>1. CASE H(f)
        <5>1. icmp = Append(st.icmp, f)
          BY <3>3, <4>1
        <5>2. Append(st.icmp, f) \in Seq(X) /\ Elems(Append(st.icmp, f)) = Elems(st.icmp) \cup {f}
          BY <2>1, ElemsAppend
        <5> QED
          BY <2>1, <3>2, <4>1, <5>1, <5>2
      <4>2. CASE ~ H(f)
        BY <2>1, <3>2, <3>3, <4>2
      <4> QED
        BY <4>1, <4>2
    <3> HIDE DEF icmp
    <3>5. /\ st.handed \o icmp \in Seq(X)
          /\ Elems(st.handed \o icmp) = Elems(st.handed) \cup Elems(icmp)
      BY <2>1, <3>4, ElemsConcat
    <3>6. Elems(st.handed \o icmp) = Upto(k)
      BY <2>1, <3>2, <3>4, <3>5
    <3>7. Ok(t[k], k)
      BY <3>1, <3>4, <3>5, <3>6
    <3> HIDE DEF Ok
    <3> QED
      BY <3>7
  <2> QED
    BY <2>4, <2>5
<1> HIDE DEF S
<1>4. 0..n \subseteq S
  BY ZenonT(30), <1>0, <1>2, <1>3, SetInduction
<1>5. n \in S
  BY <1>0, <1>4
<1>6. t[n].handed \in Seq(X) /\ Elems(t[n].handed) = Upto(n)
  BY <1>5 DEF S
<1>7. HandedOn(frames, macs, type, local) = t[n].handed
  BY <1>1 DEF IpLoop
<1>8. Upto(n) = {f \in Elems(frames) : H(f)}
  BY DEF Elems
<1> QED
  BY <1>6, <1>7, <1>8
(* What ipv4-in and icmpv4-in-local answer: the echo requests heard.       *)
LEMMA Ipv4Answers ==
  ASSUME NEW X, NEW frames \in Seq(X), NEW i, NEW macs, NEW local
  PROVE  LET b == Ipv4In(frames, i, macs, local)
         IN  /\ b \in Seq(Elems(b))
             /\ Elems(b) = {Echo4Reply(f, i) : f \in
                  {g \in Elems(frames) : Heard(g, macs, "ip4", local) /\ g.icmp = "echo"}}
<1> DEFINE h == HandedOn(frames, macs, "ip4", local)
           e == Echoes(h)
           b == [k \in 1..Len(e) |-> Echo4Reply(e[k], i)]
<1>1. h \in Seq(X) /\ Elems(h) = {f \in Elems(frames) : Heard(f, macs, "ip4", local)}
  BY HandedOnAre
<1>2. Ipv4In(frames, i, macs, local) = b
  BY DEF Ipv4In, Icmpv4InLocal
<1> HIDE DEF h
<1>3. e \in Seq(X) /\ Elems(e) = {f \in Elems(h) : f.icmp = "echo"}
  BY <1>1, EchoesAre
<1> HIDE DEF e
<1>4. Len(b) = Len(e) /\ Len(e) \in Nat /\ \A k \in 1..Len(e) : b[k] = Echo4Reply(e[k], i)
  BY <1>3
<1>5. Elems(b) = {Echo4Reply(f, i) : f \in Elems(e)}
  BY <1>4 DEF Elems
<1>6. b \in Seq(Elems(b))
  BY <1>4 DEF Elems
<1> HIDE DEF b
<1>7. Elems(e) = {g \in Elems(frames) : Heard(g, macs, "ip4", local) /\ g.icmp = "echo"}
  BY <1>1, <1>3
<1> QED
  BY <1>2, <1>5, <1>6, <1>7

(* The same for ipv6-in and icmpv6-in-local.                               *)
LEMMA Ipv6Answers ==
  ASSUME NEW X, NEW frames \in Seq(X), NEW i, NEW macs, NEW local
  PROVE  LET b == Ipv6In(frames, i, macs, local)
         IN  /\ b \in Seq(Elems(b))
             /\ Elems(b) = {Echo6Reply(f, i) : f \in
                  {g \in Elems(frames) : Heard(g, macs, "ip6", local) /\ g.icmp = "echo"}}
<1> DEFINE h == HandedOn(frames, macs, "ip6", local)
           e == Echoes(h)
           b == [k \in 1..Len(e) |-> Echo6Reply(e[k], i)]
<1>1. h \in Seq(X) /\ Elems(h) = {f \in Elems(frames) : Heard(f, macs, "ip6", local)}
  BY HandedOnAre
<1>2. Ipv6In(frames, i, macs, local) = b
  BY DEF Ipv6In, Icmpv6InLocal
<1> HIDE DEF h
<1>3. e \in Seq(X) /\ Elems(e) = {f \in Elems(h) : f.icmp = "echo"}
  BY <1>1, EchoesAre
<1> HIDE DEF e
<1>4. Len(b) = Len(e) /\ Len(e) \in Nat /\ \A k \in 1..Len(e) : b[k] = Echo6Reply(e[k], i)
  BY <1>3
<1>5. Elems(b) = {Echo6Reply(f, i) : f \in Elems(e)}
  BY <1>4 DEF Elems
<1>6. b \in Seq(Elems(b))
  BY <1>4 DEF Elems
<1> HIDE DEF b
<1>7. Elems(e) = {g \in Elems(frames) : Heard(g, macs, "ip6", local) /\ g.icmp = "echo"}
  BY <1>1, <1>3
<1> QED
  BY <1>2, <1>5, <1>6, <1>7

(* A frame is handed to the ICMP node of a type exactly if it is a regular *)
(* ICMP packet of the type, sent to this machine, for a local address.     *)
LEMMA HeardIs ==
  ASSUME NEW f, NEW macs, MacsOk(macs), NEW type, NEW local
  PROVE  Heard(f, macs, type, local) <=>
           /\ f.type = type /\ f.dst \in OwnMacs \cup {Broadcast}
           /\ f.regular /\ f.dip \in local /\ f.icmp # "none"
  BY ForMeIs DEF Heard, Selected

(* The address of a Local route is an own one, and the route of an own     *)
(* address stays Local if no host disputes it.                             *)
LEMMA LocalRoutes ==
  ASSUME NEW fib, NEW adj, AdjacenciesOk(adj), RoutesOk(fib, adj)
  PROVE  /\ \A a \in LocalIp4(fib) : \E i \in Iface : a = OwnIp4[i]
         /\ \A i \in Iface : Undisputed(OwnIp4[i]) => OwnIp4[i] \in LocalIp4(fib)
<1>1. ASSUME NEW a \in LocalIp4(fib)
      PROVE  \E i \in Iface : a = OwnIp4[i]
  <2> DEFINE c == Station(fib[a])
  <2>1. c \in Claimants(a) /\ c.local
    BY ZenonT(30) DEF LocalIp4, RoutesOk, Station
  <2> HIDE DEF c
  <2>2. c.netif \in Iface /\ OwnIp4[c.netif] = a
    BY <2>1, LocalClaim
  <2> QED
    BY <2>2
<1>2. ASSUME NEW i \in Iface, Undisputed(OwnIp4[i])
      PROVE  OwnIp4[i] \in LocalIp4(fib)
  <2> DEFINE a == OwnIp4[i]
             c == Station(fib[a])
             own == [mac |-> OwnMac[i], netif |-> i, local |-> TRUE]
  <2>1. a \in DOMAIN fib
    BY DEF AdjacenciesOk, RoutesOk, OwnIps
  <2>2. c \in Claimants(a) /\ own \in Claimants(a)
    BY <2>1, OwnClaim DEF RoutesOk
  <2>3. c = own
    <3> HIDE DEF c, own
    <3> QED
      BY <1>2, <2>2 DEF Undisputed
  <2>4. fib[a].fib_type = "Local"
    BY ZenonT(30), <2>3 DEF Station
  <2> QED
    BY <2>1, <2>4 DEF LocalIp4
<1> QED
  BY <1>1, <1>2
-----------------------------------------------------------------------------
(* One interrupt.                                                          *)

(* What the interrupt of interface i leaves behind, in the terms of the    *)
(* lemmas above.                                                           *)
LEMMA HandleResult ==
  ASSUME Tables, NEW i \in Iface, NEW n \in 1..MaxBatch,
         NEW frames \in [1..n -> Frames[i]], Handle(i, frames)
  PROVE  /\ Tables' /\ Extends(mac_table', mac_table) /\ Extends(adj4', adj4)
         /\ batch' = frames /\ ingress' = i /\ DOMAIN frames = 1..n
         /\ DOMAIN out' = 1..Len(out') /\ Elems(frames) = {frames[j] : j \in 1..n}
         /\ Elems(out') =
              {r \in Elems(out') : r \in ArpAnswers(frames)}
              \cup {Echo4Reply(f, i) : f \in
                      {g \in Elems(frames) : /\ Heard(g, mac_table', "ip4", LocalIp4(fib4'))
                                             /\ g.icmp = "echo"}}
              \cup {Echo6Reply(f, i) : f \in
                      {g \in Elems(frames) : /\ Heard(g, mac_table', "ip6", LocalIp6)
                                             /\ g.icmp = "echo"}}
         /\ panicked' => \E f \in Elems(frames) :
                           Heard(f, mac_table', "ip6", LocalIp6) /\ f.icmp = "na"
<1> DEFINE macs == Learn(mac_table, frames, i)
           start == [fib4 |-> fib4, adj4 |-> adj4, out |-> << >>]
           arp == ArpIn(start, frames, i, macs)
           local == LocalIp4(arp.fib4)
           ip4 == Ipv4In(frames, i, macs, local)
           ip6 == Ipv6In(frames, i, macs, LocalIp6)
           h == HandedOn(frames, macs, "ip6", LocalIp6)
<1>1. /\ mac_table' = macs /\ fib4' = arp.fib4 /\ adj4' = arp.adj4
      /\ out' = arp.out \o ip4 \o ip6 /\ panicked' = OutOfBounds(h)
      /\ batch' = frames /\ ingress' = i
  BY ZenonT(30) DEF Handle
<1>2. /\ n \in Nat /\ frames \in Seq(Frames[i]) /\ Len(frames) = n
      /\ DOMAIN frames = 1..n /\ \A j \in 1..n : frames[j] \in Frames[i]
  BY RouterAssumption
<1>3. MacsOk(macs) /\ Extends(macs, mac_table)
  BY <1>2, LearnKeeps DEF Tables
<1> HIDE DEF macs
<1>4. ArpOk(arp, frames, adj4)
  <2>1. start.adj4 = adj4 /\ start.fib4 = fib4 /\ start.out = << >>
    OBVIOUS
  <2> HIDE DEF start
  <2>2. ArpOk(start, frames, start.adj4)
    BY <2>1 DEF ArpOk, Extends, Tables
  <2>3. ArpOk(arp, frames, start.adj4)
    BY <1>2, <1>3, <2>2, ArpInKeeps
  <2> QED
    BY <2>1, <2>3
<1> HIDE DEF arp
<1>5. /\ ip4 \in Seq(Elems(ip4))
      /\ Elems(ip4) = {Echo4Reply(f, i) : f \in
           {g \in Elems(frames) : Heard(g, macs, "ip4", local) /\ g.icmp = "echo"}}
  <2> HIDE DEF local
  <2> QED
    BY <1>2, Ipv4Answers
<1>6. /\ ip6 \in Seq(Elems(ip6))
      /\ Elems(ip6) = {Echo6Reply(f, i) : f \in
           {g \in Elems(frames) : Heard(g, macs, "ip6", LocalIp6) /\ g.icmp = "echo"}}
  BY <1>2, Ipv6Answers
<1>7. h \in Seq(Frames[i]) /\ Elems(h) = {f \in Elems(frames) : Heard(f, macs, "ip6", LocalIp6)}
  BY <1>2, HandedOnAre
<1>8. panicked' => \E f \in Elems(frames) : Heard(f, macs, "ip6", LocalIp6) /\ f.icmp = "na"
  <2> SUFFICES ASSUME panicked'
               PROVE  \E f \in Elems(frames) : Heard(f, macs, "ip6", LocalIp6) /\ f.icmp = "na"
    OBVIOUS
  <2> HIDE DEF h
  <2>1. PICK k \in DOMAIN h : h[k].icmp = "na"
    BY ZenonT(30), <1>1 DEF OutOfBounds
  <2>2. h[k] \in Elems(h)
    BY <1>7 DEF Elems
  <2> QED
    BY <1>7, <2>1, <2>2
<1>9. /\ DOMAIN out' = 1..Len(out')
      /\ Elems(out') = {r \in Elems(out') : r \in ArpAnswers(frames)} \cup Elems(ip4) \cup Elems(ip6)
  <2> DEFINE a == arp.out
             A == ArpAnswers(frames)
             B == Elems(ip4)
             C == Elems(ip6)
             Y == A \cup B \cup C
  <2>1. a \in Seq(A)
    BY <1>4 DEF ArpOk
  <2>2. ip4 \in Seq(B) /\ ip6 \in Seq(C)
    BY <1>5, <1>6
  <2>3. out' = a \o ip4 \o ip6
    BY <1>1
  <2>4. Elems(a) \subseteq A
    BY <2>1 DEF Elems
  <2> HIDE DEF a, ip4, ip6, A
  <2>5. a \in Seq(Y) /\ ip4 \in Seq(Y) /\ ip6 \in Seq(Y)
    <3> HIDE DEF B, C
    <3> QED
      BY <2>1, <2>2
  <2> HIDE DEF Y
  <2>6. a \o ip4 \in Seq(Y) /\ Elems(a \o ip4) = Elems(a) \cup Elems(ip4)
    BY <2>5, ElemsConcat
  <2>7. out' \in Seq(Y) /\ Elems(out') = Elems(a \o ip4) \cup Elems(ip6)
    <3> DEFINE ab == a \o ip4
    <3>1. ab \in Seq(Y) /\ out' = ab \o ip6
      BY <2>3, <2>6
    <3> HIDE DEF ab
    <3>2. ab \o ip6 \in Seq(Y) /\ Elems(ab \o ip6) = Elems(ab) \cup Elems(ip6)
      BY <2>5, <3>1, ElemsConcat
    <3> QED
      BY <3>1, <3>2 DEF ab
  <2>8. Elems(out') = Elems(a) \cup B \cup C
    BY <2>6, <2>7
  <2>9. Elems(out') = {r \in Elems(out') : r \in A} \cup B \cup C
    <3> HIDE DEF B, C
    <3> QED
      BY <2>4, <2>8
  <2> QED
    BY <2>7, <2>9 DEF A
<1>10. Tables' /\ Extends(adj4', adj4)
  <2>1. MacsOk(mac_table') /\ AdjacenciesOk(adj4') /\ RoutesOk(fib4', adj4')
    BY <1>1, <1>3, <1>4 DEF ArpOk
  <2>2. Tables' <=> MacsOk(mac_table') /\ AdjacenciesOk(adj4') /\ RoutesOk(fib4', adj4')
    BY ZenonT(30) DEF Tables, MacsOk, AdjacenciesOk, RoutesOk, OwnMacs, OwnIps,
       Station, Claimants
  <2> QED
    BY <1>1, <1>4, <2>1, <2>2 DEF ArpOk
<1>11. Elems(frames) = {frames[j] : j \in 1..n}
  BY <1>2 DEF Elems
<1>12. Elems(ip4) = {Echo4Reply(f, i) : f \in
           {g \in Elems(frames) : Heard(g, mac_table', "ip4", LocalIp4(fib4')) /\ g.icmp = "echo"}}
  BY ZenonT(30), <1>1, <1>5
<1> HIDE DEF h, ip4, ip6
<1> QED
  BY ZenonT(30), <1>1, <1>2, <1>3, <1>6, <1>8, <1>9, <1>10, <1>11, <1>12

(* An interrupt keeps every part of the invariant.                         *)
LEMMA HandleInv ==
  ASSUME Tables, NEW i \in Iface, NEW n \in 1..MaxBatch,
         NEW frames \in [1..n -> Frames[i]], Handle(i, frames)
  PROVE  RouterInv'
<1> DEFINE macs == mac_table'
           local == LocalIp4(fib4')
           A == {r \in Elems(out') : r \in ArpAnswers(frames)}
           B == {Echo4Reply(f, i) : f \in
                  {g \in Elems(frames) : Heard(g, macs, "ip4", local) /\ g.icmp = "echo"}}
           C == {Echo6Reply(f, i) : f \in
                  {g \in Elems(frames) : Heard(g, macs, "ip6", LocalIp6) /\ g.icmp = "echo"}}
           own == OwnMacs \cup {Broadcast}
           Heard4(f) == /\ f.type = "ip4" /\ f.dst \in own /\ f.regular
                        /\ f.dip \in local /\ f.icmp = "echo"
           Heard6(f) == /\ f.type = "ip6" /\ f.dst \in own /\ f.regular
                        /\ f.dip \in LocalIp6 /\ f.icmp = "echo"
<1>1. /\ Tables' /\ batch' = frames /\ ingress' = i /\ DOMAIN frames = 1..n
      /\ DOMAIN out' = 1..Len(out') /\ Elems(frames) = {frames[j] : j \in 1..n}
      /\ Elems(out') = A \cup B \cup C
      /\ panicked' => \E f \in Elems(frames) :
                        Heard(f, macs, "ip6", LocalIp6) /\ f.icmp = "na"
  BY ZenonT(30), HandleResult
<1>2. MacsOk(macs) /\ AdjacenciesOk(adj4') /\ RoutesOk(fib4', adj4')
  BY ZenonT(30), <1>1 DEF Tables, MacsOk, AdjacenciesOk, RoutesOk, OwnMacs, OwnIps,
     Station, Claimants
<1>3. /\ \A a \in local : \E j \in Iface : a = OwnIp4[j]
      /\ \A j \in Iface : Undisputed(OwnIp4[j]) => OwnIp4[j] \in local
  BY ZenonT(30), <1>2, LocalRoutes
<1> HIDE DEF local, macs
<1>4. \A f : /\ Heard(f, macs, "ip4", local) /\ f.icmp = "echo" <=> Heard4(f)
             /\ Heard(f, macs, "ip6", LocalIp6) /\ f.icmp = "echo" <=> Heard6(f)
             /\ Heard(f, macs, "ip6", LocalIp6) =>
                  f.type = "ip6" /\ f.dst \in own /\ f.regular /\ f.dip \in LocalIp6
  BY ZenonT(30), <1>2, HeardIs
<1>5. /\ B = {Echo4Reply(frames[j], i) : j \in {l \in 1..n : Heard4(frames[l])}}
      /\ C = {Echo6Reply(frames[j], i) : j \in {l \in 1..n : Heard6(frames[l])}}
  <2>1. B = {Echo4Reply(frames[j], i) : j \in {l \in 1..n : Heard4(frames[l])}}
    BY <1>1, <1>4
  <2>2. C = {Echo6Reply(frames[j], i) : j \in {l \in 1..n : Heard6(frames[l])}}
    BY <1>1, <1>4
  <2> QED
    BY ZenonT(30), <2>1, <2>2
<1>6. /\ \A r \in A : r.kind = "arp"
      /\ \A f : /\ Echo4Reply(f, i).kind = "echo4" /\ Echo4Reply(f, i).netif = i
                /\ Echo4Reply(f, i).to = f.src /\ Echo4Reply(f, i).from = f.dip
      /\ \A f : /\ Echo6Reply(f, i).kind = "echo6" /\ Echo6Reply(f, i).netif = i
                /\ Echo6Reply(f, i).to = f.src
  <2>1. \A r \in A : r.kind = "arp"
    BY DEF ArpAnswers
  <2>2. \A f : /\ Echo4Reply(f, i).kind = "echo4" /\ Echo4Reply(f, i).netif = i
               /\ Echo4Reply(f, i).to = f.src /\ Echo4Reply(f, i).from = f.dip
    BY DEF Echo4Reply, Reply
  <2>3. \A f : /\ Echo6Reply(f, i).kind = "echo6" /\ Echo6Reply(f, i).netif = i
               /\ Echo6Reply(f, i).to = f.src
    BY DEF Echo6Reply, Reply
  <2> QED
    BY ZenonT(30), <2>1, <2>2, <2>3
<1>7. Elems(out') = {out'[k] : k \in DOMAIN out'}
  BY <1>1 DEF Elems
<1> DEFINE o == out'
           D == DOMAIN o
<1>8. /\ \A k \in D : o[k].kind = "arp" => o[k] \in ArpAnswers(frames)
      /\ \A k \in D : o[k].kind = "echo4" =>
           \E j \in 1..n : Heard4(frames[j]) /\ o[k] = Echo4Reply(frames[j], i)
      /\ \A k \in D : o[k].kind = "echo6" =>
           \E j \in 1..n : Heard6(frames[j]) /\ o[k] = Echo6Reply(frames[j], i)
      /\ \A j \in 1..n : Heard4(frames[j]) => \E k \in D : o[k] = Echo4Reply(frames[j], i)
      /\ \A j \in 1..n : Heard6(frames[j]) => \E k \in D : o[k] = Echo6Reply(frames[j], i)
  <2>1. \A k \in D : o[k] \in A \cup B \cup C
    BY <1>1, <1>7
  <2>2. \A r \in A \cup B \cup C : \E k \in D : o[k] = r
    BY ZenonT(30), <1>1, <1>7
  <2>3. \A r \in A : r \in ArpAnswers(frames)
    OBVIOUS
  <2> HIDE DEF A, B, C, D, o, Heard4, Heard6
  <2>4. \A r \in B : r.kind = "echo4" /\ \E j \in 1..n : Heard4(frames[j]) /\ r = Echo4Reply(frames[j], i)
    BY ZenonT(30), <1>5, <1>6
  <2>5. \A r \in C : r.kind = "echo6" /\ \E j \in 1..n : Heard6(frames[j]) /\ r = Echo6Reply(frames[j], i)
    BY ZenonT(30), <1>5, <1>6
  <2>6. ASSUME NEW k \in D, o[k].kind = "arp" PROVE o[k] \in ArpAnswers(frames)
    BY <2>1, <2>3, <2>4, <2>5, <2>6
  <2>7. ASSUME NEW k \in D, o[k].kind = "echo4"
        PROVE  \E j \in 1..n : Heard4(frames[j]) /\ o[k] = Echo4Reply(frames[j], i)
    BY ZenonT(30), <1>6, <2>1, <2>4, <2>5, <2>7
  <2>8. ASSUME NEW k \in D, o[k].kind = "echo6"
        PROVE  \E j \in 1..n : Heard6(frames[j]) /\ o[k] = Echo6Reply(frames[j], i)
    BY ZenonT(30), <1>6, <2>1, <2>4, <2>5, <2>8
  <2>9. \A j \in 1..n : Heard4(frames[j]) => Echo4Reply(frames[j], i) \in B
    BY <1>5
  <2>10. \A j \in 1..n : Heard6(frames[j]) => Echo6Reply(frames[j], i) \in C
    BY <1>5
  <2> QED
    BY <2>2, <2>6, <2>7, <2>8, <2>9, <2>10
<1> HIDE DEF A, B, C
<1>9. ArpReplyTrue'
  <2>1. ASSUME NEW k \in D, o[k].kind = "arp"
        PROVE  /\ o[k].from = OwnIp4[o[k].netif]
               /\ \E j \in 1..n :
                    /\ frames[j].type = "arp" /\ frames[j].src = o[k].to
                    /\ frames[j].tpa = o[k].from /\ frames[j].dst \in own
    <3>1. o[k] \in ArpAnswers(frames)
      BY <1>8, <2>1
    <3>2. Len(frames) = n
      BY RouterAssumption
    <3> HIDE DEF o, D
    <3> QED
      BY <3>1, <3>2 DEF ArpAnswers
  <2> QED
    BY <1>1, <2>1 DEF ArpReplyTrue, OwnMacs
<1>10. PanicsOnlyOnAdvertisement'
  <2>1. panicked' => \E j \in 1..n :
          /\ frames[j].type = "ip6" /\ frames[j].icmp = "na" /\ frames[j].regular
          /\ frames[j].dst \in own /\ frames[j].dip \in LocalIp6
    BY <1>1, <1>4
  <2> QED
    BY <1>1, <2>1 DEF PanicsOnlyOnAdvertisement, OwnMacs
<1>11. EchoAnswered'
  <2> DEFINE Q4 == {j \in 1..n :
                      /\ frames[j].type = "ip4" /\ frames[j].regular /\ frames[j].icmp = "echo"
                      /\ frames[j].dst \in own
                      /\ \E l \in Iface : frames[j].dip = OwnIp4[l] /\ Undisputed(OwnIp4[l])}
             Q6 == {j \in 1..n :
                      /\ frames[j].type = "ip6" /\ frames[j].regular /\ frames[j].icmp = "echo"
                      /\ frames[j].dst \in own /\ frames[j].dip \in LocalIp6}
             R4 == {k \in D : /\ o[k].kind = "echo4"
                              /\ \A l \in Iface : o[k].from = OwnIp4[l] => Undisputed(OwnIp4[l])}
             R6 == {k \in D : o[k].kind = "echo6"}
  <2>1. /\ EchoRequests("ip4")' = Q4 /\ EchoRequests("ip6")' = Q6
        /\ EchoReplies("echo4")' = R4 /\ EchoReplies("echo6")' = R6
    BY ZenonT(30), <1>1 DEF EchoRequests, EchoReplies, OwnMacs, Undisputed, Claimants
  <2> HIDE DEF o, D, own
  <2>2. \A j \in Q4 : \E k \in R4 : o[k].to = frames[j].src /\ o[k].from = frames[j].dip
    <3> SUFFICES ASSUME NEW j \in Q4
                 PROVE  \E k \in R4 : o[k].to = frames[j].src /\ o[k].from = frames[j].dip
      OBVIOUS
    <3>1. PICK l \in Iface : frames[j].dip = OwnIp4[l] /\ Undisputed(OwnIp4[l])
      OBVIOUS
    <3>2. Heard4(frames[j])
      BY <1>3, <3>1
    <3>3. PICK k \in D : o[k] = Echo4Reply(frames[j], i)
      BY ZenonT(30), <1>8, <3>2
    <3>4. o[k].kind = "echo4" /\ o[k].to = frames[j].src /\ o[k].from = frames[j].dip
      BY <1>6, <3>3
    <3>5. k \in R4
      BY <3>1, <3>4
    <3> QED
      BY ZenonT(30), <3>4, <3>5
  <2>3. \A k \in R4 : /\ o[k].netif = i
                      /\ \E j \in Q4 : o[k].to = frames[j].src /\ o[k].from = frames[j].dip
    <3> SUFFICES ASSUME NEW k \in R4
                 PROVE  /\ o[k].netif = i
                        /\ \E j \in Q4 : o[k].to = frames[j].src /\ o[k].from = frames[j].dip
      OBVIOUS
    <3>1. PICK j \in 1..n : Heard4(frames[j]) /\ o[k] = Echo4Reply(frames[j], i)
      BY ZenonT(30), <1>8
    <3>2. o[k].to = frames[j].src /\ o[k].from = frames[j].dip /\ o[k].netif = i
      BY ZenonT(30), <1>6, <3>1
    <3>3. PICK l \in Iface : frames[j].dip = OwnIp4[l]
      BY ZenonT(30), <1>3, <3>1
    <3>4. Undisputed(OwnIp4[l])
      BY <3>2, <3>3
    <3>5. j \in Q4
      BY <3>1, <3>3, <3>4
    <3> QED
      BY <3>2, <3>5
  <2>4. \A j \in Q6 : \E k \in R6 : o[k].to = frames[j].src
    <3> SUFFICES ASSUME NEW j \in Q6 PROVE \E k \in R6 : o[k].to = frames[j].src
      OBVIOUS
    <3>1. PICK k \in D : o[k] = Echo6Reply(frames[j], i)
      BY ZenonT(30), <1>8
    <3>2. o[k].kind = "echo6" /\ o[k].to = frames[j].src
      BY ZenonT(30), <1>6, <3>1
    <3> QED
      BY <3>2
  <2>5. \A k \in R6 : o[k].netif = i /\ \E j \in Q6 : o[k].to = frames[j].src
    <3> SUFFICES ASSUME NEW k \in R6
                 PROVE  o[k].netif = i /\ \E j \in Q6 : o[k].to = frames[j].src
      OBVIOUS
    <3>1. PICK j \in 1..n : Heard6(frames[j]) /\ o[k] = Echo6Reply(frames[j], i)
      BY ZenonT(30), <1>8
    <3>2. o[k].to = frames[j].src /\ o[k].netif = i
      BY ZenonT(30), <1>6, <3>1
    <3>3. j \in Q6
      BY <3>1
    <3> QED
      BY <3>2, <3>3
  <2> HIDE DEF Q4, Q6, R4, R6
  <2>6. {<<frames[j].src, frames[j].dip>> : j \in Q4} = {<<o[k].to, o[k].from>> : k \in R4}
    <3>1. \A x \in {<<frames[j].src, frames[j].dip>> : j \in Q4} :
            x \in {<<o[k].to, o[k].from>> : k \in R4}
      BY <2>2
    <3>2. \A x \in {<<o[k].to, o[k].from>> : k \in R4} :
            x \in {<<frames[j].src, frames[j].dip>> : j \in Q4}
      BY <2>3
    <3> QED
      BY <3>1, <3>2
  <2>7. {frames[j].src : j \in Q6} = {o[k].to : k \in R6}
    BY <2>4, <2>5
  <2>8. \A k \in R4 \cup R6 : o[k].netif = i
    BY <2>3, <2>5
  <2> QED
    BY ZenonT(30), <1>1, <2>1, <2>6, <2>7, <2>8 DEF EchoAnswered, o
<1> QED
  BY ZenonT(30), <1>1, <1>9, <1>10, <1>11 DEF RouterInv

(* The handler's return drops the frames and changes no table.             *)
LEMMA ReturnInv ==
  ASSUME RouterInv, HandlerReturn
  PROVE  RouterInv'
<1>1. /\ mac_table' = mac_table /\ adj4' = adj4 /\ fib4' = fib4
      /\ batch' = << >> /\ out' = << >> /\ panicked' = FALSE
  BY DEF HandlerReturn
<1>2. Tables'
  BY ZenonT(30), <1>1 DEF RouterInv, Tables, MacsOk, AdjacenciesOk, RoutesOk, OwnMacs,
     OwnIps,
              Station, Claimants
<1>3. ArpReplyTrue' /\ PanicsOnlyOnAdvertisement'
  BY <1>1 DEF ArpReplyTrue, PanicsOnlyOnAdvertisement
<1>4. /\ EchoRequests("ip4")' = {} /\ EchoRequests("ip6")' = {}
      /\ EchoReplies("echo4")' = {} /\ EchoReplies("echo6")' = {}
  BY <1>1 DEF EchoRequests, EchoReplies
<1>5. EchoAnswered'
  BY <1>4 DEF EchoAnswered
<1> QED
  BY <1>2, <1>3, <1>5 DEF RouterInv

(* The router starts with its tables set up and nothing received.          *)
LEMMA InitInv ==
  ASSUME Init
  PROVE  RouterInv
<1>1. Tables
  BY BootTables DEF Init, Tables
<1>2. ArpReplyTrue /\ PanicsOnlyOnAdvertisement
  BY DEF Init, ArpReplyTrue, PanicsOnlyOnAdvertisement
<1>3. /\ EchoRequests("ip4") = {} /\ EchoRequests("ip6") = {}
      /\ EchoReplies("echo4") = {} /\ EchoReplies("echo6") = {}
  BY DEF Init, EchoRequests, EchoReplies
<1>4. EchoAnswered
  BY <1>3 DEF EchoAnswered
<1> QED
  BY <1>1, <1>2, <1>4 DEF RouterInv
-----------------------------------------------------------------------------
(* The theorems.                                                           *)

(* The inductive invariant of the packet path: the tables hold every own   *)
(* address and only what a station claims, and the answers to the batch at *)
(* hand are the right ones.                                                *)
THEOREM RouterInvariant == Spec => []RouterInv
<1>1. Init => RouterInv
  BY InitInv
<1>2. RouterInv /\ [Next]_vars => RouterInv'
  <2> SUFFICES ASSUME RouterInv, [Next]_vars PROVE RouterInv'
    OBVIOUS
  <2>1. ASSUME NEW i \in Iface, NEW n \in 1..MaxBatch,
               NEW frames \in [1..n -> Frames[i]], Handle(i, frames)
        PROVE  RouterInv'
    BY <2>1, HandleInv DEF RouterInv
  <2>2. CASE HandlerReturn
    BY <2>2, ReturnInv
  <2>3. CASE UNCHANGED vars
    <3>1. /\ mac_table' = mac_table /\ adj4' = adj4 /\ fib4' = fib4 /\ batch' = batch
          /\ ingress' = ingress /\ out' = out /\ panicked' = panicked
      BY <2>3 DEF vars
    <3>2. Tables'
      BY ZenonT(30), <3>1 DEF RouterInv, Tables, MacsOk, AdjacenciesOk, RoutesOk,
         OwnMacs, OwnIps,
                  Station, Claimants
    <3>3. ArpReplyTrue'
      BY ZenonT(30), <3>1 DEF RouterInv, ArpReplyTrue, OwnMacs
    <3>4. PanicsOnlyOnAdvertisement'
      BY <3>1 DEF RouterInv, PanicsOnlyOnAdvertisement, OwnMacs
    <3>5. EchoAnswered'
      <4>1. /\ EchoRequests("ip4")' = EchoRequests("ip4")
            /\ EchoRequests("ip6")' = EchoRequests("ip6")
            /\ EchoReplies("echo4")' = EchoReplies("echo4")
            /\ EchoReplies("echo6")' = EchoReplies("echo6")
        BY ZenonT(30), <3>1 DEF EchoRequests, EchoReplies, Undisputed, Claimants, OwnMacs
      <4>2. CASE panicked'
        BY <4>2 DEF EchoAnswered
      <4>3. CASE ~ panicked'
        <5> DEFINE Q4 == EchoRequests("ip4")
                   Q6 == EchoRequests("ip6")
                   R4 == EchoReplies("echo4")
                   R6 == EchoReplies("echo6")
        <5>1. /\ {<<batch[j].src, batch[j].dip>> : j \in Q4} = {<<out[k].to, out[k].from>> : k \in R4}
              /\ {batch[j].src : j \in Q6} = {out[k].to : k \in R6}
              /\ \A k \in R4 \cup R6 : out[k].netif = ingress
          BY <3>1, <4>3 DEF RouterInv, EchoAnswered
        <5>2. Q4' = Q4 /\ Q6' = Q6 /\ R4' = R4 /\ R6' = R6
          BY <4>1
        <5>3. /\ {<<batch'[j].src, batch'[j].dip>> : j \in Q4'}
                   = {<<out'[k].to, out'[k].from>> : k \in R4'}
              /\ {batch'[j].src : j \in Q6'} = {out'[k].to : k \in R6'}
              /\ \A k \in R4' \cup R6' : out'[k].netif = ingress'
          <6> HIDE DEF Q4, Q6, R4, R6
          <6> QED
            BY ZenonT(30), <3>1, <5>1, <5>2
        <5> QED
          BY ZenonT(30), <5>3 DEF EchoAnswered
      <4> QED
        BY <4>2, <4>3
    <3> QED
      BY <3>2, <3>3, <3>4, <3>5 DEF RouterInv
  <2> QED
    BY <2>1, <2>2, <2>3 DEF Next
<1> QED
  BY <1>1, <1>2, PTL DEF Spec

(* Whatever source addresses ethernet-in and arp-in learn, exactly the own *)
(* and joined addresses count as local.                                    *)
THEOREM LocalAddressesAreOwn == Spec => []LocalIsOwn
<1>1. RouterInv => LocalIsOwn
  <2> SUFFICES ASSUME RouterInv PROVE LocalIsOwn
    OBVIOUS
  <2>1. \A m \in DOMAIN mac_table : mac_table[m].local <=> m \in OwnMacs
    BY DEF RouterInv, Tables, MacsOk
  <2>2. ASSUME NEW a \in DOMAIN adj4
        PROVE  adj4[a].local <=> \E i \in Iface : a = OwnIp4[i]
    <3> DEFINE c == adj4[a]
    <3>1. c \in Claimants(a) /\ (a \in OwnIps => c.local)
      BY <2>2 DEF RouterInv, Tables, AdjacenciesOk
    <3> HIDE DEF c
    <3>2. c.local => c.netif \in Iface /\ OwnIp4[c.netif] = a
      BY <3>1, LocalClaim
    <3> QED
      BY <3>1, <3>2 DEF OwnIps, c
  <2> QED
    BY <2>1, <2>2 DEF LocalIsOwn
<1> QED
  BY <1>1, RouterInvariant, PTL

(* The FIB, where the newest entry stays, and the adjacency table, where   *)
(* the oldest does, agree on every address that one station has for itself.*)
THEOREM TablesAgree == Spec => []FibAgreesWithAdjacency
<1>1. RouterInv => FibAgreesWithAdjacency
  <2> SUFFICES ASSUME RouterInv PROVE FibAgreesWithAdjacency
    OBVIOUS
  <2>1. DOMAIN fib4 = DOMAIN adj4
    BY DEF RouterInv, Tables, RoutesOk
  <2>2. ASSUME NEW a \in DOMAIN fib4, Undisputed(a)
        PROVE  /\ fib4[a].mac = adj4[a].mac /\ fib4[a].netif = adj4[a].netif
               /\ fib4[a].fib_type = "Local" <=> adj4[a].local
    <3>1. Station(fib4[a]) \in Claimants(a) /\ adj4[a] \in Claimants(a)
      BY <2>1, <2>2 DEF RouterInv, Tables, RoutesOk, AdjacenciesOk
    <3>2. adj4[a] = Station(fib4[a])
      BY <2>2, <3>1 DEF Undisputed
    <3>3. /\ adj4[a].mac = fib4[a].mac /\ adj4[a].netif = fib4[a].netif
          /\ adj4[a].local = (fib4[a].fib_type = "Local")
      BY <3>2 DEF Station
    <3> QED
      BY ZenonT(30), <3>3
  <2> QED
    BY <2>1, <2>2 DEF FibAgreesWithAdjacency
<1> QED
  BY <1>1, RouterInvariant, PTL

(* arp-in answers only in the name of an interface that has the address,   *)
(* and only who asked for it in a frame addressed to this machine.         *)
THEOREM ArpRepliesTrue == Spec => []ArpReplyTrue
<1>1. RouterInv => ArpReplyTrue
  BY DEF RouterInv
<1> QED
  BY <1>1, RouterInvariant, PTL

(* The hosts that get an echo reply are those that sent an echo request    *)
(* for an own address, whatever else their batch holds.                    *)
THEOREM EchoesAnswered == Spec => []EchoAnswered
<1>1. RouterInv => EchoAnswered
  BY DEF RouterInv
<1> QED
  BY <1>1, RouterInvariant, PTL

(* Only a neighbour advertisement for this machine reaches the index out   *)
(* of bounds in register_ipv6_fib.                                         *)
THEOREM AdvertisementsPanic == Spec => []PanicsOnlyOnAdvertisement
<1>1. RouterInv => PanicsOnlyOnAdvertisement
  BY DEF RouterInv
<1> QED
  BY <1>1, RouterInvariant, PTL

(* No batch changes or removes an entry of the MAC or the adjacency table. *)
THEOREM EntriesStay == Spec => EntriesPermanent
<1> DEFINE Keeps == /\ \A m \in DOMAIN mac_table :
                         m \in DOMAIN mac_table' /\ mac_table'[m] = mac_table[m]
                    /\ \A a \in DOMAIN adj4 : a \in DOMAIN adj4' /\ adj4'[a] = adj4[a]
<1>1. RouterInv /\ [Next]_vars => [Keeps]_vars
  <2> SUFFICES ASSUME RouterInv, Next PROVE Keeps
    OBVIOUS
  <2>1. ASSUME NEW i \in Iface, NEW n \in 1..MaxBatch,
               NEW frames \in [1..n -> Frames[i]], Handle(i, frames)
        PROVE  Keeps
    <3>1. Extends(mac_table', mac_table) /\ Extends(adj4', adj4)
      BY ZenonT(30), <2>1, HandleResult DEF RouterInv
    <3> QED
      BY <3>1 DEF Extends
  <2>2. CASE HandlerReturn
    BY <2>2 DEF HandlerReturn
  <2> QED
    BY <2>1, <2>2 DEF Next
<1> QED
  BY <1>1, RouterInvariant, PTL DEF Spec, EntriesPermanent
=============================================================================
