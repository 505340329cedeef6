------------------------------ MODULE MCRouter ------------------------------
(***************************************************************************)
(* Instances of Router for TLC: the two interfaces of start_rust, and      *)
(* three hosts on their networks.                                          *)
(***************************************************************************)
EXTENDS Router, TLC

MCIfaces == <<"if0", "if1">>
MCOwnMac == ("if0" :> "m0") @@ ("if1" :> "m1")
MCOwnIp4 == ("if0" :> "192.168.0.10") @@ ("if1" :> "192.168.10.10")
MCSnMac == ("if0" :> "sn0") @@ ("if1" :> "sn1")
MCLocalIp6 == {"lla0", "lla1", "sngroup0", "sngroup1", "allnodes"}

Arp(src, dst, oper, spa, tpa) ==
  [type |-> "arp", src |-> src, dst |-> dst, oper |-> oper, spa |-> spa, tpa |-> tpa]

Ip(type, src, dst, dip, icmp, regular) ==
  [type |-> type, src |-> src, dst |-> dst, dip |-> dip, icmp |-> icmp,
   regular |-> regular]

(* Well-behaved hosts: h1 and h2 have 192.168.0.1 and 192.168.0.2 and are  *)
(* on the network of if0, h3 has 192.168.10.3 and is on that of if1.       *)
OnIf0 ==
  {Arp("h1", "bcast", "request", "192.168.0.1", a) :
     a \in {"192.168.0.10", "192.168.10.10", "192.168.0.2"}}
  \cup {Arp("h2", d, "reply", "192.168.0.2", "192.168.0.10") : d \in {"m0", "h1"}}
  \cup {Arp("h2", "h1", "request", "192.168.0.2", "192.168.0.10")}
  \cup {Ip("ip4", "h1", d, "192.168.0.10", "echo", r) : d \in {"m0", "h2"}, r \in BOOLEAN}
  \cup {Ip("ip4", "h2", "m0", a, "echo", TRUE) : a \in {"192.168.10.10", "192.168.0.1"}}
  \cup {Ip("ip4", "h2", "m0", "192.168.0.10", "none", TRUE)}
  \cup {Ip("ip6", "h1", "m0", a, "echo", TRUE) : a \in {"lla0", "remote"}}
  \cup {Ip("ip6", "h2", "all", "allnodes", "echo", TRUE)}

OnIf1 ==
  {Arp("h3", "bcast", "request", "192.168.10.3", "192.168.10.10"),
   Ip("ip4", "h3", "m1", "192.168.10.10", "echo", TRUE),
   Ip("ip6", "h3", "sn1", "sngroup1", "other", TRUE)}

MCFrames == ("if0" :> OnIf0) @@ ("if1" :> OnIf1)

(* And hosts that are not: h2 takes the address of h1, or moves to the     *)
(* other network with its own; h3 is configured with the address of if1;   *)
(* h1 answers a neighbour solicitation.                                    *)
Moved0 ==
  {Arp("h2", d, "request", "192.168.0.1", "192.168.0.10") : d \in {"bcast", "h1"}}
  \cup {Ip("ip6", "h1", "m0", "lla0", "na", TRUE)}

Moved1 ==
  {Arp("h2", "bcast", "request", "192.168.0.2", "192.168.0.10"),
   Arp("h3", "bcast", "reply", "192.168.10.10", "192.168.10.10")}

MCMovedFrames == ("if0" :> OnIf0 \cup Moved0) @@ ("if1" :> OnIf1 \cup Moved1)
=============================================================================
