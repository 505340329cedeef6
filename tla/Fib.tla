--------------------------------- MODULE Fib ---------------------------------
(***************************************************************************)
(* The forwarding information bases: IPV4_FIB_INDEX and IPV6_FIB_INDEX,    *)
(* one map per prefix length, and the longest-match look-up over each,     *)
(* find_ipv4_fib and find_ipv6_fib.                                        *)
(*                                                                         *)
(* Addresses are Width bits wide, 32 and 128 in the program.  Only routes  *)
(* whose address is masked to their prefix are registered, as start_rust   *)
(* does.  A route is known by its prefix length and its address.           *)
(***************************************************************************)
EXTENDS Integers, FiniteSetsExt

CONSTANTS
  Width,      \* bits of an address
  MinV4,      \* shortest prefix an IPv4 route may have
  MinV6,      \* shortest prefix an IPv6 route may have
  MaxRoutes,  \* bound: routes registered, in both tables together
  None        \* the result of a look-up that finds nothing

ASSUME FibAssumption ==
  /\ Width \in Nat \ {0}
  /\ MinV4 \in 0..Width /\ MinV6 \in 0..Width
  /\ MaxRoutes \in Nat

VARIABLES
  v4,  \* IPV4_FIB_INDEX: v4[p] is the set of the keys of the map for prefix p
  v6   \* IPV6_FIB_INDEX

vars == <<v4, v6>>

(* The power of two, for the shifts.                                       *)
Pow2[n \in 0..Width] == IF n = 0 THEN 1 ELSE 2 * Pow2[n - 1]

Address == 0..(Pow2[Width] - 1)

(* The address with the host bits of a prefix of length p cleared.         *)
Network(a, p) == a - (a % Pow2[Width - p])

(* Mutant: the mask is one bit too short.                                  *)
masked_Short(a, p) == Network(a, IF p = 0 THEN 0 ELSE p - 1)

(* masked: the shift amount 32 - p is taken modulo 32 in a release build,  *)
(* so a prefix of length 0 keeps the whole address.                        *)
masked(a, p) == IF p = 0 THEN a ELSE Network(a, p)

(* The netmask of prefix length p, and ipv4_mask_to_prefixlen, which gives *)
(* 0 for what is no netmask.                                               *)
Netmask(p) == Pow2[Width] - Pow2[Width - p]

ipv4_mask_to_prefixlen(mask) ==
  IF \E p \in 0..Width : mask = Netmask(p)
  THEN CHOOSE p \in 0..Width : mask = Netmask(p)
  ELSE 0

register_ipv4_fib(a, mask) ==
  /\ v4' = [v4 EXCEPT ![ipv4_mask_to_prefixlen(mask)] = @ \cup {a}]
  /\ UNCHANGED v6

register_ipv6_fib(a, prefix) ==
  /\ v6' = [v6 EXCEPT ![prefix] = @ \cup {a}]
  /\ UNCHANGED v4

(* The loop of find_ipv4_fib, from the prefix of the mask downwards.       *)
find_ipv4_fib(a, mask) ==
  LET try[p \in 0..Width] ==
        IF masked(a, p) \in v4[p] THEN <<p, masked(a, p)>>
        ELSE IF p = 0 THEN None ELSE try[p - 1]
  IN  try[ipv4_mask_to_prefixlen(mask)]

(* Mutant: the loop starts below the prefix it is given.                   *)
find_ipv6_fib_Below(a, prefix) ==
  LET try[p \in 0..Width] ==
        IF p < prefix /\ masked(a, prefix) \in v6[p] THEN <<p, masked(a, prefix)>>
        ELSE IF p = 0 THEN None ELSE try[p - 1]
  IN  try[prefix]

(* The loop of find_ipv6_fib masks with the prefix it was called with in   *)
(* every round.                                                            *)
find_ipv6_fib(a, prefix) ==
  LET try[p \in 0..Width] ==
        IF masked(a, prefix) \in v6[p] THEN <<p, masked(a, prefix)>>
        ELSE IF p = 0 THEN None ELSE try[p - 1]
  IN  try[prefix]

-----------------------------------------------------------------------------
(* The tables are built with an empty map for every prefix length.         *)
IPV4_FIB_INDEX == [p \in 0..Width |-> {}]

IPV6_FIB_INDEX == [p \in 0..Width |-> {}]

Init == v4 = IPV4_FIB_INDEX /\ v6 = IPV6_FIB_INDEX

Routes ==
  MapThenSumSet(LAMBDA p : Cardinality(v4[p]) + Cardinality(v6[p]), 0..Width)

RegisterV4 ==
  \E p \in MinV4..Width, a \in Address :
    register_ipv4_fib(Network(a, p), Netmask(p))

RegisterV6 ==
  \E p \in MinV6..Width, a \in Address : register_ipv6_fib(Network(a, p), p)

Next == Routes < MaxRoutes /\ (RegisterV4 \/ RegisterV6)

Spec == Init /\ [][Next]_vars

-----------------------------------------------------------------------------
(* The reference: of the routes that hold the address and are no longer    *)
(* than q, the one with the longest prefix.                                *)
LongestMatch(table, a, q) ==
  LET matching == {p \in 0..q : Network(a, p) \in table[p]}
  IN  IF matching = {} THEN None
      ELSE <<Max(matching), Network(a, Max(matching))>>

(* "longest match": find_ipv4_fib finds the longest route for every        *)
(* address, whatever routes are registered.                                *)
LongestMatchV4 ==
  \A a \in Address, q \in 0..Width :
    find_ipv4_fib(a, Netmask(q)) = LongestMatch(v4, a, q)

(* "longest match": find_ipv6_fib finds the longest route, called with the *)
(* full length as ipv6-in does.                                            *)
LongestMatchV6 ==
  \A a \in Address : find_ipv6_fib(a, Width) = LongestMatch(v6, a, Width)
=============================================================================
