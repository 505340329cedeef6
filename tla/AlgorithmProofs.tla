--------------------------- MODULE AlgorithmProofs ---------------------------
(***************************************************************************)
(* The room of buffers and the layout of queues, for every size and every  *)
(* alignment, the look-ups of the FIBs, for every width of addresses, the  *)
(* echo replies, for messages of every length and contents, and the        *)
(* command line, for lines of every length.                                *)
(***************************************************************************)
EXTENDS Allocation, Fib, EchoReply, CmdLine, Preliminaries

(* pre_xmit's buffer holds the frame and its header, whatever its size.    *)
THEOREM FramesFit == FrameFits
<1> SUFFICES \A size \in BufferSizes :
               /\ size <= slice_len(size)
               /\ slice_len(size) < size + Align
               /\ actual_size(size + HeaderLen) % Align = 0
  BY DEF FrameFits
<1> TAKE size \in BufferSizes
<1> DEFINE r == actual_size(size + HeaderLen)
<1>1. size \in Nat /\ Align \in Nat \ {0} /\ size + HeaderLen \in Nat \ {0}
  BY AllocationAssumption DEF HeaderLen
<1>2. /\ r \in Nat /\ size + HeaderLen <= r /\ r < size + HeaderLen + Align
      /\ r % Align = 0
  BY Zenon, <1>1, RoundUp DEF actual_size
<1>3. slice_len(size) = r - HeaderLen
  BY DEF slice_len
<1> HIDE DEF r
<1>4. HeaderLen \in Nat
  BY DEF HeaderLen
<1> QED
  BY <1>1, <1>2, <1>3, <1>4 DEF r

(* The three areas of a queue are apart and inside their allocation, and   *)
(* aligned as the device requires, for every size of the queue.            *)
THEOREM LayoutSound == AreasApart
<1> SUFFICES \A size \in QueueSizes :
               /\ get_avail_addr(size) + AvailLen(size) <= get_used_addr(size)
               /\ get_used_addr(size) + UsedLen(size) <= alloc_size(size)
               /\ get_avail_addr(size) % 2 = 0
               /\ get_used_addr(size) % 4 = 0
  BY DEF AreasApart
<1> TAKE size \in QueueSizes
<1> DEFINE driver == DescLen(size) + AvailLen(size)
           used   == UsedLen(size)
           d      == ((driver - 1) \div Align + 1) * Align
           u      == ((used - 1) \div Align + 1) * Align
<1>1. /\ size \in Nat /\ Align \in Nat \ {0} /\ Align % 4 = 0
      /\ driver \in Nat \ {0} /\ used \in Nat \ {0}
  BY AllocationAssumption DEF DescLen, AvailLen, UsedLen
<1>2. get_used_addr(size) = d /\ alloc_size(size) = d + u
  <2>1. get_used_addr(size) = d
    <3>1. DescLen(size) + AvailLen(size) - 1 = driver - 1
      BY <1>1 DEF DescLen, AvailLen
    <3> QED
      BY <3>1, Zenon DEF get_used_addr
  <2>2. alloc_size(size) = get_used_addr(size) + u
    BY DEF alloc_size
  <2> QED
    BY <2>1, <2>2
<1>3. driver = get_avail_addr(size) + AvailLen(size)
  BY DEF get_avail_addr
<1>4. get_avail_addr(size) % 2 = 0
  <2>1. (2 * (8 * size)) % 2 = 0
    BY <1>1
  <2> QED
    BY <1>1, <2>1 DEF get_avail_addr, DescLen
<1> HIDE DEF driver, used
<1>5. d \in Nat /\ driver <= d /\ d % Align = 0
  BY Zenon, <1>1, RoundUp
<1>6. u \in Nat /\ used <= u
  BY Zenon, <1>1, RoundUp
<1> HIDE DEF d, u
<1>7. d % 4 = 0
  <2>1. d \in Int /\ 4 \in Nat \ {0}
    BY <1>5
  <2>2. (d % Align) % 4 = d % 4
    BY <1>1, <2>1, ModOfMod, Zenon
  <2>3. 0 % 4 = 0
    OBVIOUS
  <2> QED
    BY <2>2, <2>3, <1>5
<1>8. used = UsedLen(size)
  BY DEF used
<1> QED
  BY <1>1, <1>2, <1>3, <1>4, <1>5, <1>6, <1>7, <1>8
-----------------------------------------------------------------------------
(* The netmasks.                                                           *)

(* The recursive function that gives the powers of two exists.             *)
LEMMA Pow2Is ==
  Pow2[0] = 1 /\ \A k \in 1..Width : Pow2[k] = 2 * Pow2[k - 1]
<1> DEFINE Double(x) == 2 * x
           Is(t, n) == t = [k \in 0..n |-> IF k = 0 THEN 1 ELSE Double(t[k - 1])]
           S == {n \in 0..Width : \E t : Is(t, n)}
           f == CHOOSE t : Is(t, Width)
<1>0. Width \in Nat
  BY FibAssumption
<1>1. Pow2 = f
  BY DEF Pow2
<1> HIDE DEF f, Double
<1>2. Is([k \in 0..0 |-> 1], 0) /\ 0 \in 0..Width
  BY <1>0
<1>3. ASSUME NEW n \in 1..Width, n - 1 \in S
      PROVE  n \in S
  <2>1. PICK t : Is(t, n - 1)
    BY <1>3
  <2> DEFINE u == [k \in 0..n |-> IF k = n THEN Double(t[n - 1]) ELSE t[k]]
  <2>2. /\ u[n] = Double(t[n - 1]) /\ \A k \in 0..n - 1 : u[k] = t[k]
        /\ u = [k \in 0..n |-> u[k]]
    BY <1>0
  <2> HIDE DEF u
  <2>3. ASSUME NEW k \in 0..n
        PROVE  u[k] = IF k = 0 THEN 1 ELSE Double(u[k - 1])
    <3>1. CASE k = n
      <4>1. n - 1 \in 0..n - 1 /\ k # 0
        BY <1>0, <3>1
      <4> QED
        BY <2>2, <3>1, <4>1
    <3>2. CASE k = 0
      <4>1. 0 \in 0..n - 1
        BY <1>0
      <4> QED
        BY SMTT(30), <2>1, <2>2, <3>2, <4>1
    <3>3. CASE k # 0 /\ k # n
      <4>1. k \in 0..n - 1 /\ k - 1 \in 0..n - 1
        BY <1>0, <3>3
      <4> QED
        BY Zenon, <2>1, <2>2, <3>3, <4>1
    <3> QED
      BY <3>1, <3>2, <3>3
  <2>4. Is(u, n)
    BY Zenon, <2>2, <2>3
  <2> HIDE DEF Is
  <2> QED
    BY <2>4
<1>4. Width \in S
  <2> HIDE DEF Is
  <2>1. 0 \in S
    BY <1>2
  <2> HIDE DEF S
  <2>2. 0..Width \subseteq S
    BY <1>0, <1>3, <2>1, SetInduction
  <2> QED
    BY <1>0, <2>2
<1>5. Is(f, Width)
  BY <1>4, Zenon DEF f
<1>6. f[0] = 1 /\ \A k \in 1..Width : f[k] = Double(f[k - 1])
  BY <1>0, <1>5
<1> QED
  BY <1>1, <1>6 DEF Double

(* A longer shift gives more.                                              *)
LEMMA Pow2Grows ==
  \A n \in 0..Width : /\ Pow2[n] \in Nat \ {0}
                      /\ \A m \in 0..n - 1 : Pow2[m] < Pow2[n]
<1> DEFINE S == {n \in 0..Width :
                   /\ Pow2[n] \in Nat \ {0}
                   /\ \A m \in 0..n - 1 : Pow2[m] \in Nat /\ Pow2[m] < Pow2[n]}
<1>0. Width \in Nat
  BY FibAssumption
<1>1. 0 \in S
  BY <1>0, Pow2Is
<1>2. ASSUME NEW n \in 1..Width, n - 1 \in S
      PROVE  n \in S
  <2>1. /\ Pow2[n - 1] \in Nat \ {0} /\ Pow2[n] = 2 * Pow2[n - 1]
        /\ \A m \in 0..(n - 1) - 1 : Pow2[m] \in Nat /\ Pow2[m] < Pow2[n - 1]
    BY <1>0, <1>2, Pow2Is
  <2>2. \A m \in 0..n - 1 : m = n - 1 \/ m \in 0..(n - 1) - 1
    BY <1>0
  <2>3. Pow2[n] \in Nat \ {0} /\ Pow2[n - 1] < Pow2[n]
    BY <2>1
  <2>4. \A m \in 0..n - 1 : Pow2[m] \in Nat /\ Pow2[m] < Pow2[n]
    BY <2>1, <2>2, <2>3
  <2> QED
    BY <2>3, <2>4
<1> HIDE DEF S
<1>3. 0..Width \subseteq S
  BY <1>0, <1>1, <1>2, SetInduction
<1> QED
  BY <1>3 DEF S

(* ipv4_mask_to_prefixlen gives back the length the netmask was made for.  *)
LEMMA PrefixOfNetmask ==
  \A q \in 0..Width : ipv4_mask_to_prefixlen(Netmask(q)) = q
<1> TAKE q \in 0..Width
<1>0. Width \in Nat
  BY FibAssumption
<1>1. ASSUME NEW p \in 0..Width, p # q
      PROVE  Netmask(p) # Netmask(q)
  <2> DEFINE m == Width - p
             n == Width - q
  <2>1. m \in 0..Width /\ n \in 0..Width /\ (m \in 0..n - 1 \/ n \in 0..m - 1)
    BY <1>0, <1>1
  <2>2. Pow2[m] \in Nat /\ Pow2[n] \in Nat /\ Pow2[Width] \in Nat /\ Pow2[m] # Pow2[n]
    <3> HIDE DEF m, n
    <3>1. Pow2[m] \in Nat /\ Pow2[n] \in Nat /\ Pow2[Width] \in Nat
      BY <1>0, <2>1, Pow2Grows
    <3>2. Pow2[m] < Pow2[n] \/ Pow2[n] < Pow2[m]
      BY <2>1, Pow2Grows
    <3> QED
      BY <3>1, <3>2
  <2> QED
    BY <2>2 DEF Netmask
<1>2. \A p \in 0..Width : Netmask(q) = Netmask(p) <=> p = q
  BY <1>1
<1>3. (CHOOSE p \in 0..Width : Netmask(q) = Netmask(p)) = q
  BY <1>2
<1> QED
  BY <1>2, <1>3 DEF ipv4_mask_to_prefixlen
-----------------------------------------------------------------------------
(* The loops of the look-ups, which differ in the key of each round.       *)
Tries(t, table, key) ==
  t = [p \in 0..Width |-> IF key[p] \in table[p] THEN <<p, key[p]>>
                          ELSE IF p = 0 THEN None ELSE t[p - 1]]

(* The recursive function of such a loop exists.                           *)
LEMMA TriesExist ==
  ASSUME NEW table, NEW key
  PROVE  \E t : Tries(t, table, key)
<1> DEFINE hit(p) == key[p] \in table[p]
           found(p) == <<p, key[p]>>
           Is(t, n) == t = [p \in 0..n |-> IF hit(p) THEN found(p)
                                           ELSE IF p = 0 THEN None ELSE t[p - 1]]
           S == {n \in 0..Width : \E t : Is(t, n)}
<1>0. Width \in Nat
  BY FibAssumption
<1>1. \A t : Is(t, Width) => Tries(t, table, key)
  BY Zenon DEF Tries
<1> HIDE DEF hit, found
<1>2. Is([p \in 0..0 |-> IF hit(p) THEN found(p) ELSE None], 0) /\ 0 \in 0..Width
  BY <1>0
<1>3. ASSUME NEW n \in 1..Width, n - 1 \in S
      PROVE  n \in S
  <2>1. PICK t : Is(t, n - 1)
    BY <1>3
  <2> DEFINE last == IF hit(n) THEN found(n) ELSE t[n - 1]
             u == [p \in 0..n |-> IF p = n THEN last ELSE t[p]]
  <2>2. /\ u[n] = last /\ \A p \in 0..n - 1 : u[p] = t[p]
        /\ u = [p \in 0..n |-> u[p]]
    BY <1>0
  <2> HIDE DEF u
  <2>3. ASSUME NEW p \in 0..n
        PROVE  u[p] = IF hit(p) THEN found(p) ELSE IF p = 0 THEN None ELSE u[p - 1]
    <3>1. CASE p = n
      <4>1. n - 1 \in 0..n - 1 /\ p # 0
        BY <1>0, <3>1
      <4> QED
        BY SMTT(30), <2>2, <3>1, <4>1
    <3>2. CASE p = 0
      <4>1. 0 \in 0..n - 1
        BY <1>0
      <4> QED
        BY Zenon, <2>1, <2>2, <3>2, <4>1
    <3>3. CASE p # 0 /\ p # n
      <4>1. p \in 0..n - 1 /\ p - 1 \in 0..n - 1
        BY <1>0, <3>3
      <4> QED
        BY Zenon, <2>1, <2>2, <3>3, <4>1
    <3> QED
      BY <3>1, <3>2, <3>3
  <2>4. Is(u, n)
    BY SMTT(30), <2>2, <2>3
  <2> HIDE DEF Is
  <2> QED
    BY <2>4
<1>4. Width \in S
  <2> HIDE DEF Is
  <2>1. 0 \in S
    BY <1>2
  <2> HIDE DEF S
  <2>2. 0..Width \subseteq S
    BY <1>0, <1>3, <2>1, SetInduction
  <2> QED
    BY <1>0, <2>2
<1>5. PICK t : Is(t, Width)
  BY <1>4
<1>6. Tries(t, table, key)
  BY Zenon, <1>1, <1>5
<1> QED
  BY <1>6

(* What such a loop finds, when the key of each round is the address       *)
(* masked to its prefix wherever the table holds anything.                 *)
LEMMA TriesFind ==
  ASSUME NEW t, NEW table, NEW key, Tries(t, table, key), NEW a,
         \A p \in 0..Width : key[p] = Network(a, p) \/ table[p] = {}
  PROVE  \A q \in 0..Width : t[q] = LongestMatch(table, a, q)
<1> DEFINE M == {p \in 0..Width : Network(a, p) \in table[p]}
           match(p) == p \in M
           matching(q) == {p \in 0..q : match(p)}
           S == {q \in 0..Width : t[q] = LongestMatch(table, a, q)}
<1>0. Width \in Nat
  BY FibAssumption
<1>1. /\ \A p \in 0..Width : match(p) => t[p] = <<p, Network(a, p)>>
      /\ ~ match(0) => t[0] = None
      /\ \A p \in 1..Width : ~ match(p) => t[p] = t[p - 1]
  <2>1. \A p \in 0..Width :
          /\ key[p] \in table[p] => t[p] = <<p, key[p]>>
          /\ key[p] \notin table[p] => t[p] = IF p = 0 THEN None ELSE t[p - 1]
    BY DEF Tries
  <2>2. \A p \in 0..Width : match(p) => key[p] \in table[p] /\ key[p] = Network(a, p)
    OBVIOUS
  <2>3. \A p \in 0..Width : ~ match(p) => key[p] \notin table[p]
    OBVIOUS
  <2> HIDE DEF M
  <2>4. \A p \in 0..Width : match(p) => t[p] = <<p, Network(a, p)>>
    BY <2>1, <2>2
  <2>5. 0 \in 0..Width /\ \A p \in 1..Width : p \in 0..Width /\ p # 0
    BY <1>0
  <2>6. \A p \in 1..Width : ~ match(p) => t[p] = t[p - 1]
    BY <2>1, <2>3, <2>5
  <2>7. ~ match(0) => t[0] = None
    BY <2>1, <2>3, <2>5
  <2> QED
    BY <2>4, <2>6, <2>7
<1>2. ASSUME NEW q \in 0..Width
      PROVE  LongestMatch(table, a, q) =
               IF matching(q) = {} THEN None
               ELSE <<Max(matching(q)), Network(a, Max(matching(q)))>>
  <2>1. matching(q) = {p \in 0..q : Network(a, p) \in table[p]}
    BY <1>0
  <2> HIDE DEF matching
  <2> QED
    BY <2>1, Zenon DEF LongestMatch
<1> HIDE DEF M
<1>3. ASSUME NEW q \in 0..Width, match(q)
      PROVE  q \in S
  <2>1. q \in matching(q) /\ \A p \in matching(q) : p \in Int /\ q >= p
    BY <1>0, <1>3
  <2>2. ASSUME NEW x \in matching(q), \A p \in matching(q) : x >= p
        PROVE  x = q
    BY <1>0, <2>1, <2>2
  <2> HIDE DEF matching
  <2>3. Max(matching(q)) = q
    BY <2>1, <2>2 DEF Max
  <2>4. matching(q) # {}
    BY <2>1
  <2>5. LongestMatch(table, a, q) = <<q, Network(a, q)>>
    BY <1>2, <2>3, <2>4
  <2>6. t[q] = <<q, Network(a, q)>>
    BY <1>1, <1>3
  <2> QED
    BY <2>5, <2>6
<1>4. 0 \in S
  <2>1. CASE match(0)
    BY <1>0, <1>3, <2>1
  <2>2. CASE ~ match(0)
    <3>1. matching(0) = {}
      BY <2>2
    <3>2. t[0] = None /\ 0 \in 0..Width
      BY <1>0, <1>1, <2>2
    <3> HIDE DEF matching
    <3>3. LongestMatch(table, a, 0) = None
      BY <1>2, <3>1, <3>2
    <3> QED
      BY <3>2, <3>3
  <2> QED
    BY <2>1, <2>2
<1>5. ASSUME NEW q \in 1..Width, q - 1 \in S
      PROVE  q \in S
  <2>1. CASE match(q)
    BY <1>0, <1>3, <2>1
  <2>2. CASE ~ match(q)
    <3>1. matching(q) = matching(q - 1)
      BY <1>0, <2>2
    <3>2. t[q] = t[q - 1] /\ q \in 0..Width /\ q - 1 \in 0..Width
      BY <1>0, <1>1, <2>2
    <3>3. LongestMatch(table, a, q) = LongestMatch(table, a, q - 1)
      <4> HIDE DEF matching
      <4> QED
        BY <1>2, <3>1, <3>2
    <3> QED
      BY <1>5, <3>2, <3>3
  <2> QED
    BY <2>1, <2>2
<1> HIDE DEF S
<1>6. 0..Width \subseteq S
  BY <1>0, <1>4, <1>5, SetInduction
<1> QED
  BY <1>6 DEF S
-----------------------------------------------------------------------------
(* Routes are only ever as short as the callers register them.             *)
FibInv ==
  /\ DOMAIN v4 = 0..Width /\ DOMAIN v6 = 0..Width
  /\ \A p \in 0..MinV4 - 1 : v4[p] = {}
  /\ \A p \in 0..MinV6 - 1 : v6[p] = {}

(* The tables hold no route shorter than the shortest registered.          *)
THEOREM FibInvariant == Spec => []FibInv
<1>0. Width \in Nat /\ MinV4 \in 0..Width /\ MinV6 \in 0..Width
  BY FibAssumption
<1>1. Init => FibInv
  BY <1>0 DEF Init, FibInv, IPV4_FIB_INDEX, IPV6_FIB_INDEX
<1>2. FibInv /\ [Next]_vars => FibInv'
  <2> SUFFICES ASSUME FibInv, [Next]_vars PROVE FibInv'
    OBVIOUS
  <2>1. CASE RegisterV4
    <3>1. PICK q \in MinV4..Width, a \in Address :
            register_ipv4_fib(Network(a, q), Netmask(q))
      BY <2>1 DEF RegisterV4
    <3>2. v4' = [v4 EXCEPT ![q] = @ \cup {Network(a, q)}] /\ v6' = v6
      <4>1. q \in 0..Width
        BY <1>0
      <4>2. ipv4_mask_to_prefixlen(Netmask(q)) = q
        BY <4>1, PrefixOfNetmask
      <4> QED
        BY <3>1, <4>2 DEF register_ipv4_fib
    <3>3. DOMAIN v4' = 0..Width /\ \A p \in 0..MinV4 - 1 : v4'[p] = v4[p]
      BY <1>0, <3>2 DEF FibInv
    <3> QED
      BY <3>2, <3>3 DEF FibInv
  <2>2. CASE RegisterV6
    <3>1. PICK q \in MinV6..Width, a \in Address : register_ipv6_fib(Network(a, q), q)
      BY <2>2 DEF RegisterV6
    <3>2. v6' = [v6 EXCEPT ![q] = @ \cup {Network(a, q)}] /\ v4' = v4
      BY <3>1 DEF register_ipv6_fib
    <3>3. DOMAIN v6' = 0..Width /\ \A p \in 0..MinV6 - 1 : v6'[p] = v6[p]
      BY <1>0, <3>2 DEF FibInv
    <3> QED
      BY <3>2, <3>3 DEF FibInv
  <2>3. CASE UNCHANGED vars
    BY <2>3 DEF FibInv, vars
  <2> QED
    BY <2>1, <2>2, <2>3 DEF Next
<1> QED
  BY <1>1, <1>2, PTL DEF Spec

(* find_ipv4_fib finds the longest match in any table that has no route of *)
(* prefix length 0, which masked cannot look up.                           *)
THEOREM LongestMatchV4Right ==
  ASSUME MinV4 >= 1
  PROVE  Spec => []LongestMatchV4
<1>1. FibInv => LongestMatchV4
  <2> SUFFICES ASSUME FibInv, NEW a \in Address, NEW q \in 0..Width
               PROVE  find_ipv4_fib(a, Netmask(q)) = LongestMatch(v4, a, q)
    BY DEF LongestMatchV4
  <2> DEFINE key == [p \in 0..Width |-> masked(a, p)]
             Is(t) == t = [p \in 0..Width |->
                             IF masked(a, p) \in v4[p] THEN <<p, masked(a, p)>>
                             ELSE IF p = 0 THEN None ELSE t[p - 1]]
             f == CHOOSE t : Is(t)
  <2>1. \A p \in 0..Width : key[p] = masked(a, p)
    OBVIOUS
  <2>2. \A t : Is(t) <=> Tries(t, v4, key)
    <3> HIDE DEF key
    <3> QED
      BY <2>1 DEF Tries
  <2>3. find_ipv4_fib(a, Netmask(q)) = f[q]
    <3>1. ipv4_mask_to_prefixlen(Netmask(q)) = q
      BY PrefixOfNetmask
    <3> QED
      BY <3>1 DEF find_ipv4_fib
  <2>4. \A p \in 0..Width : key[p] = Network(a, p) \/ v4[p] = {}
    <3>1. v4[0] = {}
      BY FibAssumption DEF FibInv
    <3> QED
      BY <2>1, <3>1 DEF masked
  <2> HIDE DEF key, Is
  <2>5. \E t : Tries(t, v4, key)
    BY TriesExist
  <2>6. Tries(f, v4, key)
    BY <2>2, <2>5
  <2> HIDE DEF f
  <2>7. f[q] = LongestMatch(v4, a, q)
    BY <2>4, <2>6, TriesFind
  <2> QED
    BY <2>3, <2>7
<1> QED
  BY <1>1, FibInvariant, PTL

(* find_ipv6_fib, called with the full length, finds the longest match in  *)
(* any table of host routes: it masks with that length in every round.     *)
THEOREM LongestMatchV6Right ==
  ASSUME MinV6 = Width
  PROVE  Spec => []LongestMatchV6
<1>1. FibInv => LongestMatchV6
  <2> SUFFICES ASSUME FibInv, NEW a \in Address
               PROVE  find_ipv6_fib(a, Width) = LongestMatch(v6, a, Width)
    BY DEF LongestMatchV6
  <2> DEFINE k == masked(a, Width)
             key == [p \in 0..Width |-> k]
             Is(t) == t = [p \in 0..Width |->
                             IF k \in v6[p] THEN <<p, k>>
                             ELSE IF p = 0 THEN None ELSE t[p - 1]]
             f == CHOOSE t : Is(t)
  <2>0. Width \in Nat \ {0}
    BY FibAssumption
  <2>1. \A p \in 0..Width : key[p] = k
    OBVIOUS
  <2>2. \A t : Is(t) <=> Tries(t, v6, key)
    <3> HIDE DEF key
    <3> QED
      BY <2>1 DEF Tries
  <2>3. find_ipv6_fib(a, Width) = f[Width]
    BY DEF find_ipv6_fib
  <2>4. \A p \in 0..Width : key[p] = Network(a, p) \/ v6[p] = {}
    <3>1. \A p \in 0..Width : p = Width \/ v6[p] = {}
      BY <2>0 DEF FibInv
    <3>2. key[Width] = Network(a, Width)
      BY <2>0, <2>1 DEF masked
    <3> QED
      BY <3>1, <3>2
  <2> HIDE DEF key, Is
  <2>5. \E t : Tries(t, v6, key)
    BY TriesExist
  <2>6. Tries(f, v6, key)
    BY <2>2, <2>5
  <2> HIDE DEF f
  <2>7. f[Width] = LongestMatch(v6, a, Width)
    BY <2>0, <2>4, <2>6, TriesFind
  <2> QED
    BY <2>3, <2>7
<1> QED
  BY <1>1, FibInvariant, PTL
-----------------------------------------------------------------------------
(* The echo replies.                                                       *)

(* Zero, but not nothing, in the arithmetic of ones' complement.           *)
Complete(s) == \E m \in Nat \ {0} : s = 65535 * m

(* t holds the running sums of the words of b.                             *)
RunningSum(t, b) ==
  /\ t \in [0..(Len(b) \div 2) -> Nat]
  /\ t[0] = 0
  /\ \A k \in 1..(Len(b) \div 2) : t[k] = t[k - 1] + Word(b, k)

(* Half of a length, and the words there are in it.                        *)
LEMMA WordCount ==
  ASSUME NEW b \in Seq(Byte)
  PROVE  /\ Len(b) \div 2 \in Nat
         /\ \A k \in 1..(Len(b) \div 2) :
              2 * k - 1 \in 1..Len(b) /\ 2 * k \in 1..Len(b)
<1> DEFINE l == Len(b)
           n == l \div 2
<1>1. l \in Nat
  OBVIOUS
<1> HIDE DEF l
<1>2. n \in Nat /\ 2 * n <= l
  BY <1>1
<1> HIDE DEF n
<1>3. \A k \in 1..n : 2 * k - 1 \in 1..l /\ 2 * k \in 1..l
  BY <1>1, <1>2
<1> QED
  BY <1>2, <1>3 DEF l, n

(* A byte has eight bits.                                                  *)
LEMMA ByteRange ==
  ASSUME NEW x
  PROVE  x \in Byte <=> x \in Nat /\ x < ByteMod
<1>1. ByteMod \in Nat
  BY DEF ByteMod
<1> QED
  BY <1>1 DEF Byte

(* A number below 256 is one.                                              *)
LEMMA IsByte ==
  ASSUME NEW x \in Nat, x < 256
  PROVE  x \in Byte
BY ByteRange DEF ByteMod

(* A word has sixteen bits.                                                *)
LEMMA WordRange ==
  ASSUME NEW b \in Seq(Byte), NEW k \in 1..(Len(b) \div 2)
  PROVE  Word(b, k) \in Nat /\ Word(b, k) <= 65535
<1>1. b[2 * k - 1] \in Byte /\ b[2 * k] \in Byte
  BY WordCount
<1> DEFINE h == b[2 * k - 1]
           l == b[2 * k]
<1> HIDE DEF h, l
<1>2. h \in Nat /\ h <= 255 /\ l \in Nat /\ l <= 255
  <2>1. h \in Nat /\ h < ByteMod /\ l \in Nat /\ l < ByteMod
    BY SMTT(30), <1>1, ByteRange DEF h, l
  <2> QED
    BY <2>1, SMT DEF ByteMod
<1>3. Word(b, k) = h * 256 + l
  BY DEF Word, ByteMod, h, l
<1> QED
  BY <1>2, <1>3, SMT

(* So it is a number.                                                      *)
LEMMA WordsNat ==
  ASSUME NEW b \in Seq(Byte)
  PROVE  \A k \in 1..(Len(b) \div 2) : Word(b, k) \in Nat
BY WordRange

(* The recursive function that sums the words exists.                      *)
LEMMA SumIs ==
  ASSUME NEW b \in Seq(Byte)
  PROVE  \E t : RunningSum(t, b) /\ SumOfWords(b) = t[Len(b) \div 2]
<1> DEFINE n == Len(b) \div 2
           Plus(x, k) == x + Word(b, k)
           Is(t, m) == t = [k \in 0..m |-> IF k = 0 THEN 0 ELSE Plus(t[k - 1], k)]
           S == {m \in 0..n : \E t : Is(t, m)}
           f == CHOOSE t : Is(t, n)
<1>0. n \in Nat
  BY WordCount
<1>1. SumOfWords(b) = f[n]
  BY DEF SumOfWords
<1>w. \A k \in 1..n : Word(b, k) \in Nat
  BY WordRange
<1> HIDE DEF f, n, Plus
<1>2. Is([k \in 0..0 |-> 0], 0) /\ 0 \in 0..n
  BY <1>0
<1>3. ASSUME NEW m \in 1..n, m - 1 \in S
      PROVE  m \in S
  <2>1. PICK t : Is(t, m - 1)
    BY <1>3
  <2> DEFINE u == [k \in 0..m |-> IF k = m THEN Plus(t[m - 1], m) ELSE t[k]]
  <2>2. /\ u[m] = Plus(t[m - 1], m) /\ \A k \in 0..m - 1 : u[k] = t[k]
        /\ u = [k \in 0..m |-> u[k]]
    BY <1>0
  <2> HIDE DEF u
  <2>3. ASSUME NEW k \in 0..m
        PROVE  u[k] = IF k = 0 THEN 0 ELSE Plus(u[k - 1], k)
    <3>1. CASE k = m
      <4>1. m - 1 \in 0..m - 1 /\ k # 0
        BY <1>0, <3>1
      <4> QED
        BY Zenon, <2>2, <3>1, <4>1
    <3>2. CASE k = 0
      <4>1. 0 \in 0..m - 1
        BY <1>0
      <4> QED
        BY <2>1, <2>2, <3>2, <4>1
    <3>3. CASE k # 0 /\ k # m
      <4>1. k \in 0..m - 1 /\ k - 1 \in 0..m - 1
        BY <1>0, <3>3
      <4> QED
        BY Zenon, <2>1, <2>2, <3>3, <4>1
    <3> QED
      BY <3>1, <3>2, <3>3
  <2>4. Is(u, m)
    BY Zenon, <2>2, <2>3
  <2> HIDE DEF Is
  <2> QED
    BY <2>4
<1>4. n \in S
  <2> HIDE DEF Is
  <2>1. 0 \in S
    BY <1>2
  <2> HIDE DEF S
  <2>2. 0..n \subseteq S
    BY SMTT(30), <1>0, <1>3, <2>1, SetInduction
  <2> QED
    BY <1>0, <2>2
<1>5. Is(f, n)
  BY <1>4, Zenon DEF f
<1>6. f[0] = 0 /\ \A k \in 1..n : f[k] = Plus(f[k - 1], k)
  BY <1>0, <1>5
<1>7. f = [k \in 0..n |-> f[k]]
  BY <1>5
<1> HIDE DEF Is
<1>8. 0..n \subseteq {k \in 0..n : f[k] \in Nat}
  <2> DEFINE T == {k \in 0..n : f[k] \in Nat}
  <2>1. 0 \in T
    BY <1>0, <1>6
  <2>2. ASSUME NEW m \in 1..n, m - 1 \in T
        PROVE  m \in T
    BY <1>0, <1>w, <1>6, <2>2 DEF Plus
  <2> HIDE DEF T
  <2>3. 0..n \subseteq T
    BY SMTT(30), <1>0, <2>1, <2>2, SetInduction
  <2> QED
    BY <2>3 DEF T
<1>9. f \in [0..n -> Nat]
  BY <1>7, <1>8
<1>10. \A k \in 1..n : f[k] = f[k - 1] + Word(b, k)
  BY <1>6 DEF Plus
<1> QED
  BY <1>1, <1>6, <1>9, <1>10 DEF RunningSum, n

(* The words of c after the first p begin with those of b.                 *)
Repeats(c, p, b) ==
  /\ p + (Len(b) \div 2) <= Len(c) \div 2
  /\ \A k \in 1..(Len(b) \div 2) : Word(c, p + k) = Word(b, k)

(* Words that are equal, from some place on, add the same to both sums.    *)
LEMMA SameWords ==
  ASSUME NEW b \in Seq(Byte), NEW c \in Seq(Byte), NEW t, NEW u,
         RunningSum(t, b), RunningSum(u, c), NEW p \in Nat,
         Repeats(c, p, b)
  PROVE  u[p + (Len(b) \div 2)] = u[p] + t[Len(b) \div 2]
<1> DEFINE n == Len(b) \div 2
           m == Len(c) \div 2
           S == {k \in 0..n : u[p + k] = u[p] + t[k]}
<1>0. n \in Nat /\ m \in Nat /\ p + n <= m
  BY WordCount DEF Repeats
<1>1. /\ t \in [0..n -> Nat] /\ u \in [0..m -> Nat] /\ t[0] = 0
      /\ \A k \in 1..n : t[k] = t[k - 1] + Word(b, k)
      /\ \A k \in 1..m : u[k] = u[k - 1] + Word(c, k)
      /\ \A k \in 1..n : Word(c, p + k) = Word(b, k)
  BY DEF RunningSum, Repeats
<1>2. \A k \in 1..n : Word(b, k) \in Nat
  BY WordRange
<1> HIDE DEF n, m
<1>3. 0 \in S
  <2>1. p + 0 = p /\ p \in 0..m
    BY <1>0
  <2> QED
    BY <1>0, <1>1, <2>1
<1>4. ASSUME NEW k \in 1..n, k - 1 \in S
      PROVE  k \in S
  <2>1. p + k \in 1..m /\ (p + k) - 1 = p + (k - 1) /\ p \in 0..m
    BY <1>0
  <2>2. u[p + k] = u[p + (k - 1)] + Word(b, k)
    BY <1>1, <2>1
  <2>3. u[p + (k - 1)] = u[p] + t[k - 1]
    BY <1>4
  <2>4. u[p] \in Nat /\ t[k - 1] \in Nat /\ t[k] = t[k - 1] + Word(b, k)
    <3>1. k - 1 \in 0..n
      BY <1>0
    <3> QED
      BY Zenon, <1>1, <2>1, <3>1
  <2>5. Word(b, k) \in Nat
    BY <1>2
  <2>6. u[p + k] = u[p] + t[k]
    BY SMTT(30), <2>2, <2>3, <2>4, <2>5
  <2> QED
    BY <1>0, <2>6
<1> HIDE DEF S
<1>5. 0..n \subseteq S
  BY Zenon, <1>0, <1>3, <1>4, SetInduction
<1>6. n \in S
  BY <1>0, <1>5
<1> QED
  BY <1>6 DEF S, n

(* The sum of two parts, the first of which has an even length.            *)
LEMMA SumOfParts ==
  ASSUME NEW a \in Seq(Byte), NEW b \in Seq(Byte), NEW h \in Nat, Len(a) = 2 * h
  PROVE  SumOfWords(a \o b) = SumOfWords(a) + SumOfWords(b)
<1> DEFINE c == a \o b
           n == Len(b) \div 2
<1>0. n \in Nat
  BY WordCount
<1>1. /\ c \in Seq(Byte) /\ Len(c) = Len(a) + Len(b)
      /\ \A i \in 1..Len(a) : c[i] = a[i]
      /\ \A i \in 1..Len(b) : c[Len(a) + i] = b[i]
  OBVIOUS
<1> HIDE DEF c
<1>2. Len(a) \div 2 = h /\ Len(c) \div 2 = h + n
  <2>1. Len(b) \in Nat
    OBVIOUS
  <2>2. (2 * h) \div 2 = h /\ (2 * h + Len(b)) \div 2 = h + n
    BY <2>1
  <2> QED
    BY <1>1, <2>2
<1>3. ASSUME NEW k \in 1..h
      PROVE  Word(c, 0 + k) = Word(a, k)
  <2>1. 2 * k - 1 \in 1..Len(a) /\ 2 * k \in 1..Len(a) /\ 0 + k = k
    OBVIOUS
  <2>2. c[2 * k - 1] = a[2 * k - 1] /\ c[2 * k] = a[2 * k]
    BY <1>1, <2>1
  <2> QED
    BY <2>1, <2>2 DEF Word
<1>4. ASSUME NEW k \in 1..n
      PROVE  Word(c, h + k) = Word(b, k)
  <2>1. 2 * k - 1 \in 1..Len(b) /\ 2 * k \in 1..Len(b)
    BY WordCount
  <2>2. 2 * (h + k) - 1 = Len(a) + (2 * k - 1) /\ 2 * (h + k) = Len(a) + 2 * k
    BY <1>0
  <2>3. c[2 * (h + k) - 1] = b[2 * k - 1] /\ c[2 * (h + k)] = b[2 * k]
    BY Zenon, <1>1, <2>1, <2>2
  <2> QED
    BY <2>3 DEF Word
<1>5. PICK t : RunningSum(t, a) /\ SumOfWords(a) = t[h]
  BY <1>2, SumIs
<1>6. PICK u : RunningSum(u, b) /\ SumOfWords(b) = u[n]
  BY SumIs
<1>7. PICK v : RunningSum(v, c) /\ SumOfWords(c) = v[h + n]
  BY ZenonT(30), <1>1, <1>2, SumIs
<1> HIDE DEF n
<1>8. v[0] = 0 /\ t[h] \in Nat /\ u[n] \in Nat
  <2>1. t \in [0..h -> Nat] /\ v[0] = 0 /\ u \in [0..n -> Nat]
    BY <1>2, <1>5, <1>6, <1>7 DEF RunningSum, n
  <2> QED
    BY <1>0, <2>1
<1>9. v[0 + h] = v[0] + t[h]
  <2>1. Repeats(c, 0, a)
    BY SMTT(30), <1>0, <1>2, <1>3 DEF Repeats
  <2>2. c \in Seq(Byte) /\ RunningSum(t, a) /\ RunningSum(v, c)
    BY <1>1, <1>5, <1>7
  <2>3. v[0 + (Len(a) \div 2)] = v[0] + t[Len(a) \div 2]
    BY <2>1, <2>2, SameWords
  <2> QED
    BY <1>2, <2>3
<1>10. v[h + n] = v[h] + u[n]
  <2>1. Repeats(c, h, b)
    BY SMTT(30), <1>0, <1>2, <1>4 DEF n, Repeats
  <2>2. c \in Seq(Byte) /\ RunningSum(u, b) /\ RunningSum(v, c)
    BY <1>1, <1>6, <1>7
  <2>3. v[h + (Len(b) \div 2)] = v[h] + u[Len(b) \div 2]
    BY <2>1, <2>2, SameWords
  <2> QED
    BY <2>3 DEF n
<1>11. 0 + h = h
  OBVIOUS
<1>12. SumOfWords(c) = t[h] + u[n]
  BY SMTT(30), <1>7, <1>8, <1>9, <1>10, <1>11
<1> QED
  BY <1>5, <1>6, <1>12 DEF c

(* b and c have the same words but for word j.                             *)
SameBut(b, c, j) ==
  /\ Len(c) = Len(b)
  /\ \A k \in 1..(Len(b) \div 2) : k # j => Word(c, k) = Word(b, k)

(* The sum when one word is changed from zero.                             *)
LEMMA SumWithWord ==
  ASSUME NEW b \in Seq(Byte), NEW c \in Seq(Byte),
         NEW j \in 1..(Len(b) \div 2), Word(b, j) = 0, SameBut(b, c, j)
  PROVE  SumOfWords(c) = SumOfWords(b) + Word(c, j)
<1> DEFINE n == Len(b) \div 2
           w == Word(c, j)
<1>0. n \in Nat
  BY WordCount
<1>1. PICK t : RunningSum(t, b) /\ SumOfWords(b) = t[n]
  BY SumIs
<1>l. Len(c) = Len(b)
  BY DEF SameBut
<1>2. PICK u : RunningSum(u, c) /\ SumOfWords(c) = u[n]
  BY SMTT(30), <1>l, SumIs
<1>3. /\ t \in [0..n -> Nat] /\ u \in [0..n -> Nat] /\ t[0] = 0 /\ u[0] = 0
      /\ \A k \in 1..n : t[k] = t[k - 1] + Word(b, k)
      /\ \A k \in 1..n : u[k] = u[k - 1] + Word(c, k)
  BY <1>1, <1>2, <1>l DEF RunningSum
<1>4. w \in Nat
  BY <1>l, WordRange
<1>5. /\ j \in 1..n /\ Word(b, j) = 0 /\ Word(c, j) = w
      /\ \A k \in 1..n : k # j => Word(c, k) = Word(b, k)
  BY DEF SameBut
<1>w. \A k \in 1..n : Word(b, k) \in Nat
  BY WordRange
<1> HIDE DEF n, w
<1> DEFINE S == {k \in 0..n : u[k] = IF k < j THEN t[k] ELSE t[k] + w}
<1>6. 0 \in S
  BY <1>0, <1>3, <1>5
<1>7. ASSUME NEW k \in 1..n, k - 1 \in S
      PROVE  k \in S
  <2>1. k \in 0..n /\ k - 1 \in 0..n /\ j \in Int
    BY <1>0, <1>5
  <2>2. t[k - 1] \in Nat /\ u[k - 1] \in Nat /\ t[k] \in Nat
    BY SMTT(30), <1>3, <2>1
  <2>3. t[k] = t[k - 1] + Word(b, k) /\ u[k] = u[k - 1] + Word(c, k)
    BY <1>3
  <2>4. u[k - 1] = IF k - 1 < j THEN t[k - 1] ELSE t[k - 1] + w
    BY <1>7
  <2>5. Word(b, k) \in Nat
    BY <1>w
  <2>6. CASE k = j
    <3>1. k - 1 < j /\ ~ (k < j)
      BY SMTT(30), <2>6, <2>1
    <3>2. u[k] = t[k - 1] + w /\ t[k] = t[k - 1] + 0
      BY SMTT(30), <1>5, <2>3, <2>4, <2>6, <3>1
    <3> QED
      BY <2>1, <2>2, <3>1, <3>2
  <2>7. CASE k # j
    <3>1. Word(c, k) = Word(b, k) /\ (k - 1 < j <=> k < j)
      BY SMTT(30), <1>5, <2>1, <2>7
    <3>2. u[k] = IF k < j THEN t[k] ELSE t[k] + w
      BY <1>4, <2>2, <2>3, <2>4, <2>5, <3>1
    <3> QED
      BY <2>1, <3>2
  <2> QED
    BY SMTT(30), <2>6, <2>7
<1> HIDE DEF S
<1>8. 0..n \subseteq S
  BY Zenon, <1>0, <1>6, <1>7, SetInduction
<1>9. u[n] = t[n] + w
  BY <1>0, <1>5, <1>8 DEF S
<1> QED
  BY <1>1, <1>2, <1>9 DEF w

(* What a sum is at least and at most.                                     *)
LEMMA SumRange ==
  ASSUME NEW b \in Seq(Byte)
  PROVE  /\ SumOfWords(b) \in Nat
         /\ SumOfWords(b) <= 65535 * (Len(b) \div 2)
         /\ Len(b) >= 2 => SumOfWords(b) >= Word(b, 1)
<1> DEFINE n == Len(b) \div 2
           w == Word(b, 1)
<1>0. n \in Nat
  BY WordCount
<1>1. PICK t : RunningSum(t, b) /\ SumOfWords(b) = t[n]
  BY SumIs
<1>2. /\ t \in [0..n -> Nat] /\ t[0] = 0
      /\ \A k \in 1..n : t[k] = t[k - 1] + Word(b, k)
  BY <1>1 DEF RunningSum
<1>3. \A k \in 1..n : Word(b, k) \in Nat /\ Word(b, k) <= 65535
  BY WordRange
<1>4. Len(b) >= 2 => n >= 1
  <2>1. Len(b) \in Nat
    OBVIOUS
  <2> QED
    BY <2>1
<1> HIDE DEF n
<1> DEFINE S == {k \in 0..n : t[k] <= 65535 * k /\ (k >= 1 => t[k] >= w)}
<1>5. 0 \in S
  BY <1>0, <1>2, SMT
<1>6. ASSUME NEW k \in 1..n, k - 1 \in S
      PROVE  k \in S
  <2> DEFINE x == Word(b, k)
             p == t[k - 1]
  <2>1. k \in 0..n /\ k - 1 \in 0..n
    BY <1>0
  <2>2. p \in Nat /\ t[k] = p + x /\ x \in Nat /\ x <= 65535
    BY <1>2, <1>3, <2>1
  <2>3. p <= 65535 * (k - 1) /\ (k - 1 >= 1 => p >= w)
    BY <1>6
  <2>4. k = 1 => x = w
    OBVIOUS
  <2>5. w \in Nat
    BY <1>0, <1>3
  <2> HIDE DEF x, p, w
  <2>6. p + x <= 65535 * k
    BY <2>2, <2>3, SMT
  <2>7. p + x >= w
    BY SMTT(30), <2>2, <2>3, <2>4, <2>5
  <2> QED
    BY <2>1, <2>2, <2>6, <2>7, SMT
<1> HIDE DEF S
<1>7. 0..n \subseteq S
  BY SMTT(30), <1>0, <1>5, <1>6, SetInduction
<1>8. n \in S
  BY <1>0, <1>7
<1> HIDE DEF w
<1>9. t[n] \in Nat /\ t[n] <= 65535 * n /\ (n >= 1 => t[n] >= w)
  BY <1>0, <1>2, <1>8, SMT DEF S
<1> QED
  BY <1>1, <1>4, <1>9 DEF n, w

(* A number below 2^16 is its two bytes.                                   *)
LEMMA TwoBytes ==
  ASSUME NEW w \in Nat, w < WordMod
  PROVE  Hi(w) \in Byte /\ Lo(w) \in Byte /\ Hi(w) * ByteMod + Lo(w) = w
<1>1. w < 65536
  BY SMT DEF WordMod, ByteMod
<1>2. w % 65536 = w
  BY <1>1, SMT
<1>3. Hi(w) = w \div 256 /\ Lo(w) = w % 256
  BY <1>2, SMT DEF Hi, Lo, WordMod, ByteMod
<1> DEFINE h == w \div 256
           l == w % 256
<1>4. h \in Nat /\ h < 256 /\ l \in Nat /\ l < 256 /\ h * 256 + l = w
  BY <1>1, SMT
<1> HIDE DEF h, l
<1>5. h < ByteMod /\ l < ByteMod /\ h * ByteMod + l = w
  BY <1>4, SMT DEF ByteMod
<1> QED
  BY <1>3, <1>4, <1>5, ByteRange DEF h, l

(* A sum of 32 bits and its checksum add up to a multiple of 2^16 - 1,     *)
(* which is zero in ones' complement: the carry of the first fold is gone  *)
(* after the second.                                                       *)
LEMMA ChecksumCompletes ==
  ASSUME NEW s \in Nat, s < WordMod * WordMod
  PROVE  /\ Checksum(s) \in Nat /\ Checksum(s) < WordMod
         /\ Complete(s + Checksum(s))
<1> DEFINE q == s \div 65536
           r == s % 65536
           f == r + q
           p == f \div 65536
           o == f % 65536
           g == o + p
<1>0. WordMod = 65536
  BY SMT DEF WordMod, ByteMod
<1>1. Checksum(s) = 65535 - (g % 65536)
  BY <1>0, SMT DEF Checksum, Fold
<1>2. s < 4294967296
  BY <1>0, SMT
<1>3. q \in Nat /\ r \in Nat /\ r <= 65535 /\ s = 65536 * q + r /\ q <= 65535
  BY <1>2, SMT
<1> HIDE DEF q, r
<1>4. f \in Nat /\ f <= 131070
  BY <1>3, SMT
<1> HIDE DEF f
<1>5. p \in Nat /\ p <= 1 /\ o \in Nat /\ o <= 65535 /\ f = 65536 * p + o
  BY <1>4, SMT
<1> HIDE DEF p, o
<1>6. g \in Nat /\ g <= 65535
  BY <1>4, <1>5, SMT
<1>7. g + 65535 * (q + p) = s
  BY <1>3, <1>5, SMT DEF f
<1> HIDE DEF g
<1>8. g % 65536 = g
  BY <1>6, SMT
<1>9. Checksum(s) = 65535 - g
  BY <1>1, <1>8
<1>10. q + p + 1 \in Nat \ {0} /\ s + (65535 - g) = 65535 * (q + p + 1)
  BY SMTT(30), <1>3, <1>5, <1>6, <1>7
<1>11. 65535 - g \in Nat /\ 65535 - g < WordMod
  BY <1>0, <1>6, SMT
<1>12. Complete(s + (65535 - g))
  BY <1>10 DEF Complete
<1> QED
  BY <1>9, <1>11, <1>12

(* A function of the first n places is a sequence of that length.          *)
LEMMA IsSeq ==
  ASSUME NEW n \in Nat, NEW c \in [1..n -> Byte]
  PROVE  c \in Seq(Byte) /\ Len(c) = n
OBVIOUS

(* Sequences are equal when their elements are.                            *)
LEMMA SameSeq ==
  ASSUME NEW b \in Seq(Byte), NEW c \in Seq(Byte), Len(b) = Len(c),
         \A i \in 1..Len(b) : b[i] = c[i]
  PROVE  b = c
OBVIOUS

(* The bytes with w stored as word j.                                      *)
Stored(b, j, w) == [b EXCEPT ![2 * j - 1] = Hi(w), ![2 * j] = Lo(w)]

(* c is b but for word j.                                                  *)
OtherKept(b, c, j) ==
  /\ c \in Seq(Byte) /\ Len(c) = Len(b)
  /\ \A i \in 1..Len(b) : i # 2 * j - 1 /\ i # 2 * j => c[i] = b[i]

(* The elements of a part of a sequence.                                   *)
IsPart(a, b, m, n) ==
  a \in Seq(Byte) /\ Len(a) = n /\ \A i \in 1..n : a[i] = b[m + i]

(* What SubSeq gives.                                                      *)
LEMMA PartOf ==
  ASSUME NEW b \in Seq(Byte), NEW m \in Nat, NEW n \in Nat, m + n <= Len(b)
  PROVE  IsPart(SubSeq(b, m + 1, m + n), b, m, n)
<1> DEFINE a == SubSeq(b, m + 1, m + n)
<1>1. Len(b) \in Nat /\ \A i \in 1..Len(b) : b[i] \in Byte
  OBVIOUS
<1>2. a = [i \in 1..n |-> b[m + i]]
  <2>1. a = [i \in 1..(m + n) - (m + 1) + 1 |-> b[i + (m + 1) - 1]]
    OBVIOUS
  <2>2. (m + n) - (m + 1) + 1 = n /\ \A i \in 1..n : i + (m + 1) - 1 = m + i
    OBVIOUS
  <2> QED
    BY <2>1, <2>2
<1> HIDE DEF a
<1>3. \A i \in 1..n : m + i \in 1..Len(b)
  BY <1>1
<1>4. a \in [1..n -> Byte]
  BY <1>1, <1>2, <1>3
<1>5. a \in Seq(Byte) /\ Len(a) = n
  BY <1>4, IsSeq
<1>6. \A i \in 1..n : a[i] = b[m + i]
  BY <1>2
<1> QED
  BY <1>5, <1>6 DEF a, IsPart

(* A checksum stored in a word that was zero completes a sum of which the  *)
(* bytes are a part, x being the rest.                                     *)
LEMMA ChecksumStored ==
  ASSUME NEW b \in Seq(Byte), NEW j \in 1..(Len(b) \div 2),
         b[2 * j - 1] = 0, b[2 * j] = 0,
         NEW x \in Nat, NEW s, s = x + SumOfWords(b), s < WordMod * WordMod,
         NEW c, c = Stored(b, j, Checksum(s))
  PROVE  OtherKept(b, c, j) /\ Complete(x + SumOfWords(c))
<1> DEFINE w == Checksum(s)
           h == Hi(w)
           l == Lo(w)
           n == Len(b)
<1>1. s \in Nat /\ SumOfWords(b) \in Nat
  BY SMTT(30), SumRange
<1>2. w \in Nat /\ w < WordMod /\ Complete(s + w)
  BY <1>1, ChecksumCompletes
<1> HIDE DEF w
<1>3. h \in Byte /\ l \in Byte /\ h * ByteMod + l = w
  BY <1>2, TwoBytes
<1>4. c = [b EXCEPT ![2 * j - 1] = h, ![2 * j] = l]
  BY DEF w, Stored
<1>5. 2 * j - 1 \in 1..n /\ 2 * j \in 1..n /\ j \in Nat /\ n \in Nat
  BY WordCount
<1>6. b \in [1..n -> Byte]
  OBVIOUS
<1> HIDE DEF h, l, n
<1>7. c \in [1..n -> Byte]
  BY ZenonT(30), <1>3, <1>4, <1>6
<1>8. /\ c[2 * j - 1] = h /\ c[2 * j] = l
      /\ \A i \in 1..n : i # 2 * j - 1 /\ i # 2 * j => c[i] = b[i]
  <2>1. 2 * j - 1 # 2 * j
    BY <1>5
  <2> QED
    BY <1>4, <1>5, <1>6, <2>1
<1>9. c \in Seq(Byte) /\ Len(c) = n
  BY <1>5, <1>7
<1>10. Word(c, j) = w /\ Word(b, j) = 0
  BY SMTT(30), <1>3, <1>8 DEF Word, ByteMod
<1>11. ASSUME NEW k \in 1..(Len(b) \div 2), k # j
       PROVE  Word(c, k) = Word(b, k)
  <2>1. 2 * k - 1 \in 1..n /\ 2 * k \in 1..n
    BY WordCount DEF n
  <2>2. /\ 2 * k - 1 # 2 * j - 1 /\ 2 * k - 1 # 2 * j
        /\ 2 * k # 2 * j - 1 /\ 2 * k # 2 * j
    BY <1>5, <1>11, WordCount
  <2> QED
    BY <1>8, <2>1, <2>2 DEF Word
<1>12. SumOfWords(c) = SumOfWords(b) + w
  <2>1. SameBut(b, c, j)
    BY <1>9, <1>11 DEF SameBut, n
  <2>2. c \in Seq(Byte) /\ Word(b, j) = 0
    BY SMTT(30), <1>9, <1>10
  <2>3. SumOfWords(c) = SumOfWords(b) + Word(c, j)
    BY <2>1, <2>2, SumWithWord
  <2> QED
    BY <1>10, <2>3
<1>13. x + SumOfWords(c) = s + w
  BY <1>1, <1>2, <1>12
<1>14. Complete(x + SumOfWords(c))
  BY <1>2, <1>13
<1> QED
  BY <1>8, <1>9, <1>14, Zenon DEF n, OtherKept

(* A positive multiple of 2^16 - 1 is what a receiver checks for.          *)
LEMMA CompletedVerifies ==
  ASSUME NEW b \in Seq(Byte), Len(b) % 2 = 0, Complete(SumOfWords(b))
  PROVE  Verifies(b)
<1> DEFINE s == SumOfWords(b)
<1>0. PICK m \in Nat \ {0} : s = 65535 * m
  BY DEF Complete
<1>1. WordMod - 1 = 65535
  BY SMT DEF WordMod, ByteMod
<1>2. s = 65535 * m
  BY <1>0
<1> HIDE DEF s
<1>3. s > 0 /\ s % 65535 = 0
  BY <1>2, SMT
<1>4. Verifies(b) <=> s > 0 /\ s % (WordMod - 1) = 0
  BY DEF Verifies, s
<1> QED
  BY <1>1, <1>3, <1>4

(* A sum, by the number of words.                                          *)
LEMMA SumWithin ==
  ASSUME NEW b \in Seq(Byte), NEW n, n = Len(b) \div 2
  PROVE  SumOfWords(b) \in Nat /\ SumOfWords(b) <= WordMod * n
<1> DEFINE s == SumOfWords(b)
<1>1. n \in Nat /\ s \in Nat /\ s <= 65535 * n
  BY SumRange, WordCount
<1> HIDE DEF s
<1>2. s <= WordMod * n
  BY <1>1, SMT DEF WordMod, ByteMod
<1> QED
  BY <1>1, <1>2 DEF s

(* The sum of an IPv6 address.                                             *)
LEMMA AddressSum ==
  ASSUME NEW b \in Seq(Byte), Len(b) = 16
  PROVE  SumOfWords(b) \in Nat /\ SumOfWords(b) <= WordMod * 8
<1>1. 8 = Len(b) \div 2
  OBVIOUS
<1> QED
  BY <1>1, SumWithin, Zenon

(* The sum of a packet fits in 32 bits.                                    *)
LEMMA SumFits ==
  ASSUME NEW b \in Seq(Byte), Len(b) < WordMod
  PROVE  SumOfWords(b) \in Nat /\ SumOfWords(b) <= 65535 * 32767
<1> DEFINE n == Len(b) \div 2
<1>1. Len(b) \in Nat /\ Len(b) < 65536
  BY SMT DEF WordMod, ByteMod
<1>2. n \in Nat /\ n <= 32767
  BY <1>1, SMT
<1>3. SumOfWords(b) \in Nat /\ SumOfWords(b) <= 65535 * n
  BY SumRange
<1> HIDE DEF n
<1> QED
  BY <1>2, <1>3, SMT

(* The elements of two sequences put together.                             *)
Joined(c, a, b) ==
  /\ c \in Seq(Byte) /\ Len(c) = Len(a) + Len(b)
  /\ \A i \in 1..Len(a) : c[i] = a[i]
  /\ \A i \in 1..Len(b) : c[Len(a) + i] = b[i]

(* What \o gives.                                                          *)
LEMMA Parts ==
  ASSUME NEW a \in Seq(Byte), NEW b \in Seq(Byte), NEW c, c = a \o b
  PROVE  Joined(c, a, b)
BY SMTT(30) DEF Joined

(* The reply's message is as long as the request's, and its checksum still *)
(* zero; from byte 5 to 8 it is the request's, and then as its frame.      *)
EchoShape(bare, req, payload) ==
  /\ bare \in Seq(Byte) /\ Len(bare) = Len(req.message)
  /\ bare[3] = 0 /\ bare[4] = 0
  /\ \A i \in 5..8 : bare[i] = req.message[i]
  /\ \A i \in 9..Len(req.message) : bare[i] = payload[i]

(* EchoMessage has that shape.                                             *)
LEMMA MessageShape ==
  ASSUME NEW type \in Byte, NEW code \in Byte, NEW req,
         req.message \in Seq(Byte), Len(req.message) >= 8,
         NEW payload \in Seq(Byte), Len(payload) >= Len(req.message)
  PROVE  EchoShape(EchoMessage(type, code, req, payload), req, payload)
<1> DEFINE n == Len(req.message)
           a == <<type, code, 0, 0>>
           b == SubSeq(req.message, 5, 8)
           c == SubSeq(payload, 9, n)
           bare == EchoMessage(type, code, req, payload)
<1>0. n \in Nat /\ n >= 8 /\ 0 \in Byte
  <2>1. 0 \in Byte
    BY IsByte
  <2> QED
    BY <2>1
<1>1. a \in Seq(Byte) /\ Len(a) = 4 /\ a[3] = 0 /\ a[4] = 0
  BY <1>0
<1>2. b \in Seq(Byte) /\ Len(b) = 4 /\ \A i \in 1..4 : b[i] = req.message[i + 4]
  BY <1>0
<1>3. c \in Seq(Byte) /\ Len(c) = n - 8 /\ \A i \in 1..n - 8 : c[i] = payload[i + 8]
  BY <1>0
<1>4. bare = a \o b \o c
  BY DEF EchoMessage
<1> HIDE DEF n, a, b, c, bare
<1> DEFINE ab == a \o b
<1>a. bare = ab \o c
  BY <1>4
<1>b. ab = a \o b
  OBVIOUS
<1> HIDE DEF ab
<1>5. /\ ab \in Seq(Byte) /\ Len(ab) = 8
      /\ \A i \in 1..4 : ab[i] = a[i]
      /\ \A i \in 1..4 : ab[4 + i] = b[i]
  <2>1. Joined(ab, a, b)
    BY Zenon, <1>1, <1>2, <1>b, Parts
  <2> QED
    BY SMTT(30), <1>1, <1>2, <2>1 DEF Joined
<1>6. /\ bare \in Seq(Byte) /\ Len(bare) = n
      /\ \A i \in 1..8 : bare[i] = ab[i]
      /\ \A i \in 1..n - 8 : bare[8 + i] = c[i]
  <2>1. Joined(bare, ab, c)
    BY ZenonT(30), <1>3, <1>a, <1>5, Parts
  <2> QED
    BY <1>0, <1>3, <1>5, <2>1 DEF Joined
<1>7. bare[3] = 0 /\ bare[4] = 0
  <2>1. bare[3] = ab[3] /\ bare[4] = ab[4] /\ ab[3] = a[3] /\ ab[4] = a[4]
    BY <1>5, <1>6
  <2> QED
    BY <1>1, <2>1
<1>8. ASSUME NEW i \in 5..8
      PROVE  bare[i] = req.message[i]
  <2>1. i - 4 \in 1..4 /\ (i - 4) + 4 = i /\ 4 + (i - 4) = i /\ i \in 1..8
    OBVIOUS
  <2>2. bare[i] = ab[i] /\ ab[4 + (i - 4)] = b[i - 4]
    BY SMTT(30), <1>5, <1>6, <2>1
  <2>3. b[i - 4] = req.message[(i - 4) + 4]
    BY SMTT(30), <1>2, <2>1
  <2> QED
    BY <2>1, <2>2, <2>3
<1>9. ASSUME NEW i \in 9..n
      PROVE  bare[i] = payload[i]
  <2>1. i - 8 \in 1..n - 8 /\ (i - 8) + 8 = i /\ 8 + (i - 8) = i
    BY <1>0
  <2>2. bare[8 + (i - 8)] = c[i - 8]
    BY SMTT(30), <1>6, <2>1
  <2>3. c[i - 8] = payload[(i - 8) + 8]
    BY SMTT(30), <1>3, <2>1
  <2> QED
    BY <2>1, <2>2, <2>3
<1> QED
  BY ZenonT(30), <1>6, <1>7, <1>8, <1>9 DEF bare, n, EchoShape

(* The IPv4 header of a reply, before it has its checksum.                 *)
LEMMA Ipv4HeaderShape ==
  ASSUME NEW length \in Nat, length < WordMod,
         NEW src \in Seq(Byte), Len(src) = 4, NEW dest \in Seq(Byte), Len(dest) = 4,
         NEW header, header = generate_ipv4_header(length, 1, src, dest)
  PROVE  /\ header \in Seq(Byte) /\ Len(header) = 20 /\ header[1] = 69
         /\ header[3] = Hi(length) /\ header[4] = Lo(length)
         /\ header[11] = 0 /\ header[12] = 0
<1> DEFINE h == Hi(length)
           l == Lo(length)
           a == <<69, 0, h, l, 0, 0, 64, 0, 64, 1, 0, 0>>
           b == a \o src
<1>1. h \in Byte /\ l \in Byte
  BY TwoBytes
<1>2. 0 \in Byte /\ 1 \in Byte /\ 64 \in Byte /\ 69 \in Byte
  BY IsByte
<1>3. header = b \o dest
  BY DEF generate_ipv4_header
<1> HIDE DEF h, l
<1>4. /\ a \in Seq(Byte) /\ Len(a) = 12 /\ a[1] = 69 /\ a[3] = h /\ a[4] = l
      /\ a[11] = 0 /\ a[12] = 0
  BY <1>1, <1>2
<1>5. b = a \o src
  OBVIOUS
<1> HIDE DEF a, b
<1>6. Joined(b, a, src)
  BY Zenon, <1>4, <1>5, Parts
<1>7. b \in Seq(Byte) /\ Len(b) = 16 /\ \A i \in 1..12 : b[i] = a[i]
  BY <1>4, <1>6 DEF Joined
<1>8. Joined(header, b, dest)
  BY Zenon, <1>3, <1>7, Parts
<1>9. header \in Seq(Byte) /\ Len(header) = 20 /\ \A i \in 1..16 : header[i] = b[i]
  BY <1>7, <1>8 DEF Joined
<1>10. ASSUME NEW i \in 1..12
       PROVE  header[i] = a[i]
  <2>1. i \in 1..16
    OBVIOUS
  <2> QED
    BY Zenon, <1>7, <1>9, <2>1
<1>11. /\ header[1] = a[1] /\ header[3] = a[3] /\ header[4] = a[4]
       /\ header[11] = a[11] /\ header[12] = a[12]
  BY <1>10
<1> QED
  BY <1>4, <1>9, <1>11 DEF h, l

(* A multiple that is not zero is complete.                                *)
LEMMA CompleteIs ==
  ASSUME NEW s, NEW m \in Nat \ {0}, s = 65535 * m
  PROVE  Complete(s)
BY DEF Complete

(* What is left of a complete sum without a complete part is complete.     *)
LEMMA CompleteRest ==
  ASSUME NEW a \in Nat, NEW b \in Nat, a > 0, Complete(b + a), Complete(b)
  PROVE  Complete(a)
<1>1. PICK m \in Nat \ {0} : b + a = 65535 * m
  BY DEF Complete
<1>2. PICK n \in Nat \ {0} : b = 65535 * n
  BY DEF Complete
<1>3. a = 65535 * (m - n)
  BY <1>1, <1>2, SMT
<1> DEFINE k == m - n
<1>4. k \in Nat \ {0}
  BY <1>3, SMT
<1>5. a = 65535 * k
  BY SMTT(30), <1>3
<1> HIDE DEF k
<1> QED
  BY <1>4, <1>5, CompleteIs

(* The reply to an IPv4 echo request: both checksums complete their sums,  *)
(* the message is as long as the request's, and bytes 5 to 8 are its own.  *)
LEMMA V4Reply ==
  ASSUME NEW req \in V4Requests, NEW reply, reply = Icmpv4InLocal(req)
  PROVE  /\ reply.header \in Seq(Byte) /\ Len(reply.header) = 20
         /\ Complete(SumOfWords(reply.header))
         /\ reply.header[3] = Hi(Ipv4Length(req))
         /\ reply.header[4] = Lo(Ipv4Length(req))
         /\ reply.message \in Seq(Byte) /\ Len(reply.message) = Len(req.message)
         /\ Complete(SumOfWords(reply.message))
         /\ \A i \in 5..8 : reply.message[i] = req.message[i]
         /\ \A i \in 9..Len(req.message) :
              reply.message[i] = (req.options \o req.message)[i]
<1> DEFINE payload == req.options \o req.message
           n == Len(req.message)
           bare == EchoMessage(0, 0, req, payload)
           message == WithChecksum(bare, Checksum(SumOfWords(bare)))
           header == generate_ipv4_header(Ipv4Length(req), 1, req.dest, req.src)
           both == header \o message
           s == SumOfWords(both)
           final == [header EXCEPT ![11] = Hi(Checksum(s)), ![12] = Lo(Checksum(s))]
<1>1. /\ req.options \in Seq(Byte) /\ req.message \in Seq(Byte)
      /\ req.src \in Seq(Byte) /\ Len(req.src) = 4
      /\ req.dest \in Seq(Byte) /\ Len(req.dest) = 4
      /\ Len(req.message) >= 8 /\ Ipv4Length(req) < WordMod
  BY Zenon, EchoAssumption
<1>2. reply.header = final /\ reply.message = message
  BY DEF Icmpv4InLocal
<1>3. /\ n \in Nat /\ n >= 8 /\ Ipv4Length(req) \in Nat /\ 20 + n <= Ipv4Length(req)
      /\ payload \in Seq(Byte) /\ Len(payload) >= n
  <2>1. Len(req.options) \in Nat /\ n \in Nat /\ n >= 8
    BY <1>1
  <2>2. Joined(payload, req.options, req.message)
    BY Zenon, <1>1, Parts
  <2>3. payload \in Seq(Byte) /\ Len(payload) = Len(req.options) + n
    BY <2>2 DEF Joined
  <2> HIDE DEF n, payload
  <2>4. Ipv4Length(req) = 20 + Len(req.options) + n
    BY DEF Ipv4Length, n
  <2> QED
    BY <2>1, <2>3, <2>4
<1>4. 20 + n < WordMod /\ n < WordMod /\ WordMod = 65536
  <2>1. WordMod = 65536
    BY SMTT(30) DEF WordMod, ByteMod
  <2> QED
    BY <1>1, <1>3, <2>1, SMT
<1> HIDE DEF payload
<1>5. /\ bare \in Seq(Byte) /\ Len(bare) = n /\ bare[3] = 0 /\ bare[4] = 0
      /\ \A i \in 5..8 : bare[i] = req.message[i]
      /\ \A i \in 9..n : bare[i] = payload[i]
  <2>1. 0 \in Byte
    BY IsByte
  <2>2. EchoShape(bare, req, payload)
    BY SMTT(30), <1>1, <1>3, <2>1, MessageShape
  <2> QED
    BY <2>2 DEF EchoShape
<1>6. message = Stored(bare, 2, Checksum(SumOfWords(bare)))
  BY DEF WithChecksum, Stored
<1>7. final = Stored(header, 6, Checksum(s))
  BY SMTT(30) DEF Stored
<1> HIDE DEF bare, message, n
<1>8. /\ message \in Seq(Byte) /\ Len(message) = n
      /\ \A i \in 1..n : i # 3 /\ i # 4 => message[i] = bare[i]
      /\ Complete(SumOfWords(message))
  <2> DEFINE t == SumOfWords(bare)
  <2>1. t \in Nat /\ t <= 65535 * 32767
    BY SMTT(30), <1>4, <1>5, SumFits
  <2>2. t = 0 + t /\ t < WordMod * WordMod
    BY SMTT(30), <1>4, <2>1
  <2>3. 2 \in 1..(Len(bare) \div 2)
    BY SMTT(30), <1>3, <1>5
  <2>4. bare[2 * 2 - 1] = 0 /\ bare[2 * 2] = 0
    BY <1>5
  <2>a. bare \in Seq(Byte) /\ 0 \in Nat
    BY SMTT(30), <1>5
  <2>5. OtherKept(bare, message, 2) /\ Complete(0 + SumOfWords(message))
    BY SMTT(30), <1>6, <2>a, <2>2, <2>3, <2>4, ChecksumStored
  <2>b. /\ message \in Seq(Byte) /\ Len(message) = n
        /\ \A i \in 1..n : i # 3 /\ i # 4 => message[i] = bare[i]
    BY SMTT(30), <1>5, <2>5 DEF OtherKept
  <2>6. 0 + SumOfWords(message) = SumOfWords(message)
    BY SMTT(30), <2>b, SumRange
  <2> QED
    BY SMTT(30), <2>b, <2>5, <2>6
<1>9. /\ header \in Seq(Byte) /\ Len(header) = 20 /\ header[1] = 69
      /\ header[3] = Hi(Ipv4Length(req)) /\ header[4] = Lo(Ipv4Length(req))
      /\ header[11] = 0 /\ header[12] = 0
  <2>1. header = generate_ipv4_header(Ipv4Length(req), 1, req.dest, req.src)
    OBVIOUS
  <2> HIDE DEF header
  <2> QED
    BY SMTT(30), <1>1, <1>3, <2>1, Ipv4HeaderShape
<1> HIDE DEF header
<1>10. /\ both \in Seq(Byte) /\ Len(both) = 20 + n
       /\ s = SumOfWords(header) + SumOfWords(message)
  <2>1. Joined(both, header, message)
    BY Zenon, <1>8, <1>9, Parts
  <2>2. both \in Seq(Byte) /\ Len(both) = 20 + n
    BY <1>8, <1>9, <2>1 DEF Joined
  <2>3. SumOfWords(header \o message) = SumOfWords(header) + SumOfWords(message)
    <3>1. 10 \in Nat /\ Len(header) = 2 * 10
      BY <1>9
    <3> QED
      BY ZenonT(30), <1>8, <1>9, <3>1, SumOfParts
  <2> QED
    BY <2>2, <2>3
<1> HIDE DEF both
<1>11. s \in Nat /\ s < WordMod * WordMod
  <2>1. s \in Nat /\ s <= 65535 * 32767
    BY SMTT(30), <1>4, <1>10, SumFits
  <2> QED
    BY <1>4, <2>1, SMT
<1> HIDE DEF s, final
<1>12. /\ final \in Seq(Byte) /\ Len(final) = 20
       /\ \A i \in 1..20 : i # 11 /\ i # 12 => final[i] = header[i]
       /\ Complete(SumOfWords(message) + SumOfWords(final))
  <2>1. SumOfWords(message) \in Nat /\ SumOfWords(header) \in Nat
    BY <1>8, <1>9, SumRange
  <2>2. s = SumOfWords(message) + SumOfWords(header)
    BY <1>10, <2>1
  <2>3. 6 \in 1..(Len(header) \div 2) /\ header[2 * 6 - 1] = 0 /\ header[2 * 6] = 0
    BY <1>9
  <2>a. header \in Seq(Byte) /\ s < WordMod * WordMod
    BY SMTT(30), <1>9, <1>11
  <2>4. /\ OtherKept(header, final, 6)
        /\ Complete(SumOfWords(message) + SumOfWords(final))
    BY SMTT(30), <1>7, <2>a, <2>1, <2>2, <2>3, ChecksumStored
  <2> QED
    BY <1>9, <2>4 DEF OtherKept
<1>13. Complete(SumOfWords(final))
  <2>1. SumOfWords(final) \in Nat /\ SumOfWords(message) \in Nat
    BY SMTT(30), <1>8, <1>12, SumRange
  <2>a. final \in Seq(Byte) /\ Len(final) >= 2 /\ 1 \in 1..(Len(final) \div 2)
    BY <1>12
  <2>2. SumOfWords(final) >= Word(final, 1)
    BY <2>a, SumRange
  <2>3. Word(final, 1) > 0
    <3>1. final[2 * 1 - 1] = 69 /\ final[2 * 1] \in Byte
      <4>0. final \in Seq(Byte) /\ 2 \in 1..Len(final)
        BY SMTT(30), <1>12
      <4>1. final[1] = header[1]
        BY <1>12
      <4>3. final[2] \in Byte
        BY <4>0
      <4>2. 2 * 1 - 1 = 1 /\ 2 * 1 = 2
        OBVIOUS
      <4> QED
        BY SMTT(30), <1>9, <4>1, <4>2, <4>3
    <3>2. final[2 * 1] \in Nat
      BY <3>1, ByteRange
    <3> QED
      BY SMTT(30), <3>1, <3>2 DEF Word, ByteMod
  <2>4. Word(final, 1) \in Nat
    BY <2>a, WordRange
  <2>5. SumOfWords(final) > 0
    BY SMTT(30), <2>1, <2>2, <2>3, <2>4
  <2> QED
    BY SMTT(30), <1>8, <1>12, <2>1, <2>5, CompleteRest
<1>14. final[3] = header[3] /\ final[4] = header[4]
  BY SMTT(30), <1>12
<1>15. \A i \in 5..8 : message[i] = req.message[i]
  BY SMTT(30), <1>3, <1>5, <1>8
<1>16. \A i \in 9..n : message[i] = payload[i]
  BY <1>3, <1>5, <1>8
<1> QED
  BY Zenon, <1>2, <1>8, <1>9, <1>12, <1>13, <1>14, <1>15, <1>16 DEF n, payload

(* The fixed source address of an ICMPv6 reply.                            *)
LEMMA SourceShape ==
  ReplySource \in Seq(Byte) /\ Len(ReplySource) = 16
<1>1. 2 \in Byte
  BY IsByte
<1>2. ReplySource \in [1..16 -> Byte] /\ 16 \in Nat
  BY SMTT(30), <1>1 DEF ReplySource
<1> QED
  BY Zenon, <1>2, IsSeq

(* The IPv6 header of a reply.                                             *)
Ipv6Shape(header, length, src, dest) ==
  /\ header \in Seq(Byte) /\ Len(header) = 40
  /\ header[5] = Hi(length) /\ header[6] = Lo(length) /\ header[7] = 58
  /\ \A i \in 1..16 : header[8 + i] = src[i]
  /\ \A i \in 1..16 : header[24 + i] = dest[i]

(* generate_ipv6_header has that shape.                                    *)
LEMMA Ipv6HeaderShape ==
  ASSUME NEW length \in Nat, length < WordMod,
         NEW src \in Seq(Byte), Len(src) = 16, NEW dest \in Seq(Byte), Len(dest) = 16,
         NEW header, header = generate_ipv6_header(length, 58, src, dest)
  PROVE  Ipv6Shape(header, length, src, dest)
<1> DEFINE h == Hi(length)
           l == Lo(length)
           a == <<96, 0, 0, 0, h, l, 58, 128>>
           b == a \o src
<1>1. h \in Byte /\ l \in Byte
  BY TwoBytes
<1>2. 0 \in Byte /\ 58 \in Byte /\ 96 \in Byte /\ 128 \in Byte
  BY IsByte
<1>3. header = b \o dest
  BY DEF generate_ipv6_header
<1> HIDE DEF h, l
<1>4. a \in Seq(Byte) /\ Len(a) = 8 /\ a[5] = h /\ a[6] = l /\ a[7] = 58
  BY <1>1, <1>2
<1>5. b = a \o src
  OBVIOUS
<1> HIDE DEF a, b
<1>6. Joined(b, a, src)
  BY Zenon, <1>4, <1>5, Parts
<1>7. /\ b \in Seq(Byte) /\ Len(b) = 24
      /\ b[5] = h /\ b[6] = l /\ b[7] = 58
      /\ \A i \in 1..16 : b[8 + i] = src[i]
  <2>1. /\ b \in Seq(Byte) /\ Len(b) = 24
        /\ \A i \in 1..8 : b[i] = a[i]
        /\ \A i \in 1..16 : b[8 + i] = src[i]
    BY SMTT(30), <1>4, <1>6 DEF Joined
  <2>2. b[5] = a[5] /\ b[6] = a[6] /\ b[7] = a[7]
    BY <2>1
  <2> QED
    BY SMTT(30), <1>4, <2>1, <2>2
<1>8. Joined(header, b, dest)
  BY Zenon, <1>3, <1>7, Parts
<1>9. /\ header \in Seq(Byte) /\ Len(header) = 40
      /\ \A i \in 1..24 : header[i] = b[i]
      /\ \A i \in 1..16 : header[24 + i] = dest[i]
  BY <1>7, <1>8 DEF Joined
<1>10. header[5] = h /\ header[6] = l /\ header[7] = 58
  <2>1. header[5] = b[5] /\ header[6] = b[6] /\ header[7] = b[7]
    BY <1>9
  <2> QED
    BY SMTT(30), <1>7, <2>1
<1>11. ASSUME NEW i \in 1..16
       PROVE  header[8 + i] = src[i]
  <2>1. 8 + i \in 1..24
    OBVIOUS
  <2>2. header[8 + i] = b[8 + i]
    BY Zenon, <1>9, <2>1
  <2> QED
    BY Zenon, <1>7, <2>2
<1> QED
  BY <1>9, <1>10, <1>11 DEF Ipv6Shape, h, l

(* The sum of eight bytes is that of their four words.                     *)
LEMMA SumOfFour ==
  ASSUME NEW b \in Seq(Byte), Len(b) = 8
  PROVE  SumOfWords(b) = Word(b, 1) + Word(b, 2) + Word(b, 3) + Word(b, 4)
<1>1. Len(b) \div 2 = 4
  OBVIOUS
<1>2. PICK t : RunningSum(t, b) /\ SumOfWords(b) = t[4]
  BY Zenon, <1>1, SumIs
<1>3. t[0] = 0 /\ \A k \in 1..4 : t[k] = t[k - 1] + Word(b, k)
  BY <1>1, <1>2 DEF RunningSum
<1>a. \A k \in 1..(Len(b) \div 2) : Word(b, k) \in Nat
  BY WordsNat, Zenon
<1>4. \A k \in 1..4 : Word(b, k) \in Nat
  BY <1>1, <1>a
<1>5. /\ Word(b, 1) \in Nat /\ Word(b, 2) \in Nat
      /\ Word(b, 3) \in Nat /\ Word(b, 4) \in Nat
  BY <1>4
<1>6. /\ t[1] = t[0] + Word(b, 1) /\ t[2] = t[1] + Word(b, 2)
      /\ t[3] = t[2] + Word(b, 3) /\ t[4] = t[3] + Word(b, 4)
  <2>1. 1 - 1 = 0 /\ 2 - 1 = 1 /\ 3 - 1 = 2 /\ 4 - 1 = 3
    OBVIOUS
  <2> QED
    BY <1>3, <2>1
<1> QED
  BY <1>2, <1>3, <1>5, <1>6

(* The pseudo header sums up to what the code adds for it.                 *)
LEMMA PseudoHeaderSum ==
  ASSUME NEW reply, NEW length \in Nat, length < WordMod,
         NEW dest \in Seq(Byte), Len(dest) = 16,
         Ipv6Shape(reply.header, length, ReplySource, dest)
  PROVE  /\ PseudoHeader(reply) \in Seq(Byte) /\ Len(PseudoHeader(reply)) = 40
         /\ SumOfWords(PseudoHeader(reply)) = PseudoSum(dest, length)
<1> DEFINE header == reply.header
           h == Hi(length)
           l == Lo(length)
           a == SubSeq(header, 9, 40)
           c == ReplySource \o dest
           b == <<0, 0, h, l, 0, 0, 0, 58>>
           pseudo == a \o b
<1>1. h \in Byte /\ l \in Byte /\ h * ByteMod + l = length
  BY TwoBytes
<1>2. 0 \in Byte /\ 58 \in Byte
  BY SMTT(30), IsByte
<1>3. /\ header \in Seq(Byte) /\ Len(header) = 40
      /\ header[5] = h /\ header[6] = l /\ header[7] = 58
      /\ \A i \in 1..16 : header[8 + i] = ReplySource[i]
      /\ \A i \in 1..16 : header[24 + i] = dest[i]
  BY SMTT(30) DEF Ipv6Shape
<1>4. PseudoHeader(reply) = pseudo
  BY <1>3 DEF PseudoHeader
<1>5. a \in Seq(Byte) /\ Len(a) = 32 /\ \A i \in 1..32 : a[i] = header[8 + i]
  <2>1. header \in Seq(Byte) /\ Len(header) = 40
    BY <1>3
  <2>2. a = SubSeq(header, 8 + 1, 8 + 32) /\ 8 \in Nat /\ 32 \in Nat
    OBVIOUS
  <2> HIDE DEF header, a
  <2>3. 8 + 32 <= Len(header)
    BY <2>1
  <2>4. IsPart(SubSeq(header, 8 + 1, 8 + 32), header, 8, 32)
    BY ZenonT(30), <2>1, <2>2, <2>3, PartOf
  <2>5. IsPart(a, header, 8, 32)
    BY <2>2, <2>4, Zenon
  <2> QED
    BY <2>5, Zenon DEF IsPart
<1> HIDE DEF h, l
<1>6. /\ b \in Seq(Byte) /\ Len(b) = 8
      /\ b[1] = 0 /\ b[2] = 0 /\ b[3] = h /\ b[4] = l
      /\ b[5] = 0 /\ b[6] = 0 /\ b[7] = 0 /\ b[8] = 58
  BY <1>1, <1>2
<1>p. pseudo = a \o b /\ c = ReplySource \o dest
  OBVIOUS
<1> HIDE DEF header, a, b, c, pseudo
<1>7. /\ c \in Seq(Byte) /\ Len(c) = 32
      /\ \A i \in 1..16 : c[i] = ReplySource[i]
      /\ \A i \in 1..16 : c[16 + i] = dest[i]
  <2>1. Joined(c, ReplySource, dest)
    BY Zenon, <1>p, SourceShape, Parts
  <2> QED
    BY <2>1, SourceShape DEF Joined
<1>8. a = c
  <2>1. ASSUME NEW i \in 1..32
        PROVE  a[i] = c[i]
    <3>1. a[i] = header[8 + i]
      BY Zenon, <1>5
    <3>2. CASE i <= 16
      <4>1. i \in 1..16
        BY <3>2
      <4> QED
        BY ZenonT(30), <1>3, <1>7, <3>1, <4>1
    <3>3. CASE i > 16
      <4> DEFINE k == i - 16
      <4>1. k \in 1..16 /\ i = 16 + k /\ 8 + i = 24 + k
        BY <3>3
      <4> HIDE DEF k
      <4>2. header[24 + k] = dest[k] /\ c[16 + k] = dest[k]
        BY Zenon, <1>3, <1>7, <4>1
      <4> QED
        BY <3>1, <4>1, <4>2
    <3>4. i <= 16 \/ i > 16
      OBVIOUS
    <3> QED
      BY <3>2, <3>3, <3>4
  <2>2. a \in Seq(Byte) /\ c \in Seq(Byte) /\ Len(a) = Len(c)
    BY <1>5, <1>7
  <2>3. \A i \in 1..Len(a) : a[i] = c[i]
    BY Zenon, <1>5, <2>1
  <2> QED
    BY SMTT(30), <2>2, <2>3, SameSeq
<1>9. SumOfWords(a) = SumOfWords(ReplySource) + SumOfWords(dest)
  <2>1. 8 \in Nat /\ Len(ReplySource) = 2 * 8
    BY SourceShape
  <2>2. SumOfWords(ReplySource \o dest) = SumOfWords(ReplySource) + SumOfWords(dest)
    BY ZenonT(30), <2>1, SourceShape, SumOfParts
  <2> QED
    BY <1>8, <1>p, <2>2
<1>10. SumOfWords(b) = length + 58
  <2>1. SumOfWords(b) = Word(b, 1) + Word(b, 2) + Word(b, 3) + Word(b, 4)
    BY SMTT(30), <1>6, SumOfFour
  <2>2. /\ Word(b, 1) = 0 /\ Word(b, 2) = h * ByteMod + l
        /\ Word(b, 3) = 0 /\ Word(b, 4) = 58
    <3>1. /\ 2 * 1 - 1 = 1 /\ 2 * 1 = 2 /\ 2 * 2 - 1 = 3 /\ 2 * 2 = 4
          /\ 2 * 3 - 1 = 5 /\ 2 * 3 = 6 /\ 2 * 4 - 1 = 7 /\ 2 * 4 = 8
      OBVIOUS
    <3>2. 0 * ByteMod + 0 = 0 /\ 0 * ByteMod + 58 = 58
      BY SMT DEF ByteMod
    <3> QED
      BY SMTT(30), <1>6, <3>1, <3>2 DEF Word
  <2> QED
    BY SMTT(30), <1>1, <2>1, <2>2
<1>11. pseudo \in Seq(Byte) /\ Len(pseudo) = 40
  <2>1. Joined(pseudo, a, b)
    BY Zenon, <1>5, <1>6, <1>p, Parts
  <2> QED
    BY SMTT(30), <1>5, <1>6, <2>1 DEF Joined
<1>12. SumOfWords(pseudo) = SumOfWords(a) + SumOfWords(b)
  <2>1. 16 \in Nat /\ Len(a) = 2 * 16
    BY <1>5
  <2>2. SumOfWords(a \o b) = SumOfWords(a) + SumOfWords(b)
    BY ZenonT(30), <1>5, <1>6, <2>1, SumOfParts
  <2> QED
    BY <1>p, <2>2
<1>13. SumOfWords(pseudo) = PseudoSum(dest, length)
  <2>1. SumOfWords(ReplySource) \in Nat /\ SumOfWords(dest) \in Nat
    BY SMTT(30), SourceShape, SumRange
  <2> QED
    BY SMTT(30), <1>9, <1>10, <1>12, <2>1 DEF PseudoSum
<1> QED
  BY SMTT(30), <1>4, <1>11, <1>13

(* The reply to an IPv6 echo request: its checksum completes the sum of    *)
(* the pseudo header and the message, which is the request's from byte 5.  *)
LEMMA V6Reply ==
  ASSUME NEW req \in V6Requests, NEW reply, reply = Icmpv6InLocal(req)
  PROVE  /\ Ipv6Shape(reply.header, Len(req.message), ReplySource, req.src)
         /\ reply.message \in Seq(Byte) /\ Len(reply.message) = Len(req.message)
         /\ Complete(PseudoSum(req.src, Len(req.message)) + SumOfWords(reply.message))
         /\ \A i \in 5..Len(req.message) : reply.message[i] = req.message[i]
<1> DEFINE n == Len(req.message)
           code == req.message[2]
           bare == EchoMessage(129, code, req, req.message)
           x == PseudoSum(req.src, n)
           s == x + SumOfWords(bare)
           message == WithChecksum(bare, Checksum(s))
           header == generate_ipv6_header(n, 58, ReplySource, req.src)
<1>1. /\ req.message \in Seq(Byte) /\ req.src \in Seq(Byte) /\ Len(req.src) = 16
      /\ n >= 8 /\ n < WordMod
  BY SMTT(30), EchoAssumption
<1>2. reply.header = header /\ reply.message = message
  BY ZenonT(30) DEF Icmpv6InLocal
<1>3. n \in Nat
  BY <1>1
<1>4. code \in Byte
  BY <1>1, <1>3
<1>5. Ipv6Shape(header, n, ReplySource, req.src)
  <2>1. header = generate_ipv6_header(n, 58, ReplySource, req.src)
    OBVIOUS
  <2> HIDE DEF header, n
  <2> QED
    BY SMTT(30), <1>1, <1>3, <2>1, SourceShape, Ipv6HeaderShape
<1> HIDE DEF code, header
<1>6. EchoShape(bare, req, req.message)
  <2>1. 129 \in Byte /\ Len(req.message) >= Len(req.message)
    BY SMTT(30), <1>3, IsByte
  <2> QED
    BY SMTT(30), <1>1, <1>4, <2>1, MessageShape
<1>7. message = Stored(bare, 2, Checksum(s))
  BY SMTT(30) DEF WithChecksum, Stored
<1> HIDE DEF bare
<1>8. /\ bare \in Seq(Byte) /\ Len(bare) = n /\ bare[3] = 0 /\ bare[4] = 0
      /\ \A i \in 5..8 : bare[i] = req.message[i]
      /\ \A i \in 9..n : bare[i] = req.message[i]
  BY <1>6 DEF EchoShape
<1> HIDE DEF n, message
<1>9. x \in Nat /\ s < WordMod * WordMod
  <2> DEFINE p == SumOfWords(ReplySource)
             q == SumOfWords(req.src)
             r == SumOfWords(bare)
  <2>1. WordMod = 65536
    BY SMTT(30) DEF WordMod, ByteMod
  <2>2. r \in Nat /\ r <= 65535 * 32767
    BY SMTT(30), <1>1, <1>8, SumFits
  <2>3. p \in Nat /\ p <= WordMod * 8
    BY SourceShape, AddressSum
  <2>4. q \in Nat /\ q <= WordMod * 8
    BY <1>1, AddressSum
  <2>5. x = p + q + n + 58
    BY DEF PseudoSum
  <2> HIDE DEF p, q, r, x
  <2>6. s = x + r
    BY DEF r
  <2> HIDE DEF s
  <2>7. x \in Nat
    BY SMTT(30), <1>3, <2>3, <2>4, <2>5
  <2>8. s < 65536 * 65536
    BY SMTT(30), <1>1, <1>3, <2>1, <2>2, <2>3, <2>4, <2>5, <2>6
  <2> QED
    BY <2>1, <2>7, <2>8
<1> HIDE DEF x
<1>10. OtherKept(bare, message, 2) /\ Complete(x + SumOfWords(message))
  <2>1. s = x + SumOfWords(bare)
    OBVIOUS
  <2> HIDE DEF s
  <2>2. 2 \in 1..(Len(bare) \div 2)
    BY SMTT(30), <1>1, <1>3, <1>8
  <2>3. bare[2 * 2 - 1] = 0 /\ bare[2 * 2] = 0
    BY <1>8
  <2>4. bare \in Seq(Byte)
    BY SMTT(30), <1>8
  <2> QED
    BY SMTT(30), <1>7, <1>9, <2>1, <2>2, <2>3, <2>4, ChecksumStored
<1>11. /\ message \in Seq(Byte) /\ Len(message) = n
       /\ \A i \in 1..n : i # 3 /\ i # 4 => message[i] = bare[i]
  BY SMTT(30), <1>8, <1>10 DEF OtherKept
<1>12. ASSUME NEW i \in 5..n
       PROVE  message[i] = req.message[i]
  <2>1. i \in 1..n /\ i # 3 /\ i # 4 /\ (i \in 5..8 \/ i \in 9..n)
    BY <1>3
  <2>2. message[i] = bare[i]
    BY SMTT(30), <1>11, <2>1
  <2>3. bare[i] = req.message[i]
    BY SMTT(30), <1>8, <2>1
  <2> QED
    BY <2>2, <2>3
<1> QED
  BY SMTT(30), <1>2, <1>5, <1>10, <1>11, <1>12 DEF n, x

(* Two messages that agree from byte 5 on carry the same data.             *)
LEMMA SameData ==
  ASSUME NEW b \in Seq(Byte), NEW c \in Seq(Byte), Len(b) = Len(c), Len(b) >= 8,
         \A i \in 5..Len(b) : b[i] = c[i]
  PROVE  SubSeq(b, 5, Len(b)) = SubSeq(c, 5, Len(c))
<1> DEFINE n == Len(b) - 4
<1>1. n \in Nat /\ 4 \in Nat /\ 4 + n = Len(b) /\ 4 + 1 = 5
  OBVIOUS
<1> HIDE DEF n
<1>2. /\ IsPart(SubSeq(b, 4 + 1, 4 + n), b, 4, n)
      /\ IsPart(SubSeq(c, 4 + 1, 4 + n), c, 4, n)
  <2>1. 4 + n <= Len(b) /\ 4 + n <= Len(c)
    BY SMTT(30), <1>1
  <2> QED
    BY SMTT(30), <1>1, <2>1, PartOf
<1> DEFINE p == SubSeq(b, 5, Len(b))
           q == SubSeq(c, 5, Len(c))
<1>3. IsPart(p, b, 4, n) /\ IsPart(q, c, 4, n)
  BY SMTT(30), <1>1, <1>2
<1> HIDE DEF p, q
<1>4. /\ p \in Seq(Byte) /\ q \in Seq(Byte) /\ Len(p) = n /\ Len(q) = n
      /\ \A i \in 1..n : p[i] = b[4 + i] /\ q[i] = c[4 + i]
  BY SMTT(30), <1>3 DEF IsPart
<1>5. \A i \in 1..Len(p) : p[i] = q[i]
  <2> TAKE i \in 1..Len(p)
  <2>1. 4 + i \in 5..Len(b) /\ i \in 1..n
    BY SMTT(30), <1>1, <1>4
  <2>2. b[4 + i] = c[4 + i]
    BY SMTT(30), <2>1
  <2> QED
    BY SMTT(30), <1>4, <2>1, <2>2
<1>6. p = q
  BY SMTT(30), <1>4, <1>5, SameSeq
<1> QED
  BY <1>6 DEF p, q

(* The checksums of an echo reply verify, whatever the bytes and the       *)
(* lengths of the request: that of the IPv4 header, that of an ICMP        *)
(* message of even length, and that of an ICMPv6 message of even length    *)
(* with its pseudo header.                                                 *)
THEOREM RepliesVerify == ReplyVerifies
<1>1. ASSUME request \in V4Requests
      PROVE  LET reply == Icmpv4InLocal(request)
             IN  /\ Verifies(reply.header)
                 /\ Len(request.message) % 2 = 0 => Verifies(reply.message)
  <2> DEFINE reply == Icmpv4InLocal(request)
  <2>1. reply = Icmpv4InLocal(request)
    OBVIOUS
  <2> HIDE DEF reply
  <2>2. /\ reply.header \in Seq(Byte) /\ Len(reply.header) = 20
        /\ Complete(SumOfWords(reply.header))
        /\ reply.message \in Seq(Byte) /\ Len(reply.message) = Len(request.message)
        /\ Complete(SumOfWords(reply.message))
    BY Zenon, <1>1, <2>1, V4Reply
  <2>3. Verifies(reply.header)
    <3>1. Len(reply.header) % 2 = 0
      BY <2>2
    <3> QED
      BY Zenon, <2>2, <3>1, CompletedVerifies
  <2>4. Len(request.message) % 2 = 0 => Verifies(reply.message)
    BY ZenonT(30), <2>2, CompletedVerifies
  <2> QED
    BY Zenon, <2>3, <2>4 DEF reply
<1>2. ASSUME request \in V6Requests, Len(request.message) % 2 = 0
      PROVE  LET reply == Icmpv6InLocal(request)
             IN  Verifies(PseudoHeader(reply) \o reply.message)
  <2> DEFINE reply == Icmpv6InLocal(request)
             n == Len(request.message)
             a == PseudoHeader(reply)
             m == reply.message
             c == a \o m
  <2>1. reply = Icmpv6InLocal(request)
    OBVIOUS
  <2>c. c = a \o m
    BY SMTT(30)
  <2> HIDE DEF reply
  <2>2. /\ Ipv6Shape(reply.header, n, ReplySource, request.src)
        /\ m \in Seq(Byte) /\ Len(m) = n
        /\ Complete(PseudoSum(request.src, n) + SumOfWords(m))
    BY SMTT(30), <1>2, <2>1, V6Reply
  <2>3. n \in Nat /\ n < WordMod /\ request.src \in Seq(Byte) /\ Len(request.src) = 16
    BY SMTT(30), <1>2, EchoAssumption
  <2> HIDE DEF n, m
  <2>4. a \in Seq(Byte) /\ Len(a) = 40 /\ SumOfWords(a) = PseudoSum(request.src, n)
    BY SMTT(30), <2>2, <2>3, PseudoHeaderSum
  <2> HIDE DEF a, c
  <2>5. c \in Seq(Byte) /\ Len(c) = 40 + n
    <3>1. Joined(c, a, m)
      BY Zenon, <2>2, <2>4, <2>c, Parts
    <3> QED
      BY SMTT(30), <2>2, <2>4, <3>1 DEF Joined
  <2>6. SumOfWords(c) = PseudoSum(request.src, n) + SumOfWords(m)
    <3>1. 20 \in Nat /\ Len(a) = 2 * 20
      BY <2>4
    <3>2. SumOfWords(a \o m) = SumOfWords(a) + SumOfWords(m)
      BY Zenon, <2>2, <2>4, <3>1, SumOfParts
    <3> QED
      BY <2>4, <2>c, <3>2
  <2>7. Len(c) % 2 = 0
    <3>1. n % 2 = 0
      BY ZenonT(30), <1>2 DEF n
    <3> QED
      BY <2>3, <2>5, <3>1
  <2>8. Verifies(c)
    BY <2>2, <2>5, <2>6, <2>7, CompletedVerifies
  <2> QED
    BY <2>8 DEF c, a, m, reply
<1> QED
  BY Zenon, <1>1, <1>2 DEF ReplyVerifies

(* An echo reply carries the identifier, the sequence number and the data  *)
(* of the request, and its header the length of what is sent: always over  *)
(* IPv6, and over IPv4 when the request has no options.                    *)
THEOREM DataAlwaysEchoed == DataEchoed
<1>1. ASSUME request \in V4Requests, request.options = <<>>
      PROVE  LET reply == Icmpv4InLocal(request)
             IN  /\ Echoes(reply, request)
                 /\ Word(reply.header, 2) = Len(reply.header) + Len(reply.message)
  <2> DEFINE reply == Icmpv4InLocal(request)
             n == Len(request.message)
  <2>1. reply = Icmpv4InLocal(request)
    OBVIOUS
  <2> HIDE DEF reply
  <2>2. /\ request.message \in Seq(Byte) /\ n \in Nat /\ n >= 8
        /\ Ipv4Length(request) < WordMod
    <3>1. /\ request.message \in Seq(Byte) /\ n >= 8
          /\ Ipv4Length(request) < WordMod
      BY Zenon, <1>1, EchoAssumption
    <3> QED
      BY <3>1
  <2>3. /\ Len(reply.header) = 20 /\ reply.message \in Seq(Byte)
        /\ Len(reply.message) = n
        /\ reply.header[3] = Hi(Ipv4Length(request))
        /\ reply.header[4] = Lo(Ipv4Length(request))
        /\ \A i \in 5..8 : reply.message[i] = request.message[i]
        /\ \A i \in 9..n : reply.message[i] = (request.options \o request.message)[i]
    BY ZenonT(30), <1>1, <2>1, V4Reply
  <2>4. request.options \o request.message = request.message
    BY <1>1, <2>2
  <2>5. Ipv4Length(request) = 20 + n /\ Ipv4Length(request) \in Nat
    <3>1. Len(request.options) = 0
      BY <1>1
    <3> QED
      BY <2>2, <3>1 DEF Ipv4Length
  <2> HIDE DEF n
  <2>6. \A i \in 5..n : reply.message[i] = request.message[i]
    <3> TAKE i \in 5..n
    <3>1. i \in 5..8 \/ i \in 9..n
      BY SMTT(30), <2>2
    <3> QED
      BY SMTT(30), <2>3, <2>4, <3>1
  <2>7. Echoes(reply, request)
    <3>1. /\ Len(reply.message) = Len(request.message) /\ Len(reply.message) >= 8
          /\ \A i \in 5..Len(reply.message) : reply.message[i] = request.message[i]
      BY SMTT(30), <2>2, <2>3, <2>6 DEF n
    <3> QED
      BY SMTT(30), <2>2, <2>3, <3>1, SameData DEF Echoes
  <2>8. Word(reply.header, 2) = 20 + n
    <3>1. Hi(20 + n) * ByteMod + Lo(20 + n) = 20 + n
      BY <2>2, <2>5, TwoBytes
    <3>2. 2 * 2 - 1 = 3 /\ 2 * 2 = 4
      BY SMTT(30)
    <3> QED
      BY SMTT(30), <2>3, <2>5, <3>1, <3>2 DEF Word
  <2> QED
    BY <2>3, <2>7, <2>8 DEF reply
<1>2. ASSUME request \in V6Requests
      PROVE  LET reply == Icmpv6InLocal(request)
             IN  /\ Echoes(reply, request)
                 /\ Word(reply.header, 3) = Len(reply.message)
  <2> DEFINE reply == Icmpv6InLocal(request)
             n == Len(request.message)
  <2>1. reply = Icmpv6InLocal(request)
    OBVIOUS
  <2> HIDE DEF reply
  <2>2. request.message \in Seq(Byte) /\ n \in Nat /\ n >= 8 /\ n < WordMod
    BY SMTT(30), <1>2, EchoAssumption
  <2>3. /\ Ipv6Shape(reply.header, n, ReplySource, request.src)
        /\ reply.message \in Seq(Byte) /\ Len(reply.message) = n
        /\ \A i \in 5..n : reply.message[i] = request.message[i]
    BY SMTT(30), <1>2, <2>1, V6Reply
  <2>4. Echoes(reply, request)
    <3>1. /\ Len(reply.message) = Len(request.message) /\ Len(reply.message) >= 8
          /\ \A i \in 5..Len(reply.message) : reply.message[i] = request.message[i]
      BY <2>2, <2>3
    <3> QED
      BY SMTT(30), <2>2, <2>3, <3>1, SameData DEF Echoes
  <2> HIDE DEF n
  <2>5. Word(reply.header, 3) = n
    <3>1. reply.header[5] = Hi(n) /\ reply.header[6] = Lo(n)
      BY <2>3 DEF Ipv6Shape
    <3>2. Hi(n) * ByteMod + Lo(n) = n
      BY <2>2, TwoBytes
    <3>3. 2 * 3 - 1 = 5 /\ 2 * 3 = 6
      OBVIOUS
    <3> QED
      BY SMTT(30), <3>1, <3>2, <3>3 DEF Word
  <2> QED
    BY SMTT(30), <2>3, <2>4, <2>5 DEF reply
<1> QED
  BY Zenon, <1>1, <1>2 DEF DataEchoed

-----------------------------------------------------------------------------
(* The kernel command line.                                                *)

(* A search returns the first place at or after from where the token       *)
(* stands.                                                                 *)
LEMMA FirstFound ==
  ASSUME NEW line, NEW token, NEW from \in Nat, NEW r \in from..Len(line),
         Len(line) \in Nat, line[r] = token,
         \A q \in from..r - 1 : line[q] # token
  PROVE  find(line, token, from) = r
<1> DEFINE places == {i \in from..Len(line) : line[i] = token}
           first(x) == x \in places /\ \A y \in places : x <= y
<1>1. first(r)
  OBVIOUS
<1>2. ASSUME NEW x, first(x) PROVE x = r
  <2>1. x \in Int /\ r \in Int /\ x <= r /\ r <= x
    BY <1>1, <1>2
  <2> QED
    BY <2>1
<1>3. Min(places) = CHOOSE x : first(x)
  BY SMTT(30) DEF Min
<1>4. find(line, token, from) = IF places = {} THEN 0 ELSE Min(places)
  BY DEF find
<1>5. places # {}
  BY <1>1
<1> HIDE DEF first, places
<1>6. (CHOOSE x : first(x)) = r
  BY <1>1, <1>2, Zenon
<1> QED
  BY SMTT(30), <1>3, <1>4, <1>5, <1>6

(* A search for a token that does not stand there returns none.            *)
LEMMA NoneFound ==
  ASSUME NEW line, NEW token, NEW from,
         \A q \in from..Len(line) : line[q] # token
  PROVE  find(line, token, from) = 0
<1>1. {i \in from..Len(line) : line[i] = token} = {}
  OBVIOUS
<1> QED
  BY <1>1 DEF find

(* What the loop over the key phrases of VirtioMMIO::new does.             *)
KeyLoop(t, line, idx) ==
  /\ t[0] = find(line, KEY, 1)
  /\ \A i \in 1..idx :
       t[i] = IF t[i - 1] = 0 THEN 0 ELSE find(line, KEY, t[i - 1] + 1)
  /\ KeyPlace(line, idx) = t[idx]

(* The recursive function of that loop exists.                             *)
LEMMA KeyLoopRuns ==
  ASSUME NEW line, NEW idx \in Nat
  PROVE  \E t : KeyLoop(t, line, idx)
<1> DEFINE first == find(line, KEY, 1)
           After(x) == IF x = 0 THEN 0 ELSE find(line, KEY, x + 1)
           Is(t, m) == t = [k \in 0..m |-> IF k = 0 THEN first ELSE After(t[k - 1])]
           S == {m \in 0..idx : \E t : Is(t, m)}
           f == CHOOSE t : Is(t, idx)
<1>1. KeyPlace(line, idx) = f[idx]
  BY DEF KeyPlace
<1> HIDE DEF f, After, first
<1>2. Is([k \in 0..0 |-> first], 0) /\ 0 \in 0..idx
  OBVIOUS
<1>3. ASSUME NEW m \in 1..idx, m - 1 \in S
      PROVE  m \in S
  <2>1. PICK t : Is(t, m - 1)
    BY <1>3
  <2> DEFINE u == [k \in 0..m |-> IF k = m THEN After(t[m - 1]) ELSE t[k]]
  <2>2. /\ u[m] = After(t[m - 1]) /\ \A k \in 0..m - 1 : u[k] = t[k]
        /\ u = [k \in 0..m |-> u[k]]
    OBVIOUS
  <2> HIDE DEF u
  <2>3. ASSUME NEW k \in 0..m
        PROVE  u[k] = IF k = 0 THEN first ELSE After(u[k - 1])
    <3>1. CASE k = m
      <4>1. m - 1 \in 0..m - 1 /\ k # 0
        BY <3>1
      <4> QED
        BY Zenon, <2>2, <3>1, <4>1
    <3>2. CASE k = 0
      <4>1. 0 \in 0..m - 1
        OBVIOUS
      <4> QED
        BY SMTT(30), <2>1, <2>2, <3>2, <4>1
    <3>3. CASE k # 0 /\ k # m
      <4>1. k \in 0..m - 1 /\ k - 1 \in 0..m - 1
        BY <3>3
      <4> QED
        BY Zenon, <2>1, <2>2, <3>3, <4>1
    <3> QED
      BY <3>1, <3>2, <3>3
  <2>4. Is(u, m)
    BY Zenon, <2>2, <2>3
  <2> HIDE DEF Is
  <2> QED
    BY <2>4
<1>4. idx \in S
  <2> HIDE DEF Is
  <2>1. 0 \in S
    BY <1>2
  <2> HIDE DEF S
  <2>2. 0..idx \subseteq S
    BY SMTT(30), <1>3, <2>1, SetInduction
  <2> QED
    BY <2>2
<1>5. Is(f, idx)
  BY <1>4, Zenon DEF f
<1>6. f[0] = first /\ \A k \in 1..idx : f[k] = After(f[k - 1])
  BY <1>5
<1> QED
  BY <1>1, <1>6 DEF KeyLoop, first, After

(* The places of the key phrases, and that there are no others.            *)
KeysAt(text, at) ==
  /\ Len(text) \in Nat /\ Len(at) \in Nat
  /\ \A k \in 1..Len(at) : at[k] \in 1..Len(text) /\ text[at[k]] = KEY
  /\ \A j, k \in 1..Len(at) : j < k => at[j] < at[k]
  /\ \A p \in 1..Len(text) : text[p] = KEY => \E k \in 1..Len(at) : at[k] = p

(* The next key phrase after number i - 1, or the first for i = 1.         *)
LEMMA NextKey ==
  ASSUME NEW text, NEW at, KeysAt(text, at), NEW i \in 1..Len(at), NEW from \in Nat,
         from = IF i = 1 THEN 1 ELSE at[i - 1] + 1
  PROVE  find(text, KEY, from) = at[i]
<1>1. at[i] \in 1..Len(text) /\ text[at[i]] = KEY /\ Len(text) \in Nat
  BY DEF KeysAt
<1>2. from >= 1 /\ from <= at[i]
  <2>1. CASE i = 1
    BY <1>1, <2>1
  <2>2. CASE i # 1
    <3>1. i - 1 \in 1..Len(at) /\ i - 1 < i
      BY <2>2 DEF KeysAt
    <3>2. at[i - 1] < at[i] /\ at[i - 1] \in 1..Len(text)
      BY <3>1 DEF KeysAt
    <3> QED
      BY <1>1, <2>2, <3>2
  <2> QED
    BY <2>1, <2>2
<1>3. ASSUME NEW q \in from..at[i] - 1, text[q] = KEY
      PROVE  FALSE
  <2>1. q \in 1..Len(text)
    BY <1>1, <1>2
  <2>2. PICK k \in 1..Len(at) : at[k] = q
    BY <1>3, <2>1 DEF KeysAt
  <2>3. k < i
    <3>1. CASE i < k
      BY <1>1, <2>1, <2>2, <3>1 DEF KeysAt
    <3>2. CASE i = k
      BY <1>1, <2>1, <2>2, <3>2
    <3> QED
      BY <3>1, <3>2 DEF KeysAt
  <2>4. i # 1 /\ i - 1 \in 1..Len(at) /\ k <= i - 1
    BY <2>3 DEF KeysAt
  <2>5. at[k] <= at[i - 1] /\ at[i - 1] \in 1..Len(text)
    <3>1. CASE k < i - 1
      BY SMTT(30), <1>1, <2>4, <3>1 DEF KeysAt
    <3>2. CASE k = i - 1
      BY SMTT(30), <1>1, <2>4, <3>2 DEF KeysAt
    <3> QED
      BY SMTT(30), <2>4, <3>1, <3>2
  <2> QED
    BY SMTT(30), <1>1, <2>1, <2>2, <2>4, <2>5
<1>4. at[i] \in from..Len(text) /\ \A q \in from..at[i] - 1 : text[q] # KEY
  BY <1>1, <1>2, <1>3
<1> QED
  BY <1>1, <1>4, FirstFound

(* There is none after the last.                                           *)
LEMMA NoNextKey ==
  ASSUME NEW text, NEW at, KeysAt(text, at), NEW from \in Nat,
         from = IF Len(at) = 0 THEN 1 ELSE at[Len(at)] + 1
  PROVE  find(text, KEY, from) = 0
<1>1. Len(text) \in Nat /\ Len(at) \in Nat
  BY DEF KeysAt
<1>2. ASSUME NEW q \in from..Len(text), text[q] = KEY
      PROVE  FALSE
  <2>1. from >= 1
    <3>1. CASE Len(at) = 0
      BY <3>1
    <3>2. CASE Len(at) # 0
      <4>1. Len(at) \in 1..Len(at)
        BY <1>1, <3>2
      <4>2. at[Len(at)] \in 1..Len(text)
        BY <4>1 DEF KeysAt
      <4> QED
        BY <3>2, <4>2
    <3> QED
      BY <3>1, <3>2
  <2>2. q \in 1..Len(text)
    BY <1>1, <2>1
  <2>3. PICK k \in 1..Len(at) : at[k] = q
    BY <1>2, <2>2 DEF KeysAt
  <2>4. Len(at) \in 1..Len(at) /\ Len(at) # 0
    BY <1>1, <2>3
  <2>5. at[Len(at)] \in 1..Len(text) /\ at[k] <= at[Len(at)]
    <3>1. at[Len(at)] \in 1..Len(text)
      BY <2>4 DEF KeysAt
    <3>2. CASE k < Len(at)
      <4>1. at[k] < at[Len(at)]
        BY <2>4, <3>2 DEF KeysAt
      <4> QED
        BY SMTT(30), <2>2, <2>3, <3>1, <4>1
    <3>3. CASE k = Len(at)
      BY <3>1, <3>3
    <3> QED
      BY SMTT(30), <1>1, <3>1, <3>2, <3>3
  <2> QED
    BY <1>1, <2>2, <2>3, <2>4, <2>5
<1> QED
  BY <1>2, NoneFound

(* The loop finds the idx-th key phrase, if there are so many.             *)
LEMMA KeyFound ==
  ASSUME NEW text, NEW at, KeysAt(text, at), NEW idx \in Nat
  PROVE  KeyPlace(text, idx) = IF idx < Len(at) THEN at[idx + 1] ELSE 0
<1> DEFINE Place(i) == IF i < Len(at) THEN at[i + 1] ELSE 0
<1>1. PICK t : KeyLoop(t, text, idx)
  BY KeyLoopRuns
<1>2. Len(text) \in Nat /\ Len(at) \in Nat
  BY DEF KeysAt
<1> DEFINE S == {i \in 0..idx : t[i] = Place(i)}
<1>3. 0 \in S
  <2>1. t[0] = find(text, KEY, 1)
    BY <1>1 DEF KeyLoop
  <2>2. CASE Len(at) = 0
    BY <1>2, <2>1, <2>2, NoNextKey
  <2>3. CASE Len(at) # 0
    <3>1. 1 \in 1..Len(at) /\ 0 < Len(at) /\ 0 + 1 = 1 /\ 1 \in Nat
      BY <1>2, <2>3
    <3>2. find(text, KEY, 1) = at[1]
      BY <3>1, NextKey
    <3> QED
      BY <2>1, <3>1, <3>2
  <2> QED
    BY <2>2, <2>3
<1>4. ASSUME NEW i \in 1..idx, i - 1 \in S
      PROVE  i \in S
  <2>1. t[i] = IF t[i - 1] = 0 THEN 0 ELSE find(text, KEY, t[i - 1] + 1)
    BY <1>1 DEF KeyLoop
  <2>2. t[i - 1] = Place(i - 1)
    BY <1>4
  <2>3. CASE i - 1 >= Len(at)
    BY <1>2, <2>1, <2>2, <2>3
  <2>4. CASE i - 1 < Len(at)
    <3>1. i \in 1..Len(at) /\ (i - 1) + 1 = i
      BY <1>2, <2>4
    <3>2. t[i - 1] = at[i] /\ at[i] \in 1..Len(text)
      BY <2>2, <2>4, <3>1 DEF KeysAt
    <3>3. t[i] = find(text, KEY, at[i] + 1) /\ at[i] + 1 \in Nat
      BY <2>1, <3>2
    <3>4. CASE i < Len(at)
      <4>1. i + 1 \in 1..Len(at) /\ i + 1 # 1 /\ (i + 1) - 1 = i
        BY SMTT(30), <1>2, <3>4
      <4>2. find(text, KEY, at[i] + 1) = at[i + 1]
        BY <3>3, <4>1, NextKey
      <4> QED
        BY <3>3, <3>4, <4>2
    <3>5. CASE i = Len(at)
      <4>1. find(text, KEY, at[i] + 1) = 0
        BY SMTT(30), <3>1, <3>3, <3>5, NoNextKey
      <4> QED
        BY SMTT(30), <1>2, <3>3, <3>5, <4>1
    <3> QED
      BY <1>2, <3>1, <3>4, <3>5
  <2> QED
    BY <1>2, <2>3, <2>4
<1> HIDE DEF S
<1>5. 0..idx \subseteq S
  BY SMTT(30), <1>3, <1>4, SetInduction
<1>6. t[idx] = Place(idx)
  BY <1>5 DEF S
<1> QED
  BY <1>1, <1>6 DEF KeyLoop

(* The length and the elements of a sequence.                              *)
LEMMA Elements ==
  ASSUME NEW S, NEW s \in Seq(S)
  PROVE  Len(s) \in Nat /\ \A i \in 1..Len(s) : s[i] \in S
OBVIOUS

(* No token that is searched for stands between places m and n.            *)
PlainBetween(text, m, n) ==
  \A q \in m + 1..n - 1 : text[q] \notin {KEY, AT, COLON, SPACE}

(* The elements of a part of a text.                                       *)
LEMMA PartIs ==
  ASSUME NEW text \in Seq(Token), NEW m \in Nat, NEW n \in Nat
  PROVE  SubSeq(text, m, n) = [i \in 1..n - m + 1 |-> text[i + m - 1]]
OBVIOUS

(* A part of the text that is plain.                                       *)
LEMMA PlainPart ==
  ASSUME NEW text \in Seq(Token), NEW m \in Nat, NEW n \in Nat,
         NEW part \in Seq(Plain), n <= Len(text) + 1,
         SubSeq(text, m + 1, n - 1) = part, NEW l \in Nat, l = Len(part),
         n = m + l + 1
  PROVE  PlainBetween(text, m, n)
<1> SUFFICES ASSUME NEW q \in m + 1..n - 1, text[q] \in {KEY, AT, COLON, SPACE}
             PROVE  FALSE
  BY SMTT(30) DEF PlainBetween
<1>1. /\ q - m \in 1..l /\ (q - m) + (m + 1) - 1 = q /\ (n - 1) - (m + 1) + 1 = l
      /\ n - 1 \in Nat /\ m + 1 \in Nat
  OBVIOUS
<1>2. SubSeq(text, m + 1, n - 1) =
        [i \in 1..(n - 1) - (m + 1) + 1 |-> text[i + (m + 1) - 1]]
  BY <1>1, PartIs, Zenon
<1>3. part[q - m] = text[q]
  BY <1>1, <1>2
<1>4. part[q - m] \in Plain
  BY <1>1, Elements, Zenon
<1> QED
  BY SMTT(30), <1>3, <1>4, CmdLineAssumption

(* A token after a plain part is found from the token before that.         *)
LEMMA NextToken ==
  ASSUME NEW text, Len(text) \in Nat, NEW m \in Nat, NEW n \in Nat, m < n,
         n <= Len(text), PlainBetween(text, m, n),
         NEW token \in {KEY, AT, COLON, SPACE}, text[m] # token, text[n] = token
  PROVE  find(text, token, m) = n
<1>1. n \in m..Len(text) /\ \A q \in m..n - 1 : text[q] # token
  BY DEF PlainBetween
<1> QED
  BY <1>1, FirstFound

(* The places of a description's parts, and what is between them.          *)
Divided(text, p, at, colon, end) ==
  /\ {p, at, colon, end} \subseteq Nat
  /\ 1 <= p /\ p < at /\ at < colon /\ colon < end /\ end <= Len(text) + 1
  /\ text[p] = KEY /\ text[at] = AT /\ text[colon] = COLON
  /\ end <= Len(text) => text[end] = SPACE
  /\ PlainBetween(text, p, at) /\ PlainBetween(text, at, colon)
  /\ PlainBetween(text, colon, end)

(* Where the interrupt's digits end: before a space or the end of the line.*)
TailOf(text, colon) ==
  LET space == find(text, SPACE, colon)
  IN  IF space = 0 THEN Len(text) + 1 ELSE space

(* The searches find them.                                                 *)
LEMMA PartsFound ==
  ASSUME NEW text, Len(text) \in Nat, NEW p, NEW at, NEW colon, NEW end,
         Divided(text, p, at, colon, end)
  PROVE  /\ find(text, AT, p) = at /\ find(text, COLON, at) = colon
         /\ TailOf(text, colon) = end
<1> DEFINE space == find(text, SPACE, colon)
<1>0. TailOf(text, colon) = IF space = 0 THEN Len(text) + 1 ELSE space
  BY SMTT(30) DEF TailOf
<1>1. /\ p \in Nat /\ at \in Nat /\ colon \in Nat /\ end \in Nat
      /\ p < at /\ at < colon /\ colon < end /\ end <= Len(text) + 1
      /\ at <= Len(text) /\ colon <= Len(text)
  BY SMTT(30) DEF Divided
<1>2. text[p] # AT /\ text[at] # COLON /\ text[colon] # SPACE
  BY SMTT(30), CmdLineAssumption DEF Divided
<1>3. find(text, AT, p) = at
  BY SMTT(30), <1>1, <1>2, NextToken DEF Divided
<1>4. find(text, COLON, at) = colon
  BY SMTT(30), <1>1, <1>2, NextToken DEF Divided
<1>5. CASE end <= Len(text)
  <2>1. space = end
    BY SMTT(30), <1>1, <1>2, <1>5, NextToken DEF Divided
  <2> QED
    BY SMTT(30), <1>0, <1>1, <1>3, <1>4, <2>1
<1>6. CASE end = Len(text) + 1
  <2>1. \A q \in colon..Len(text) : text[q] # SPACE
    BY SMTT(30), <1>1, <1>2, <1>6 DEF Divided, PlainBetween
  <2>2. space = 0
    BY <2>1, NoneFound
  <2> QED
    BY SMTT(30), <1>0, <1>3, <1>4, <1>6, <2>2
<1> QED
  BY SMTT(30), <1>1, <1>5, <1>6

(* What VirtioMMIO::new makes of the description of d.                     *)
Answered(d, devices) ==
  IF d.means.addr \notin devices THEN Err("Invalid virtio-mmio device") ELSE d.means

(* The device described at the place of key phrase number idx is the one   *)
(* that is returned.                                                       *)
LEMMA DeviceFound ==
  ASSUME NEW text \in Seq(Token), NEW p \in Nat, 1 <= p, text[p] = KEY,
         NEW d, Describes(text, p, d), NEW idx, KeyPlace(text, idx) = p,
         NEW devices
  PROVE  new(text, idx, devices) = Answered(d, devices)
<1>1. PICK at, colon, end :
        /\ at = p + Len(d.size) + 1 /\ colon = at + Len(d.addr) + 1
        /\ end = colon + Len(d.irq) + 1
  OBVIOUS
<1>2. /\ d.size \in Seq(Plain) /\ d.addr \in Seq(Plain) /\ d.irq \in Seq(Plain)
      /\ end <= Len(text) + 1
      /\ SubSeq(text, p + 1, at - 1) = d.size /\ text[at] = AT
      /\ SubSeq(text, at + 1, colon - 1) = d.addr /\ text[colon] = COLON
      /\ SubSeq(text, colon + 1, end - 1) = d.irq
      /\ end <= Len(text) => text[end] = SPACE
      /\ d.means = [result |-> "Ok", size |-> SizeDigits(d.size),
                    addr |-> Digits(d.addr, 16), irq |-> Digits(d.irq, 10) % 256]
  BY <1>1, Zenon DEF Describes
<1>3. PICK x, y, z : x = Len(d.size) /\ y = Len(d.addr) /\ z = Len(d.irq)
  OBVIOUS
<1>4. x \in Nat /\ y \in Nat /\ z \in Nat /\ Len(text) \in Nat
  <2>1. Len(d.size) \in Nat
    BY <1>2, Elements, Zenon
  <2>2. Len(d.addr) \in Nat
    BY <1>2, Elements, Zenon
  <2>3. Len(d.irq) \in Nat
    BY <1>2, Elements, Zenon
  <2>4. Len(text) \in Nat
    BY Elements, Zenon
  <2> QED
    BY <1>3, <2>1, <2>2, <2>3, <2>4, Zenon
<1>5. at = p + x + 1 /\ colon = at + y + 1 /\ end = colon + z + 1
  BY <1>1, <1>3, Zenon
<1>6. /\ at \in Nat /\ colon \in Nat /\ end \in Nat
      /\ p < at /\ at < colon /\ colon < end
  BY <1>4, <1>5
<1>7. PlainBetween(text, p, at) /\ PlainBetween(text, at, colon)
      /\ PlainBetween(text, colon, end)
  <2>1. at <= Len(text) + 1 /\ colon <= Len(text) + 1 /\ end <= Len(text) + 1
    BY SMTT(30), <1>2, <1>4, <1>6
  <2> QED
    BY <1>2, <1>3, <1>4, <1>5, <1>6, <2>1, PlainPart, Zenon
<1>8. Divided(text, p, at, colon, end)
  BY <1>2, <1>6, <1>7, Zenon DEF Divided
<1> DEFINE Result(s, a, c, e) ==
             IF s = 0 \/ a = 0 \/ c = 0 THEN Err("virtio-mmio is not found")
             ELSE IF Digits(SubSeq(text, a + 1, c - 1), 16) \notin devices
             THEN Err("Invalid virtio-mmio device")
             ELSE [result |-> "Ok", size |-> SizeDigits(SubSeq(text, s + 1, a - 1)),
                   addr |-> Digits(SubSeq(text, a + 1, c - 1), 16),
                   irq |-> Digits(SubSeq(text, c + 1, e - 1), 10) % 256]
<1>9. /\ find(text, AT, p) = at /\ find(text, COLON, at) = colon
      /\ TailOf(text, colon) = end
  BY <1>4, <1>8, PartsFound, Zenon
<1>10. new(text, idx, devices) = Result(p, at, colon, TailOf(text, colon))
  BY <1>9 DEF new, TailOf
<1>11. Result(p, at, colon, end) =
         IF Digits(d.addr, 16) \notin devices THEN Err("Invalid virtio-mmio device")
         ELSE [result |-> "Ok", size |-> SizeDigits(d.size),
               addr |-> Digits(d.addr, 16), irq |-> Digits(d.irq, 10) % 256]
  <2>1. p # 0 /\ at # 0 /\ colon # 0
    BY <1>6
  <2> QED
    BY <1>2, <2>1, Zenon
<1>12. d.means.addr = Digits(d.addr, 16)
  BY <1>2
<1> HIDE DEF Result
<1> QED
  BY <1>2, <1>9, <1>10, <1>11, <1>12, Zenon DEF Answered

(* A description that is cut short is none.                                *)
LEMMA CutNotFound ==
  ASSUME NEW text \in Seq(Token), NEW p \in 1..Len(text), CutShort(text, p),
         NEW idx, KeyPlace(text, idx) = p, NEW devices
  PROVE  new(text, idx, devices) = Err("virtio-mmio is not found")
<1> DEFINE places == {q \in p..Len(text) : text[q] = AT}
<1>1. Len(text) \in Nat /\ p \in Nat
  BY SMTT(30)
<1>2. CASE places = {}
  <2>1. find(text, AT, p) = 0
    BY SMTT(30), <1>2, NoneFound
  <2> QED
    BY <2>1 DEF new
<1>3. CASE places # {}
  <2>1. places \subseteq Nat
    BY <1>1
  <2>2. PICK a \in places : \A q \in places : a <= q
    <3> HIDE DEF places
    <3> QED BY <1>3, <2>1, Least, Zenon
  <2>3. a \in p..Len(text) /\ a \in Nat /\ text[a] = AT /\ \A q \in p..a - 1 : text[q] # AT
    BY <1>1, <2>2
  <2>4. find(text, AT, p) = a
    BY <1>1, <2>3, FirstFound
  <2>5. ASSUME NEW r \in a..Len(text)
        PROVE  text[r] # COLON
    <3>1. CASE r = a
      BY SMTT(30), <2>3, <3>1, CmdLineAssumption
    <3>2. CASE a < r
      <4>1. a \in p..Len(text) /\ r \in p..Len(text)
        BY SMTT(30), <1>1, <2>3
      <4> QED
        BY <2>3, <3>2, <4>1 DEF CutShort
    <3> QED
      BY SMTT(30), <1>1, <2>3, <3>1, <3>2
  <2>6. find(text, COLON, a) = 0
    BY <2>5, NoneFound
  <2> QED
    BY <2>4, <2>6 DEF new
<1> QED
  BY ZenonT(30), <1>2, <1>3

(* VirtioMMIO::new finds the device that the command line describes idx-th *)
(* and no other, for lines of any length with any number of devices and    *)
(* anything between their descriptions.                                    *)
THEOREM CmdLineAlwaysRight == CmdLineRight
<1> SUFFICES ASSUME NEW line \in Lines, NEW idx \in Nat, NEW devices \in SUBSET Nat
             PROVE  new(line.text, idx, devices) = DeviceOf(line, idx, devices)
  <2>1. ASSUME input \in [line : Lines, idx : Nat, devices : SUBSET Nat]
        PROVE  input.line \in Lines /\ input.idx \in Nat /\ input.devices \in SUBSET Nat
    BY <2>1
  <2> QED
    BY <2>1 DEF CmdLineRight
<1> DEFINE text == line.text
           at == line.at
           d == line.named[idx + 1]
<1>1. WellFormed(line)
  BY SMTT(30), CmdLineAssumption
<1>2. text \in Seq(Token) /\ at \in Seq(Nat) /\ Len(line.named) = Len(at)
  BY <1>1 DEF WellFormed
<1>k. Len(text) \in Nat /\ Len(at) \in Nat
  BY <1>2, Elements, Zenon
<1>3. KeysAt(text, at)
  <2>1. \A k \in 1..Len(at) : at[k] \in 1..Len(text)
    BY <1>1, Zenon DEF WellFormed
  <2>2. \A j, k \in 1..Len(at) : j < k => at[j] < at[k]
    BY <1>1, Zenon DEF WellFormed
  <2>3. \A q \in 1..Len(text) : text[q] = KEY <=> \E k \in 1..Len(at) : at[k] = q
    BY <1>1, Zenon DEF WellFormed
  <2> HIDE DEF text, at
  <2> QED
    BY <1>k, <2>1, <2>2, <2>3, Zenon DEF KeysAt
<1>4. KeyPlace(text, idx) = IF idx < Len(at) THEN at[idx + 1] ELSE 0
  BY SMTT(30), <1>3, KeyFound
<1>5. CASE idx >= Len(at)
  <2>1. KeyPlace(text, idx) = 0
    BY SMTT(30), <1>2, <1>4, <1>5
  <2>2. new(text, idx, devices) = Err("virtio-mmio is not found")
    BY <2>1 DEF new
  <2> QED
    BY ZenonT(30), <1>2, <1>5, <2>2 DEF DeviceOf
<1>6. CASE idx < Len(at)
  <2>1. idx + 1 \in 1..Len(at) /\ ~(idx >= Len(line.named))
    BY SMTT(30), <1>2, <1>6
  <2> DEFINE p == at[idx + 1]
  <2>2. p \in 1..Len(text) /\ text[p] = KEY /\ KeyPlace(text, idx) = p
    BY SMTT(30), <1>3, <1>4, <1>6, <2>1 DEF KeysAt
  <2>p. p \in Nat /\ 1 <= p
    BY SMTT(30), <2>2
  <2>3. \/ d.kind = "device" /\ Describes(text, p, d)
        \/ d.kind = "cut" /\ CutShort(text, p)
    BY SMTT(30), <1>1, <2>1 DEF WellFormed
  <2> HIDE DEF text, at, d, p
  <2>4. CASE d.kind = "device" /\ Describes(text, p, d)
    <3>1. new(text, idx, devices) = Answered(d, devices)
      <4>1. /\ text \in Seq(Token) /\ p \in Nat /\ 1 <= p /\ text[p] = KEY
            /\ Describes(text, p, d) /\ KeyPlace(text, idx) = p
        BY <1>2, <2>2, <2>p, <2>4, Zenon
      <4> QED
        BY <4>1, DeviceFound
    <3> QED
      BY ZenonT(30), <2>1, <2>4, <3>1 DEF DeviceOf, Answered, text, d
  <2>5. CASE d.kind = "cut" /\ CutShort(text, p)
    <3>1. new(text, idx, devices) = Err("virtio-mmio is not found")
      BY ZenonT(30), <1>2, <2>2, <2>5, CutNotFound
    <3> QED
      BY ZenonT(30), <2>1, <2>5, <3>1 DEF DeviceOf, text, d
  <2> QED
    BY <2>3, <2>4, <2>5 DEF text
<1> QED
  BY SMTT(30), <1>2, <1>5, <1>6
=============================================================================
