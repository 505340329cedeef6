--------------------------- MODULE KvmClockProofs ---------------------------
(***************************************************************************)
(* Proofs about KvmClock: the version check of get_monotonic_time, for     *)
(* every rate of the TSC, every number and timing of the host's updates,   *)
(* and what its callers make of the readings: the calibration of the APIC  *)
(* timer and the expiry of timers.  And about Calendar, the dates the      *)
(* clock is shown by, for every day that a 16-bit year can name.           *)
(***************************************************************************)
EXTENDS KvmClock, Calendar, Preliminaries

-----------------------------------------------------------------------------
(* Arithmetic of the reading.                                              *)

(* The difference may wrap before it is scaled: the result is the same.    *)
LEMMA ScaledWrap ==
  ASSUME NEW x \in Int, NEW f \in Nat, NEW m \in Nat \ {0}
  PROVE  ((x % m) * f) % m = (x * f) % m
<1> DEFINE q == x \div m
           r == x % m
<1>1. r \in 0..m - 1 /\ x = m * q + r /\ q \in Int
  BY ModRange
<1> HIDE DEF q, r
<1>2. r * f = x * f - m * (q * f) /\ x * f \in Int /\ q * f \in Int
  BY <1>1
<1>3. (x * f - m * (q * f)) % m = (x * f) % m
  BY <1>2, ModShift
<1> QED
  BY <1>2, <1>3 DEF r

(* Time passes at the present rate.                                        *)
LEMMA ElapseInStep ==
  ASSUME NEW a \in Int, NEW b \in Int, NEW d \in Int, NEW f \in Int, a = b * f
  PROVE  a + d * f = (b + d) * f
  OBVIOUS

-----------------------------------------------------------------------------
(* The invariant.                                                          *)

(* At start the page is all zero and nobody has read it.                   *)
LEMMA InitClockInv == Init => ClockInv
<1> SUFFICES ASSUME Init PROVE ClockInv
  OBVIOUS
<1> USE ClockAssumption DEF Init
<1>1. TypeOK
  <2>1. page \in Page /\ old \in Page
    BY DEF Page, Version, ZeroPage
  <2>2. created \in [at : Nat, ver : Version]
    BY DEF Version
  <2>3. tsc \in 1..MaxTsc /\ now \in Nat /\ rate \in Rates
    OBVIOUS
  <2>4. nowtsc \in 0..MaxTsc /\ start \in 0..MaxTsc /\ base_cnt \in Nat /\ at \in Nat
    OBVIOUS
  <2>5. ret \in 0..Modulus - 1 /\ expired \in 0..Modulus - 1
    OBVIOUS
  <2>6. ver \in Version /\ prev_ver \in Version
    BY DEF Version
  <2> QED
    BY <2>1, <2>2, <2>3, <2>4, <2>5, <2>6, Zenon DEF TypeOK
<1>2. Versions
  BY DEF Versions, ZeroPage
<1>3. Loaded /\ InStep
  BY DEF Loaded, InStep
<1> QED
  BY <1>1, <1>2, <1>3 DEF ClockInv

(* The host's steps, whatever the guest is doing.                          *)
LEMMA HostClockInv ==
  ASSUME ClockInv, Host
  PROVE  ClockInv'
<1> USE ClockAssumption
<1>t. TypeOK /\ Versions /\ Loaded /\ InStep
  BY DEF ClockInv
<1>1. CASE HostBegin
  <2> USE <1>1 DEF HostBegin, callVars, bootVars
  <2>1. TypeOK'
    BY <1>t DEF TypeOK, Page, Version
  <2>2. Versions'
    BY <1>t DEF TypeOK, Page, Version, Versions
  <2>3. Loaded'
    BY <1>t DEF Loaded, Untouched
  <2>4. InStep'
    BY <1>t DEF TypeOK, Page, InStep
  <2> QED
    BY <2>1, <2>2, <2>3, <2>4 DEF ClockInv
<1>2. CASE HostWriteTime
  <2> USE <1>2 DEF HostWriteTime, callVars, bootVars
  <2>0. PICK d \in 0..MaxStep : Elapse(d)
    OBVIOUS
  <2>a. d * rate \in Nat
    BY <1>t DEF TypeOK
  <2>1. TypeOK'
    <3>1. tsc' \in 1..MaxTsc /\ now' \in Nat
      BY <1>t, <2>0, <2>a DEF TypeOK, Elapse
    <3>2. page' \in Page
      <4>1. tsc' \in 0..MaxTsc
        BY <3>1
      <4>2. page' = [page EXCEPT !.tsc_timestamp = tsc', !.system_time = now']
        OBVIOUS
      <4>3. page \in Page
        BY <1>t DEF TypeOK
      <4> HIDE <1>2 DEF HostWriteTime
      <4> QED
        BY <3>1, <4>1, <4>2, <4>3 DEF Page
    <3>3. rate' \in Rates /\ host' = "rate" /\ UNCHANGED <<callVars, bootVars>>
      OBVIOUS
    <3> HIDE <1>2 DEF HostWriteTime
    <3> QED
      BY <1>t, <3>1, <3>2, <3>3 DEF TypeOK
  <2>2. Versions'
    BY <1>t DEF TypeOK, Page, Version, Versions
  <2>3. Loaded'
    BY <1>t DEF Loaded, Untouched
  <2>4. InStep'
    BY <1>t, <2>1 DEF TypeOK, Page, InStep
  <2> QED
    BY <2>1, <2>2, <2>3, <2>4 DEF ClockInv
<1>3. CASE HostWriteRate
  <2> USE <1>3 DEF HostWriteRate, callVars, bootVars
  <2>1. TypeOK'
    BY <1>t DEF TypeOK, Page, Version
  <2>2. Versions'
    BY <1>t DEF TypeOK, Page, Version, Versions
  <2>3. Loaded'
    BY <1>t DEF Loaded, Untouched
  <2>4. InStep'
    BY <1>t DEF TypeOK, Page, InStep
  <2> QED
    BY <2>1, <2>2, <2>3, <2>4 DEF ClockInv
<1>4. CASE HostEnd
  <2> USE <1>4 DEF HostEnd, callVars, bootVars
  <2>0. page.version % 2 = 1 /\ page.version \in Version
    BY <1>t DEF TypeOK, Page, Version, Versions
  <2>1. TypeOK'
    BY <1>t, <2>0 DEF TypeOK, Page, Version
  <2>2. Versions'
    BY <1>t, <2>0 DEF TypeOK, Page, Version, Versions
  <2>3. page'.version > old.version /\ page'.version > ver
    BY <1>t DEF TypeOK, Page, Version, Versions
  <2>4. Loaded'
    BY <1>t, <2>3 DEF TypeOK, Page, Version, Loaded, Untouched
  <2>5. InStep'
    BY <1>t, <2>3 DEF TypeOK, Page, Version, InStep
  <2> QED
    BY <2>1, <2>2, <2>4, <2>5 DEF ClockInv
<1> QED
  BY <1>1, <1>2, <1>3, <1>4 DEF Host

(* The guest's steps inside get_monotonic_time.                            *)
LEMMA CallClockInv ==
  ASSUME ClockInv, InitKvmclock \/ ReadTsc \/ Call \/ ApicWait
  PROVE  ClockInv'
<1> USE ClockAssumption
<1>t. TypeOK /\ Versions /\ Loaded /\ InStep
  BY DEF ClockInv
<1>1. CASE InitKvmclock
  <2> USE <1>1 DEF InitKvmclock, callVars
  <2>0. pc = "idle" /\ ~ clocksource /\ host = "idle" /\ page.version \in Nat
    BY <1>t DEF TypeOK, Page, Version, Versions
  <2>a. CASE page' = page /\ clocksource' = FALSE
    <3>1. TypeOK' /\ Versions'
      BY <1>t, <2>a DEF TypeOK, Versions
    <3>2. Loaded' /\ InStep'
      BY <2>a, <2>0 DEF Loaded, InStep
    <3> QED
      BY <3>1, <3>2 DEF ClockInv
  <2>b. CASE /\ clocksource' = TRUE
             /\ page' = [version |-> 2, tsc_timestamp |-> tsc,
                         system_time |-> now, mul |-> rate]
    <3>1. page' \in Page
      BY <1>t, <2>b DEF TypeOK, Page, Version
    <3>2. TypeOK'
      BY <1>t, <2>b, <3>1 DEF TypeOK
    <3>3. caller' = "delta"
      OBVIOUS
    <3>4. old.version <= 2 /\ ver <= 2
      BY <1>t, <2>0 DEF TypeOK, Page, Version, Versions, ClockInv
    <3>5. Versions'
      BY <1>t, <2>b, <2>0, <3>3, <3>4 DEF TypeOK, Versions
    <3>6. Loaded' /\ InStep'
      BY <1>t, <2>b, <2>0 DEF TypeOK, Loaded, InStep
    <3> QED
      BY <3>2, <3>5, <3>6 DEF ClockInv
  <2> QED
    BY <2>a, <2>b
<1>2. CASE ReadTsc
  <2> USE <1>2 DEF ReadTsc, bootVars
  <2>0. PICK d \in 1..MaxStep : Elapse(d)
    OBVIOUS
  <2>a. d * rate \in Nat /\ rate \in Nat
    BY <1>t DEF TypeOK
  <2>1. TypeOK'
    BY <1>t, <2>0, <2>a DEF TypeOK, Page, Version, Elapse
  <2>2. Versions'
    BY <1>t DEF TypeOK, Page, Version, Versions
  <2>3. Loaded'
    BY <1>t DEF Loaded
  <2>4. ASSUME clocksource, host # "time"
        PROVE  now' - page.system_time = (tsc' - page.tsc_timestamp) * rate
    <3>1. now - page.system_time = (tsc - page.tsc_timestamp) * rate
      BY <1>t, <2>4 DEF InStep
    <3>2. (now - page.system_time) + d * rate = ((tsc - page.tsc_timestamp) + d) * rate
      BY <1>t, <2>0, <2>a, <3>1, ElapseInStep DEF TypeOK, Page
    <3>3. /\ now' - page.system_time = (now - page.system_time) + d * rate
          /\ tsc' - page.tsc_timestamp = (tsc - page.tsc_timestamp) + d
      BY <1>t, <2>0, <2>a DEF TypeOK, Page, Elapse
    <3> QED
      BY <3>2, <3>3
  <2>5. InStep'
    BY <1>t, <2>4 DEF InStep
  <2> QED
    BY <2>1, <2>2, <2>3, <2>5 DEF ClockInv
<1>3. CASE ReadOldFirst
  <2> USE <1>3 DEF ReadOldFirst, hostVars, bootVars, LoadHead, LoadTail
  <2>1. TypeOK'
    BY <1>t DEF TypeOK, Page
  <2>2. Versions'
    BY <1>t DEF TypeOK, Page, Version, Versions
  <2>3. Loaded'
    BY <1>t DEF TypeOK, Page, Loaded
  <2>4. InStep'
    BY <1>t DEF InStep
  <2> QED
    BY <2>1, <2>2, <2>3, <2>4 DEF ClockInv
<1>4. CASE ReadOldSecond
  <2> USE <1>4 DEF ReadOldSecond, hostVars, bootVars, LoadHead, LoadTail
  <2>1. TypeOK'
    BY <1>t DEF TypeOK, Page
  <2>2. Versions'
    BY <1>t DEF TypeOK, Page, Version, Versions
  <2>3. Loaded'
    <3>1. SUFFICES ASSUME Untouched' PROVE old' = page
      BY DEF Loaded
    <3>2. Untouched
      BY <1>t, <3>1 DEF TypeOK, Page, Untouched
    <3>3. /\ order = "up" => LoadHead(page, old) = old
          /\ order = "down" => LoadTail(page, old) = old
      BY <1>t, <3>2 DEF Loaded
    <3>4. old' \in Page /\ page \in Page /\ old \in Page
      BY <1>t, <2>1 DEF TypeOK
    <3>5. /\ old'.version = page.version
          /\ old'.tsc_timestamp = page.tsc_timestamp
          /\ old'.system_time = page.system_time
          /\ old'.mul = page.mul
      BY <1>t, <3>3, <3>4 DEF TypeOK, Page
    <3> QED
      BY <3>4, <3>5 DEF Page
  <2>4. InStep'
    BY <1>t DEF InStep
  <2> QED
    BY <2>1, <2>2, <2>3, <2>4 DEF ClockInv
<1>5. CASE Retry
  <2> USE <1>5 DEF Retry, hostVars, bootVars
  <2>1. TypeOK' /\ Versions' /\ InStep'
    BY <1>t DEF TypeOK, Versions, InStep
  <2>2. Loaded'
    BY <1>t DEF Loaded
  <2> QED
    BY <2>1, <2>2 DEF ClockInv
<1>6. CASE ApicWait
  <2> USE <1>6 DEF ApicWait, callVars
  <2>0. PICK d \in 0..Window : Elapse(d)
    OBVIOUS
  <2>a. d * rate \in Nat /\ rate \in Nat
    BY <1>t DEF TypeOK
  <2>1. TypeOK'
    BY <1>t, <2>0, <2>a DEF TypeOK, Page, Version, Elapse
  <2>2. Versions' /\ Loaded'
    BY <1>t DEF Versions, Loaded, Untouched
  <2>4. ASSUME clocksource, host # "time"
        PROVE  now' - page.system_time = (tsc' - page.tsc_timestamp) * rate
    <3>1. now - page.system_time = (tsc - page.tsc_timestamp) * rate
      BY <1>t, <2>4 DEF InStep
    <3>2. (now - page.system_time) + d * rate = ((tsc - page.tsc_timestamp) + d) * rate
      BY <1>t, <2>0, <2>a, <3>1, ElapseInStep DEF TypeOK, Page
    <3>3. /\ now' - page.system_time = (now - page.system_time) + d * rate
          /\ tsc' - page.tsc_timestamp = (tsc - page.tsc_timestamp) + d
      BY <1>t, <2>0, <2>a DEF TypeOK, Page, Elapse
    <3> QED
      BY <3>2, <3>3
  <2>5. InStep'
    BY <1>t, <2>4 DEF InStep
  <2> QED
    BY <2>1, <2>2, <2>5 DEF ClockInv
<1> QED
  BY <1>1, <1>2, <1>3, <1>4, <1>5, <1>6 DEF Call

(* A reading is below the modulus, and the count of the calibration is a   *)
(* number, since the assertion comes before the division.                  *)
LEMMA ReturnTypes ==
  ASSUME TypeOK
  PROVE  Reading(old, nowtsc) \in 0..Modulus - 1
<1> DEFINE x == nowtsc - old.tsc_timestamp
<1>1. x \in Int /\ old.mul \in Nat /\ Modulus \in Nat \ {0}
  <2>1. old.mul \in Rates \cup {0} /\ old.tsc_timestamp \in 0..MaxTsc
    BY DEF TypeOK, Page
  <2>2. nowtsc \in 0..MaxTsc
    BY DEF TypeOK
  <2>3. 0 \in Nat /\ Rates \subseteq Nat /\ Modulus \in Nat \ {0} /\ MaxTsc \in Nat
    BY ClockAssumption
  <2>4. old.mul \in Nat
    BY <2>1, <2>3, Zenon
  <2>5. x \in Int
    BY <2>1, <2>2, <2>3
  <2> QED
    BY <2>3, <2>4, <2>5
<1> HIDE DEF x
<1>2. x % Modulus \in Nat
  BY <1>1, ModRange
<1>3. (x % Modulus) * old.mul \in Int
  BY <1>1, <1>2
<1>4. ((x % Modulus) * old.mul) % Modulus \in 0..Modulus - 1
  BY <1>1, <1>3, ModRange
<1> QED
  BY <1>4 DEF Reading, x

(* The return of get_monotonic_time into each of its callers.              *)
LEMMA ReturnClockInv ==
  ASSUME ClockInv, Returned
  PROVE  ClockInv'
<1> USE ClockAssumption
<1>t. TypeOK /\ Versions /\ Loaded /\ InStep
  BY DEF ClockInv
<1>1. /\ pc' = "idle"
      /\ ret' = Reading(old, nowtsc)
      /\ UNCHANGED <<hostVars, nowtsc, old, at, ver, prev_ver, order, clocksource>>
  <2>1. PICK who : Return(who)
    BY Zenon DEF Returned, CalendarDelta, CalendarDone, ApicBefore, ApicAfter,
                 NewTimer, Scan
  <2> QED
    BY <2>1 DEF Return
<1>2. ret' \in 0..Modulus - 1
  BY <1>t, <1>1, ReturnTypes
<1>3. /\ start' \in 0..MaxTsc
      /\ caller' \in {"calendar", "before", "wait", "new", "panic", "scan"}
  BY <1>t DEF Returned, CalendarDelta, CalendarDone, ApicBefore, ApicAfter,
              NewTimer, Scan, TypeOK
<1>4. base_cnt' \in Nat
  <2>1. CASE ApicAfter /\ ret' > ret
    <3>0. ret \in 0..Modulus - 1 /\ ret' > ret
      BY <1>t, <2>1 DEF TypeOK
    <3>a. Period * Window \in Nat
      OBVIOUS
    <3>b. ret \in Nat /\ ret' \in Nat
      BY <1>2, <3>0
    <3>c. \A a, b \in Nat : a > b => a - b \in Nat \ {0}
      OBVIOUS
    <3>1. ret' - ret \in Nat \ {0}
      BY <3>0, <3>b, <3>c, Zenon
    <3>2. (Period * Window) \div (ret' - ret) \in Nat
      BY <3>a, <3>1, QuotientNat
    <3> QED
      BY <2>1, <3>2 DEF ApicAfter, BaseCount
  <2>2. CASE ~ (ApicAfter /\ ret' > ret)
    BY <1>t, <2>2 DEF Returned, CalendarDelta, CalendarDone, ApicBefore, ApicAfter,
              NewTimer, Scan, TypeOK
  <2> QED
    BY <2>1, <2>2
<1>5. expired' \in 0..Modulus - 1 /\ created' \in [at : Nat, ver : Version]
  <2>1. CASE NewTimer
    <3>1. ret' + Duration \in Int
      BY <1>2
    <3>2. (ret' + Duration) % Modulus \in 0..Modulus - 1
      BY <3>1, ModRange
    <3>3. created' \in [at : Nat, ver : Version]
      BY <1>t, <2>1 DEF NewTimer, TypeOK
    <3> QED
      BY <2>1, <3>2, <3>3 DEF NewTimer
  <2>2. CASE ~ NewTimer
    BY <1>t, <2>2 DEF Returned, CalendarDelta, CalendarDone, ApicBefore, ApicAfter,
              Scan, TypeOK
  <2> QED
    BY <2>1, <2>2
<1>6. TypeOK'
  BY <1>t, <1>1, <1>2, <1>3, <1>4, <1>5 DEF TypeOK, hostVars
<1>7. Versions'
  BY <1>t, <1>1, <1>3 DEF Versions, hostVars
<1>8. Loaded'
  BY <1>t, <1>1 DEF Loaded, hostVars
<1>9. InStep'
  BY <1>t, <1>1 DEF InStep, hostVars
<1> QED
  BY <1>6, <1>7, <1>8, <1>9 DEF ClockInv

-----------------------------------------------------------------------------
(* The inductive invariant of get_monotonic_time holds.                    *)
THEOREM ClockInvariant == Spec => []ClockInv
<1>1. Init => ClockInv
  BY InitClockInv
<1>2. ClockInv /\ [Next]_vars => ClockInv'
  <2>1. SUFFICES ASSUME ClockInv, [Next]_vars PROVE ClockInv'
    OBVIOUS
  <2>2. CASE UNCHANGED vars
    BY <2>1, <2>2 DEF vars, hostVars, callVars, bootVars, ClockInv, TypeOK, Versions,
           Loaded, Untouched, InStep
  <2> QED
    BY <2>1, <2>2, HostClockInv, CallClockInv, ReturnClockInv DEF Next, Guest
<1> QED
  BY <1>1, <1>2, PTL DEF Spec

(* A call that returns uses fields of the page that belong together, in a  *)
(* build that loads the version first.                                     *)
THEOREM NeverTorn == Spec => []NotTorn
<1>1. ClockInv => NotTorn
  <2>1. SUFFICES ASSUME ClockInv, Accepted, order = "up" PROVE old = page
    BY DEF NotTorn
  <2>2. page.version = old.version /\ host = "idle"
    BY <2>1 DEF Accepted, Consistent, Even, ClockInv, Versions, TypeOK, Page, Version
  <2> QED
    BY <2>1, <2>2 DEF ClockInv, Loaded, Untouched, Accepted
<1> QED
  BY <1>1, ClockInvariant, PTL

(* A call during which the host does not touch the page returns the true   *)
(* time since the host's last update, to the wrap of 64 bits.              *)
THEOREM ReadingCorrect == Spec => []ReadingRight
<1>1. ClockInv => ReadingRight
  <2>1. SUFFICES ASSUME ClockInv, Accepted, clocksource, page.version = ver
                 PROVE  Reading(old, nowtsc) = (at - page.system_time) % Modulus
    BY DEF ReadingRight
  <2>2. host = "idle" /\ pc = "new"
    BY <2>1 DEF Accepted, Consistent, ClockInv, Versions
  <2>3. old = page
    BY <2>1, <2>2 DEF ClockInv, Loaded, Untouched
  <2>4. page.mul = rate /\ rate \in Nat /\ Modulus \in Nat \ {0}
    BY <2>1, <2>2, ClockAssumption DEF ClockInv, InStep, TypeOK
  <2>5. at - page.system_time = (nowtsc - page.tsc_timestamp) * rate
    BY <2>1, <2>2 DEF ClockInv, InStep
  <2>6. nowtsc - page.tsc_timestamp \in Int
    BY <2>1 DEF ClockInv, TypeOK, Page
  <2>7. (((nowtsc - page.tsc_timestamp) % Modulus) * rate) % Modulus
          = ((nowtsc - page.tsc_timestamp) * rate) % Modulus
    BY <2>4, <2>6, ScaledWrap
  <2> QED
    BY <2>3, <2>4, <2>5, <2>7 DEF Reading
<1> QED
  BY <1>1, ClockInvariant, PTL

-----------------------------------------------------------------------------
(* The callers: the calibration of the APIC timer, and the timers.         *)

(* Readings do not reach the wrap of 64 bits (584 years of nanoseconds     *)
(* after the page was written), not even with the duration of a timer      *)
(* added.                                                                  *)
NoWrap == \A r \in Rates : MaxTsc * r + Duration < Modulus

(* A tick of the TSC is short: the ticks from one reading of the           *)
(* calibration to the other take no more nanoseconds than the length of    *)
(* the period (2 ms) times the ticks of the wait.                          *)
FineTicks == \A r \in Rates : (Window + MaxStep) * r <= Period * Window

(* The host has finished the update the version is of, and begun no other. *)
Quiet(version) == clocksource /\ host = "idle" /\ page.version = version

(* ret is the reading d ticks before t.                                    *)
Since(t, d) ==
  t - d >= page.tsc_timestamp /\ ret = (t - d - page.tsc_timestamp) * rate

(* The inductive invariant of the callers.                                 *)
(*   Progress     time does not go back, and without a clock source all    *)
(*                readings are zero                                        *)
(*   TimerSet     a timer is due Duration after its creation, by the page  *)
(*                it was created with                                      *)
(*   Calibrating  what the reading `before' was, in ticks                  *)
Progress ==
  /\ at <= now
  /\ prev_ver <= ver
  /\ ~ clocksource => page.mul = 0 /\ old.mul = 0
  /\ clocksource => page.tsc_timestamp <= tsc
  /\ pc # "idle" /\ Quiet(ver) => page.tsc_timestamp <= nowtsc

TimerSet ==
  caller = "scan" =>
    /\ created.ver <= ver
    /\ created.at <= at
    /\ Quiet(created.ver) => expired = created.at - page.system_time + Duration

Calibrating ==
  /\ caller = "before" /\ pc # "idle" /\ Quiet(ver) => tsc = nowtsc
  /\ caller = "wait" => pc = "idle"
  /\ caller = "wait" /\ Quiet(ver) => Since(tsc, 0)
  /\ caller = "after" /\ pc = "idle" /\ Quiet(ver) =>
       \E d \in 0..Window : Since(tsc, d)
  /\ caller = "after" /\ pc # "idle" /\ Quiet(prev_ver) =>
       \E d \in 1..(Window + MaxStep) : Since(nowtsc, d)

CallerInv == Progress /\ TimerSet /\ Calibrating

(* At start no caller is under way.                                        *)
LEMMA InitCallerInv == Init => CallerInv
<1> SUFFICES ASSUME Init PROVE CallerInv
  OBVIOUS
<1> USE ClockAssumption DEF Init
<1>1. Progress
  BY DEF Progress, ZeroPage
<1>2. TimerSet /\ Calibrating
  BY DEF TimerSet, Calibrating
<1> QED
  BY <1>1, <1>2 DEF CallerInv

(* A reading that neither wraps nor meets an update, in ticks and in time. *)
LEMMA ExactReading ==
  ASSUME NoWrap, ClockInv, Progress, Accepted, clocksource, page.version = ver
  PROVE  /\ Quiet(ver)
         /\ Reading(old, nowtsc) = (nowtsc - page.tsc_timestamp) * rate
         /\ Reading(old, nowtsc) = at - page.system_time
         /\ Reading(old, nowtsc) + Duration < Modulus
<1> DEFINE x == nowtsc - page.tsc_timestamp
<1>1. host = "idle" /\ pc = "new"
  BY DEF Accepted, Consistent, ClockInv, Versions
<1>2. Quiet(ver) /\ old = page /\ page.mul = rate
  BY <1>1 DEF Quiet, ClockInv, Loaded, Untouched, InStep
<1>3. /\ rate \in Nat /\ Modulus \in Nat \ {0} /\ Duration \in Nat /\ MaxTsc \in Nat
      /\ MaxTsc * rate + Duration < Modulus
  BY ClockAssumption DEF NoWrap, ClockInv, TypeOK
<1>4. x \in 0..MaxTsc
  BY <1>1, <1>2, <1>3 DEF Progress, ClockInv, TypeOK, Page
<1>5. at - page.system_time = x * rate
  BY <1>1 DEF ClockInv, InStep
<1> HIDE DEF x
<1>6. x * rate \in Nat /\ x * rate <= MaxTsc * rate
  <2>1. MaxTsc * rate = x * rate + (MaxTsc - x) * rate /\ (MaxTsc - x) * rate \in Nat
    BY <1>3, <1>4
  <2>2. x * rate \in Nat
    BY <1>3, <1>4
  <2> QED
    BY <2>1, <2>2
<1>7. ((x % Modulus) * rate) % Modulus = (x * rate) % Modulus
  <2>1. x \in Int
    BY <1>3, <1>4
  <2> QED
    BY <1>3, <2>1, ScaledWrap
<1>8. (x * rate) % Modulus = x * rate
  BY <1>3, <1>6, ModSmall
<1>9. Reading(old, nowtsc) = x * rate
  BY <1>2, <1>7, <1>8 DEF Reading, x
<1> QED
  BY <1>2, <1>3, <1>5, <1>6, <1>9 DEF x

(* The host's steps end the quiet.                                         *)
LEMMA HostCallerInv ==
  ASSUME ClockInv, CallerInv, Host
  PROVE  CallerInv'
<1> USE ClockAssumption
<1>t. TypeOK /\ Versions /\ InStep /\ Progress /\ TimerSet /\ Calibrating
  BY DEF ClockInv, CallerInv
<1>c. UNCHANGED <<callVars, bootVars>>
  BY DEF Host, HostBegin, HostWriteTime, HostWriteRate, HostEnd
<1>q. \A v \in {ver, prev_ver} : ~ Quiet(v)'
  <2>1. CASE host' # "idle"
    BY <2>1 DEF Quiet
  <2>2. CASE HostEnd
    <3>1. page'.version > ver /\ page'.version > prev_ver
      BY <1>t, <2>2 DEF HostEnd, TypeOK, Page, Version, Versions, Progress
    <3> QED
      BY <1>t, <3>1 DEF Quiet, TypeOK, Version, Page
  <2> QED
    BY <2>1, <2>2 DEF Host, HostBegin, HostWriteTime, HostWriteRate
<1>p. /\ clocksource
      /\ now <= now' /\ tsc <= tsc'
      /\ page'.tsc_timestamp \in {page.tsc_timestamp, tsc'}
  <2>1. CASE HostWriteTime
    <3>1. PICK d \in 0..MaxStep : Elapse(d)
      BY <2>1 DEF HostWriteTime
    <3>2. d * rate \in Nat
      BY <1>t DEF TypeOK
    <3> QED
      BY <1>t, <2>1, <3>1, <3>2
      DEF HostWriteTime, Elapse, TypeOK, Versions, Page
  <2>2. CASE HostBegin \/ HostWriteRate \/ HostEnd
    BY <1>t, <2>2 DEF HostBegin, HostWriteRate, HostEnd, TypeOK, Versions, Page
  <2> QED
    BY <2>1, <2>2 DEF Host
<1>1. Progress'
  <2>1. tsc' \in Int /\ now' \in Int
    BY HostClockInv DEF ClockInv, TypeOK
  <2> QED
    BY <1>t, <1>c, <1>q, <1>p, <2>1
    DEF Progress, TypeOK, Page, Version, callVars, bootVars
<1>2. TimerSet'
  <2>1. created.ver <= ver => ~ Quiet(created.ver)'
    <3>1. CASE host' # "idle"
      BY <3>1 DEF Quiet
    <3>2. CASE HostEnd
      BY <1>t, <3>2 DEF HostEnd, TypeOK, Page, Version, Versions, Quiet, bootVars
    <3> QED
      BY <3>1, <3>2 DEF Host, HostBegin, HostWriteTime, HostWriteRate
  <2>2. UNCHANGED <<caller, created, ver, at>>
    BY <1>c DEF callVars, bootVars
  <2> QED
    BY <1>t, <2>1, <2>2 DEF TimerSet, Quiet
<1>3. Calibrating'
  BY <1>t, <1>c, <1>q DEF Calibrating, Quiet, callVars, bootVars
<1> QED
  BY <1>1, <1>2, <1>3 DEF CallerInv

(* The steps inside get_monotonic_time, and the wait.                      *)
LEMMA CallCallerInv ==
  ASSUME ClockInv, CallerInv, InitKvmclock \/ ReadTsc \/ Call \/ ApicWait
  PROVE  CallerInv'
<1> USE ClockAssumption
<1>t. TypeOK /\ Versions /\ InStep /\ Progress /\ TimerSet /\ Calibrating
  BY DEF ClockInv, CallerInv
<1>1. CASE InitKvmclock
  <2> USE <1>1 DEF InitKvmclock, callVars
  <2>0. pc = "idle" /\ ~ clocksource
    BY SMTT(30), <1>t DEF Versions
  <2>1. Progress'
    <3>1. \/ clocksource' = FALSE /\ page' = page
          \/ /\ clocksource' = TRUE
             /\ page' = [version |-> 2, tsc_timestamp |-> tsc,
                         system_time |-> now, mul |-> rate]
      OBVIOUS
    <3> QED
      BY <1>t, <2>0, <3>1 DEF Progress, TypeOK
  <2>2. TimerSet' /\ Calibrating'
    BY DEF TimerSet, Calibrating
  <2> QED
    BY <2>1, <2>2 DEF CallerInv
<1>2. CASE ReadTsc
  <2> USE <1>2 DEF ReadTsc, bootVars
  <2>0. PICK d \in 1..MaxStep : Elapse(d)
    OBVIOUS
  <2>1. /\ tsc \in Nat /\ now \in Nat /\ d * rate \in Nat
        /\ tsc' = tsc + d /\ now' = now + d * rate
        /\ page.tsc_timestamp \in Nat
    BY <1>t, <2>0 DEF Elapse, TypeOK, Page
  <2>2. Progress'
    BY SMTT(30), <1>t, <2>1 DEF Progress, Quiet, TypeOK, Versions, Page, Version
  <2>3. TimerSet'
    BY <1>t, <2>1 DEF TimerSet, Progress, Quiet, TypeOK, Versions, Page, Version
  <2>4. Calibrating'
    <3>1. ASSUME caller = "after", Quiet(ver)
          PROVE  \E e \in 1..(Window + MaxStep) : Since(tsc', e)
      <4>1. PICK c \in 0..Window : Since(tsc, c)
        BY <1>t, <3>1 DEF Calibrating
      <4>2. c + d \in 1..(Window + MaxStep) /\ tsc' - (c + d) = tsc - c
        BY <2>1
      <4>3. Since(tsc', c + d)
        BY <4>1, <4>2 DEF Since
      <4> QED
        BY <4>2, <4>3
    <3>2. \A t, e : Since(t, e)' <=> Since(t', e')
      BY DEF Since
    <3> QED
      BY <1>t, <3>1 DEF Calibrating, Quiet, Since
  <2> QED
    BY <2>2, <2>3, <2>4 DEF CallerInv
<1>3. CASE Call
  <2>1. /\ pc # "idle" /\ pc' # "idle"
        /\ UNCHANGED <<hostVars, nowtsc, ret, at, ver, prev_ver, bootVars>>
        /\ old' \in {old, LoadHead(page, old), LoadTail(page, old)}
    BY <1>3 DEF Call, ReadOldFirst, ReadOldSecond, Retry
  <2>2. Progress'
    BY <1>t, <2>1 DEF Progress, Quiet, TypeOK, Page, LoadHead, LoadTail, hostVars, bootVars
  <2>3. TimerSet' /\ Calibrating'
    BY <1>t, <2>1 DEF TimerSet, Calibrating, Quiet, Since, hostVars, bootVars
  <2> QED
    BY <2>2, <2>3 DEF CallerInv
<1>4. CASE ApicWait
  <2> USE <1>4 DEF ApicWait, callVars
  <2>0. PICK d \in 0..Window : Elapse(d)
    OBVIOUS
  <2>1. /\ tsc \in Nat /\ now \in Nat /\ d * rate \in Nat
        /\ tsc' = tsc + d /\ now' = now + d * rate
        /\ page.tsc_timestamp \in Nat /\ pc = "idle"
    BY <1>t, <2>0 DEF Elapse, TypeOK, Page, Calibrating
  <2>2. Progress'
    BY <1>t, <2>1 DEF Progress, Quiet, TypeOK
  <2>3. TimerSet'
    BY DEF TimerSet
  <2>4. Calibrating'
    <3>1. ASSUME Quiet(ver)
          PROVE  Since(tsc', d)
      BY <1>t, <2>1, <3>1 DEF Calibrating, Since
    <3> QED
      BY SMTT(30), <2>1, <3>1 DEF Calibrating, Quiet, Since
  <2> QED
    BY <2>2, <2>3, <2>4 DEF CallerInv
<1> QED
  BY <1>1, <1>2, <1>3, <1>4

(* The return of get_monotonic_time into each of its callers.              *)
LEMMA ReturnCallerInv ==
  ASSUME NoWrap, ClockInv, CallerInv, Returned
  PROVE  CallerInv'
<1> USE ClockAssumption
<1>t. TypeOK /\ Versions /\ InStep /\ Progress /\ TimerSet /\ Calibrating
  BY DEF ClockInv, CallerInv
<1>1. /\ Accepted /\ pc # "idle" /\ pc' = "idle"
      /\ ret' = Reading(old, nowtsc)
      /\ UNCHANGED <<hostVars, nowtsc, old, at, ver, prev_ver, order, clocksource>>
  <2>1. PICK who : Return(who)
    BY Zenon DEF Returned, CalendarDelta, CalendarDone, ApicBefore, ApicAfter,
                 NewTimer, Scan
  <2> QED
    BY <2>1 DEF Return, Accepted
<1>2. Progress'
  BY <1>t, <1>1 DEF Progress, Quiet, hostVars
<1>3. TimerSet'
  <2>1. CASE NewTimer
    <3>1. ASSUME Quiet(ver)
          PROVE  expired' = at - page.system_time + Duration
      <4>1. /\ ret' = at - page.system_time
            /\ ret' + Duration < Modulus
        BY <1>1, <1>t, <3>1, ExactReading DEF Quiet
      <4>2. ret' \in Nat /\ Duration \in Nat /\ Modulus \in Nat \ {0}
        BY <1>1, <1>t, ReturnTypes
      <4>3. (ret' + Duration) % Modulus = ret' + Duration
        <5>0. \A a, b \in Nat : a + b \in Nat
          OBVIOUS
        <5>1. ret' + Duration \in Nat
          BY <4>2, <5>0, Zenon
        <5>2. ret' + Duration < Modulus
          BY <4>1
        <5>3. \A y \in Nat : y < Modulus => y % Modulus = y
          BY <4>2, ModSmall
        <5> QED
          BY <5>1, <5>2, <5>3, Zenon
      <4> QED
        BY <2>1, <4>1, <4>3 DEF NewTimer
    <3>2. created' = [at |-> at, ver |-> ver] /\ at \in Nat /\ ver \in Nat
      BY <1>t, <2>1 DEF NewTimer, TypeOK, Version
    <3> QED
      BY <1>1, <3>1, <3>2 DEF TimerSet, Quiet, hostVars
  <2>2. CASE Scan
    BY <1>t, <1>1, <2>2 DEF TimerSet, Scan, Return, Quiet, hostVars
  <2>3. CASE CalendarDelta \/ CalendarDone \/ ApicBefore \/ ApicAfter
    BY <2>3 DEF TimerSet, CalendarDelta, CalendarDone, ApicBefore, ApicAfter
  <2> QED
    BY <2>1, <2>2, <2>3 DEF Returned
<1>4. Calibrating'
  <2>1. CASE ApicBefore
    <3>1. ASSUME Quiet(ver)
          PROVE  tsc >= page.tsc_timestamp /\ ret' = (tsc - page.tsc_timestamp) * rate
      <4>1. tsc = nowtsc
        BY <1>t, <1>1, <2>1, <3>1 DEF Calibrating, ApicBefore, Return
      <4> QED
        BY <1>1, <1>t, <3>1, <4>1, ExactReading DEF Quiet, Progress
    <3>2. tsc \in Int /\ tsc - 0 = tsc
      BY <1>t DEF TypeOK
    <3>3. caller' = "wait"
      BY <2>1 DEF ApicBefore
    <3> QED
      BY <1>1, <3>1, <3>2, <3>3 DEF Calibrating, Since, Quiet, hostVars
  <2>2. CASE CalendarDelta \/ CalendarDone \/ ApicAfter \/ NewTimer \/ Scan
    <3>1. caller' \in {"calendar", "before", "new", "panic", "scan"}
      BY <2>2 DEF CalendarDelta, CalendarDone, ApicAfter, NewTimer, Scan
    <3> QED
      BY <1>1, <3>1 DEF Calibrating
  <2> QED
    BY <2>1, <2>2 DEF Returned
<1> QED
  BY <1>2, <1>3, <1>4 DEF CallerInv

(* The inductive invariant of the callers holds while readings do not wrap.*)
THEOREM CallersInvariant == ASSUME NoWrap PROVE Spec => []CallerInv
<1>1. Init => CallerInv
  BY InitCallerInv
<1>2. ClockInv /\ CallerInv /\ [Next]_vars => CallerInv'
  <2>1. SUFFICES ASSUME ClockInv, CallerInv, [Next]_vars PROVE CallerInv'
    BY SMTT(30)
  <2>2. CASE UNCHANGED vars
    BY <2>1, <2>2 DEF vars, hostVars, callVars, bootVars, CallerInv, Progress, TimerSet,
           Calibrating, Quiet, Since
  <2> QED
    BY <2>1, <2>2, HostCallerInv, CallCallerInv, ReturnCallerInv DEF Next, Guest
<1> QED
  BY <1>1, <1>2, ClockInvariant, PTL DEF Spec

(* A timer of TimerFuture::new never completes before its duration is over,*)
(* if the host has not updated the page since, for every duration and rate *)
(* whose readings do not wrap.                                             *)
THEOREM TimersNotEarly == ASSUME NoWrap PROVE Spec => []TimerNotEarly
<1>1. ClockInv /\ CallerInv => TimerNotEarly
  <2>1. SUFFICES ASSUME ClockInv, CallerInv, Accepted, caller = "scan",
                        page.version = created.ver, Expired(Reading(old, nowtsc))
                 PROVE  at - created.at > Duration
    BY DEF TimerNotEarly
  <2>t. TypeOK /\ Versions /\ Progress /\ TimerSet
    BY <2>1 DEF ClockInv, CallerInv
  <2>2. CASE clocksource
    <3>1. page.version = ver
      BY <2>1, <2>t DEF TimerSet, Versions, TypeOK, Page, Version
    <3>2. Quiet(ver) /\ Reading(old, nowtsc) = at - page.system_time
      BY <2>1, <2>2, <2>t, <3>1, ExactReading
    <3>3. expired = created.at - page.system_time + Duration
      BY <2>1, <2>t, <3>1, <3>2 DEF TimerSet
    <3> QED
      BY <2>1, <2>t, <3>2, <3>3, ClockAssumption DEF Expired, TypeOK, Page
  <2>3. CASE ~ clocksource
    <3>1. old.mul = 0 /\ expired \in Nat /\ Modulus \in Nat \ {0}
      BY <2>3, <2>t, ClockAssumption DEF Progress, TypeOK
    <3>2. (nowtsc - old.tsc_timestamp) % Modulus \in Int
      <4>1. nowtsc - old.tsc_timestamp \in Int
        BY <2>t DEF TypeOK, Page
      <4> QED
        BY <3>1, <4>1, ModRange
    <3>3. Reading(old, nowtsc) = 0
      BY <3>1, <3>2 DEF Reading
    <3> QED
      BY <2>1, <3>1, <3>3 DEF Expired
  <2> QED
    BY <2>2, <2>3
<1> QED
  BY <1>1, ClockInvariant, CallersInvariant, PTL

(* apic::init passes its assertion and gives the timer a count that is not *)
(* zero, if the host has not updated the page since the reading `before',  *)
(* for every window and period, and every rate that is not absurdly slow.  *)
THEOREM Calibrated == ASSUME NoWrap, FineTicks PROVE Spec => CalibratedIfQuiet
<1> DEFINE A == caller = "after" /\ caller' # "after" /\ clocksource
                /\ page.version = prev_ver
                  => caller' = "new" /\ base_cnt' > 0
<1>1. ClockInv /\ CallerInv /\ [Next]_vars => [A]_vars
  <2>1. SUFFICES ASSUME ClockInv, CallerInv, Next, caller = "after", caller' # "after",
                        clocksource, page.version = prev_ver
                 PROVE  caller' = "new" /\ base_cnt' > 0
    OBVIOUS
  <2>t. TypeOK /\ Versions /\ Progress /\ Calibrating
    BY SMTT(30), <2>1 DEF ClockInv, CallerInv
  <2>2. ApicAfter
    BY <2>1 DEF Next, Host, HostBegin, HostWriteTime, HostWriteRate, HostEnd, bootVars,
                Guest, InitKvmclock, ReadTsc, Call, ReadOldFirst, ReadOldSecond, Retry,
                ApicWait, Returned, CalendarDelta, CalendarDone, ApicBefore, NewTimer,
                Scan, Return
  <2>3. Accepted /\ ret' = Reading(old, nowtsc) /\ pc # "idle"
    BY <2>2 DEF ApicAfter, Return, Accepted
  <2>4. page.version = ver
    BY <2>1, <2>t DEF Versions, Progress, TypeOK, Version, Page
  <2>5. Quiet(ver) /\ ret' = (nowtsc - page.tsc_timestamp) * rate
    BY <2>1, <2>3, <2>4, <2>t, ExactReading
  <2>6. PICK d \in 1..(Window + MaxStep) : Since(nowtsc, d)
    BY <2>1, <2>3, <2>4, <2>5, <2>t DEF Calibrating
  <2>7. /\ nowtsc \in Nat /\ page.tsc_timestamp \in Nat /\ rate \in Nat \ {0}
        /\ Window \in Nat /\ MaxStep \in Nat /\ Period \in Nat
        /\ (Window + MaxStep) * rate <= Period * Window
    BY <2>t, ClockAssumption DEF TypeOK, Page, FineTicks
  <2> DEFINE x == nowtsc - d - page.tsc_timestamp
  <2>8. x \in Nat /\ ret = x * rate /\ nowtsc - page.tsc_timestamp = x + d
    BY <2>6, <2>7 DEF Since
  <2> HIDE DEF x
  <2>9. /\ ret \in Nat /\ ret' = ret + d * rate
        /\ d * rate \in Nat \ {0} /\ d * rate <= Period * Window
    <3>1. (x + d) * rate = x * rate + d * rate /\ x * rate \in Nat
      BY <2>7, <2>8
    <3>2. (Window + MaxStep) * rate = d * rate + (Window + MaxStep - d) * rate
      BY <2>7
    <3>3. (Window + MaxStep - d) * rate \in Nat
      BY <2>7
    <3>4. d * rate \in Nat \ {0}
      BY <2>7
    <3> QED
      BY <2>5, <2>7, <2>8, <3>1, <3>2, <3>3, <3>4
  <2>10. ret' > ret /\ ret' - ret = d * rate
    BY <2>9
  <2> DEFINE n == Period * Window
             e == d * rate
  <2>11. n \in Nat /\ e \in Nat \ {0} /\ e <= n
    BY <2>7, <2>9
  <2>12. base_cnt' = n \div e /\ caller' = "new"
    BY <2>2, <2>10 DEF ApicAfter, BaseCount
  <2> HIDE DEF n, e
  <2>13. n \div e > 0
    <3>1. n % e \in 0..e - 1 /\ n = e * (n \div e) + (n % e) /\ n \div e \in Int
      BY <2>11, ModRange
    <3>2. n \div e \in Nat
      BY <2>11, QuotientNat
    <3> QED
      BY <2>11, <3>1, <3>2
  <2> QED
    BY <2>12, <2>13
<1>2. Spec => [][A]_vars
  BY <1>1, ClockInvariant, CallersInvariant, PTL DEF Spec
<1> QED
  BY <1>2 DEF CalibratedIfQuiet

-----------------------------------------------------------------------------
(* The calendar.                                                           *)

(* A day count in whole cycles of 400 years, centuries, cycles of 4 years, *)
(* years and days.  The day that ends a fourth century counts as a fifth   *)
(* century, the one that ends a fourth year as a fifth year.               *)
Cycles(n, a, c, q, y, d) ==
  /\ {a, c, q, y, d} \subseteq Nat /\ c <= 4 /\ q <= 24 /\ y <= 4 /\ d <= 364
  /\ n = 146097 * a + 36524 * c + 1461 * q + 365 * y + d
  /\ c = 4 => q = 0 /\ y = 0 /\ d = 0
  /\ y = 4 => q < 24 /\ d = 0

(* The year, beginning with March, and what SplitYears finds for one of    *)
(* its days and for the leap day that ends the year before.                *)
MarchYear(a, c, q, y) == 400 * a + 100 * c + 4 * q + y

MarchDay(year, d) == [year |-> year, day |-> d, leap |-> FALSE]

LeapDay(year) == [year |-> year, day |-> 0, leap |-> TRUE]

(* SplitYears undoes the cycles.                                           *)
LEMMA SplitCycles ==
  ASSUME NEW n, NEW a, NEW c, NEW q, NEW y, NEW d, Cycles(n, a, c, q, y, d)
  PROVE  SplitYears(n) = IF c = 4 \/ y = 4
                         THEN LeapDay(MarchYear(a, c, q, y))
                         ELSE MarchDay(MarchYear(a, c, q, y), d)
<1> DEFINE r4 == 365 * y + d
           r100 == 1461 * q + r4
           r400 == 36524 * c + r100
<1>1. /\ a \in Nat /\ c \in Nat /\ q \in Nat /\ y \in Nat /\ d \in Nat
      /\ c <= 4 /\ q <= 24 /\ y <= 4 /\ d <= 364
      /\ n = 146097 * a + 36524 * c + 1461 * q + 365 * y + d
  BY SMT DEF Cycles
<1>2. (c = 4 => q = 0 /\ y = 0 /\ d = 0) /\ (y = 4 => q < 24 /\ d = 0)
  BY SMT DEF Cycles
<1>s. /\ r4 \in Nat /\ r4 = y * 365 + d /\ r4 < 1461
      /\ r100 \in Nat /\ r100 = q * 1461 + r4 /\ r100 < 36524
      /\ r400 \in Nat /\ r400 = c * 36524 + r100 /\ r400 < 146097
      /\ n = a * 146097 + r400
  BY SMT, <1>1, <1>2
<1> HIDE DEF r4, r100, r400
<1>3. n \div 146097 = a /\ n % 146097 = r400
  BY SMT, <1>1, <1>s, Quotient
<1>4. r400 \div 36524 = c /\ r400 % 36524 = r100
  BY SMT, <1>1, <1>s, Quotient
<1>5. r100 \div 1461 = q /\ r100 % 1461 = r4
  BY SMT, <1>1, <1>s, Quotient
<1>6. r4 \div 365 = y /\ r4 % 365 = d
  BY SMT, <1>1, <1>s, Quotient
<1>7. /\ DaysOfOneYear = 365 /\ DaysOfFourYear = 1461
      /\ DaysOfHundredYear = 36524 /\ DaysOfFourHundredYear = 146097
  BY SMT DEF DaysOfOneYear, DaysOfFourYear, DaysOfHundredYear, DaysOfFourHundredYear
<1>8. /\ n \div DaysOfFourHundredYear = a /\ n % DaysOfFourHundredYear = r400
      /\ r400 \div DaysOfHundredYear = c /\ r400 % DaysOfHundredYear = r100
      /\ r100 \div DaysOfFourYear = q /\ r100 % DaysOfFourYear = r4
      /\ r4 \div DaysOfOneYear = y /\ r4 % DaysOfOneYear = d
  BY SMT, <1>3, <1>4, <1>5, <1>6, <1>7
<1>9. SplitYears(n)
        = IF c = 4 THEN [year |-> 400 * a + c * 100, day |-> r100, leap |-> TRUE]
          ELSE [year |-> 400 * a + c * 100 + q * 4 + y, day |-> d, leap |-> y = 4]
  BY ZenonT(30), <1>8 DEF SplitYears
<1>10. CASE c = 4
  <2>1. r100 = 0 /\ 400 * a + c * 100 = MarchYear(a, c, q, y)
    BY SMT, <1>1, <1>2, <1>10, <1>s DEF MarchYear
  <2> QED
    BY ZenonT(30), <1>9, <1>10, <2>1 DEF LeapDay
<1>11. CASE c # 4
  <2>1. 400 * a + c * 100 + q * 4 + y = MarchYear(a, c, q, y)
    BY SMT, <1>1 DEF MarchYear
  <2>2. SplitYears(n)
          = [year |-> MarchYear(a, c, q, y), day |-> d, leap |-> y = 4]
    BY ZenonT(30), <1>9, <1>11, <2>1
  <2>3. CASE y = 4
    <3>1. d = 0 /\ (y = 4) = TRUE
      BY <1>2, <2>3
    <3> QED
      BY ZenonT(30), <1>11, <2>2, <2>3, <3>1 DEF LeapDay
  <2>4. CASE y # 4
    <3>1. (y = 4) = FALSE
      BY <2>4
    <3> QED
      BY ZenonT(30), <1>11, <2>2, <2>4, <3>1 DEF MarchDay
  <2> QED
    BY <2>3, <2>4
<1> QED
  BY <1>10, <1>11

(* Day d of the year that begins with March is in month m of that year.    *)
InMonth(d, m) ==
  /\ m \in 0..11 /\ DAYS_OF_MONTH[m + 1] <= d
  /\ d < IF m = 11 THEN 365 ELSE DAYS_OF_MONTH[m + 2]

(* The months by their first days are those get_calendar_from_epoch        *)
(* computes by a division.                                                 *)
LEMMA MonthOfDay ==
  ASSUME NEW d \in Nat, d <= 364
  PROVE  InMonth(d, (d * 5 + 2) \div 153)
<1> DEFINE x == d * 5 + 2
           m == x \div 153
<1>1. x \in Nat /\ x <= 1822
  BY SMT
<1>2. m \in Int /\ 153 * m <= x /\ x < 153 * m + 153
  BY SMT, <1>1, ModRange
<1>3. m \in 0..11
  BY SMT, <1>1, <1>2
<1>4. 153 * m <= d * 5 + 2 /\ d * 5 + 2 < 153 * m + 153
  BY SMT, <1>2
<1> HIDE DEF m
<1>5. DAYS_OF_MONTH[m + 1] <= d
  BY SMT, <1>3, <1>4 DEF DAYS_OF_MONTH
<1>6. d < IF m = 11 THEN 365 ELSE DAYS_OF_MONTH[m + 2]
  BY SMT, <1>3, <1>4 DEF DAYS_OF_MONTH
<1> QED
  BY SMT, <1>3, <1>5, <1>6 DEF InMonth, m

(* A day is in one month only.                                             *)
LEMMA OneMonth ==
  ASSUME NEW d \in Nat, NEW m, NEW n, InMonth(d, m), InMonth(d, n)
  PROVE  m = n
BY SMT DEF InMonth, DAYS_OF_MONTH

(* The date of day d, by its month m.                                      *)
DateIn(year, d, m) ==
  [year  |-> IF m > 9 THEN year + 1 ELSE year,
   month |-> IF m > 9 THEN m - 9 ELSE m + 3,
   day   |-> d - DAYS_OF_MONTH[m + 1] + 1]

(* The date of a day, once the month it lies in is known.                  *)
LEMMA DateByMonth ==
  ASSUME NEW year \in Nat, NEW d \in Nat, NEW m, d <= 364, InMonth(d, m)
  PROVE  DateOf(MarchDay(year, d)) = DateIn(year, d, m)
<1> DEFINE n == (d * 5 + 2) \div 153
<1>1. n = m
  BY MonthOfDay, OneMonth
<1> HIDE DEF n
<1> DEFINE y == MarchDay(year, d)
<1>2. y.year = year /\ y.day = d /\ ~ y.leap
  BY DEF MarchDay
<1>3. (y.day * 5 + 2) \div 153 = n
  BY <1>2 DEF n
<1> HIDE DEF y
<1>4. DateOf(y) = DateIn(year, d, n)
  BY <1>2, <1>3 DEF DateOf, DateIn
<1> QED
  BY <1>1, <1>4 DEF y

(* Tomorrow by the fields of a date.                                       *)
LEMMA TomorrowFields ==
  ASSUME NEW year, NEW month, NEW k
  PROVE  Tomorrow([year |-> year, month |-> month, day |-> k])
           = IF k < LengthOfMonth(year, month)
             THEN [year |-> year, month |-> month, day |-> k + 1]
             ELSE IF month < 12
             THEN [year |-> year, month |-> month + 1, day |-> 1]
             ELSE [year |-> year + 1, month |-> 1, day |-> 1]
<1> DEFINE today == [year |-> year, month |-> month, day |-> k]
<1>1. /\ today.year = year /\ today.month = month /\ today.day = k
      /\ today = [year |-> today.year, month |-> today.month, day |-> today.day]
  OBVIOUS
<1> HIDE DEF today
<1>2. [today EXCEPT !.day = @ + 1] = [year |-> year, month |-> month, day |-> k + 1]
  BY <1>1
<1>3. [today EXCEPT !.day = 1, !.month = @ + 1]
        = [year |-> year, month |-> month + 1, day |-> 1]
  <2> DEFINE first == [today EXCEPT !.day = 1]
  <2>1. /\ first = [year |-> year, month |-> month, day |-> 1]
        /\ first.month = month
    BY <1>1
  <2> HIDE DEF first
  <2>2. [first EXCEPT !.month = month + 1]
          = [year |-> year, month |-> month + 1, day |-> 1]
    BY <2>1
  <2> QED
    BY <1>1, <2>2 DEF first
<1> QED
  BY <1>1, <1>2, <1>3 DEF Tomorrow, today

(* Every month but February is as long as the first days say.              *)
LEMMA MonthLength ==
  ASSUME NEW year, NEW m \in 0..10
  PROVE  LengthOfMonth(year, IF m > 9 THEN m - 9 ELSE m + 3)
           = DAYS_OF_MONTH[m + 2] - DAYS_OF_MONTH[m + 1]
<1> DEFINE month == IF m > 9 THEN m - 9 ELSE m + 3
<1>1. /\ month \in Nat /\ month # 2
      /\ (month \in {4, 6, 9, 11}) = (m \in {1, 3, 6, 8})
  OBVIOUS
<1>2. DAYS_OF_MONTH[m + 2] - DAYS_OF_MONTH[m + 1]
        = IF m \in {1, 3, 6, 8} THEN 30 ELSE 31
  BY SMT DEF DAYS_OF_MONTH
<1> HIDE DEF month
<1>3. LengthOfMonth(year, month) = IF month \in {4, 6, 9, 11} THEN 30 ELSE 31
  BY <1>1 DEF LengthOfMonth
<1> QED
  BY <1>1, <1>2, <1>3 DEF month

(* Inside a year that begins with March the next day has the next date.    *)
LEMMA TomorrowInYear ==
  ASSUME NEW year \in Nat, NEW d \in Nat, d < 364
  PROVE  Tomorrow(DateOf(MarchDay(year, d)))
           = DateOf(MarchDay(year, d + 1))
<1>1. PICK m : InMonth(d, m)
  BY SMT, MonthOfDay
<1>2. PICK n : InMonth(d + 1, n)
  BY SMT, MonthOfDay
<1>3. /\ DateOf(MarchDay(year, d)) = DateIn(year, d, m)
      /\ DateOf(MarchDay(year, d + 1)) = DateIn(year, d + 1, n)
  BY SMT, <1>1, <1>2, DateByMonth
<1> DEFINE month == IF m > 9 THEN m - 9 ELSE m + 3
           today == DateIn(year, d, m)
           length == LengthOfMonth(today.year, today.month)
<1>4. /\ m \in 0..11 /\ DAYS_OF_MONTH[m + 1] \in Nat /\ DAYS_OF_MONTH[m + 1] <= d
      /\ n \in 0..11
  BY SMT, <1>1, <1>2 DEF InMonth, DAYS_OF_MONTH
<1>5. /\ today.day = d - DAYS_OF_MONTH[m + 1] + 1 /\ today.month = month
      /\ today.year = IF m > 9 THEN year + 1 ELSE year
  BY DEF DateIn
<1>6. CASE m = n
  <2>1. today.day < length
    <3>1. CASE m = 11
      <4>1. today.day < 28
        BY SMT, <1>2, <1>4, <1>5, <1>6, <3>1 DEF DAYS_OF_MONTH
      <4>2. length \in {28, 29}
        BY <1>5, <3>1 DEF LengthOfMonth
      <4>3. today.day \in Int
        BY <1>4, <1>5
      <4> HIDE DEF today, length
      <4> QED
        BY <4>1, <4>2, <4>3
    <3>2. CASE m \in 0..10
      <4>1. length = DAYS_OF_MONTH[m + 2] - DAYS_OF_MONTH[m + 1]
        BY <1>5, <3>2, MonthLength
      <4>2. d + 1 < DAYS_OF_MONTH[m + 2] /\ DAYS_OF_MONTH[m + 2] \in Nat
        BY SMT, <1>2, <1>6, <3>2 DEF InMonth, DAYS_OF_MONTH
      <4> HIDE DEF today, length
      <4> QED
        BY <4>1, <4>2, <1>4, <1>5
    <3> QED
      BY <1>4, <3>1, <3>2
  <2>2. Tomorrow(today) = [today EXCEPT !.day = @ + 1]
    BY <2>1 DEF Tomorrow
  <2>3. [today EXCEPT !.day = @ + 1] = DateIn(year, d + 1, m)
    BY <1>4 DEF DateIn
  <2> QED
    BY <1>3, <1>6, <2>2, <2>3
<1>7. CASE m # n
  <2>1. m \in 0..10 /\ n = m + 1 /\ d + 1 = DAYS_OF_MONTH[m + 2]
    BY SMT, <1>1, <1>2, <1>7 DEF InMonth, DAYS_OF_MONTH
  <2>2. length = today.day /\ today.day \in Int
    <3>1. length = DAYS_OF_MONTH[m + 2] - DAYS_OF_MONTH[m + 1]
      BY <1>5, <2>1, MonthLength
    <3> HIDE DEF today, length
    <3> QED
      BY <3>1, <2>1, <1>4, <1>5
  <2>3. Tomorrow(today) = IF today.month < 12
                          THEN [today EXCEPT !.day = 1, !.month = @ + 1]
                          ELSE [year |-> today.year + 1, month |-> 1, day |-> 1]
    <3> HIDE DEF today
    <3> QED
      BY <2>2 DEF Tomorrow
  <2>4. DateIn(year, d + 1, n) = [year |-> IF n > 9 THEN year + 1 ELSE year,
                                  month |-> IF n > 9 THEN n - 9 ELSE n + 3, day |-> 1]
    BY <2>1 DEF DateIn
  <2>5. today = [year |-> today.year, month |-> today.month, day |-> today.day]
    BY DEF DateIn
  <2>t. Tomorrow(today) = IF today.month < 12
                          THEN [year |-> today.year, month |-> today.month + 1, day |-> 1]
                          ELSE [year |-> today.year + 1, month |-> 1, day |-> 1]
    <3> HIDE DEF today
    <3> QED
      BY ZenonT(30), <2>3, <2>5
  <2>6. m = 9 => Tomorrow(today) = DateIn(year, d + 1, n)
    <3> HAVE m = 9
    <3>1. today.month = 12 /\ today.year = year /\ n = 10
      BY SMTT(30), <1>5, <2>1
    <3> HIDE DEF today
    <3> QED
      BY <3>1, <2>4, <2>t
  <2>7. m = 10 => Tomorrow(today) = DateIn(year, d + 1, n)
    <3> HAVE m = 10
    <3>1. today.month = 1 /\ today.year = year + 1 /\ n = 11
      BY SMTT(30), <1>5, <2>1
    <3> HIDE DEF today
    <3> QED
      BY <3>1, <2>4, <2>t
  <2>8. m \in 0..8 => Tomorrow(today) = DateIn(year, d + 1, n)
    <3> HAVE m \in 0..8
    <3>1. today.month = m + 3 /\ today.year = year /\ n = m + 1
      BY <1>5, <2>1
    <3>2. m + 3 < 12 /\ ~(m + 1 > 9) /\ m + 3 + 1 = m + 1 + 3
      OBVIOUS
    <3> HIDE DEF today
    <3> QED
      BY <3>1, <3>2, <2>4, <2>t
  <2>9. Tomorrow(today) = DateIn(year, d + 1, n)
    BY <2>1, <2>6, <2>7, <2>8
  <2> QED
    BY <1>3, <2>9
<1> QED
  BY <1>6, <1>7

(* Every count of days has its cycles.                                     *)
LEMMA HasCycles ==
  ASSUME NEW n \in Nat
  PROVE  \E a, c, q, y, d : Cycles(n, a, c, q, y, d)
<1> DEFINE a == n \div 146097
           r400 == n % 146097
           c == r400 \div 36524
           r100 == r400 % 36524
           q == r100 \div 1461
           r4 == r100 % 1461
           y == r4 \div 365
           d == r4 % 365
<1>1. a \in Nat /\ r400 \in Nat /\ r400 < 146097 /\ n = 146097 * a + r400
  BY SMT, ModRange, QuotientNat
<1> HIDE DEF a, r400
<1>2. c \in Nat /\ r100 \in Nat /\ r100 < 36524 /\ r400 = 36524 * c + r100
  BY SMT, <1>1, ModRange, QuotientNat
<1> HIDE DEF c, r100
<1>3. q \in Nat /\ r4 \in Nat /\ r4 < 1461 /\ r100 = 1461 * q + r4
  BY SMT, <1>2, ModRange, QuotientNat
<1> HIDE DEF q, r4
<1>4. y \in Nat /\ d \in Nat /\ d < 365 /\ r4 = 365 * y + d
  BY SMT, <1>3, ModRange, QuotientNat
<1> HIDE DEF y, d
<1>5. c <= 4 /\ q <= 24 /\ y <= 4 /\ d <= 364
  BY SMT, <1>1, <1>2, <1>3, <1>4
<1>6. (c = 4 => q = 0 /\ y = 0 /\ d = 0) /\ (y = 4 => q < 24 /\ d = 0)
  BY SMT, <1>1, <1>2, <1>3, <1>4
<1>7. n = 146097 * a + 36524 * c + 1461 * q + 365 * y + d
  BY SMT, <1>1, <1>2, <1>3, <1>4
<1>8. Cycles(n, a, c, q, y, d)
  BY SMT, <1>1, <1>2, <1>3, <1>4, <1>5, <1>6, <1>7 DEF Cycles
<1> QED
  BY SMT, <1>8

(* The year that follows is a leap year when it ends a cycle of 4 years    *)
(* that does not end a century, or ends a fourth century.                  *)
LEMMA LeapCycles ==
  ASSUME NEW a \in Nat, NEW c \in Nat, NEW q \in Nat, NEW y \in Nat,
         c < 4, q <= 24, y < 4
  PROVE  Leap(MarchYear(a, c, q, y) + 1)
           <=> y = 3 /\ (q < 24 \/ c = 3)
<1> DEFINE x == MarchYear(a, c, q, y) + 1
<1>0. x = 400 * a + 100 * c + 4 * q + y + 1
  BY DEF MarchYear
<1> SUFFICES Leap(x) <=> y = 3 /\ (q < 24 \/ c = 3)
  OBVIOUS
<1> HIDE DEF x
<1>1. CASE y # 3
  <2>1. x % 4 = y + 1
    <3>1. 100 * a + 25 * c + q \in Nat /\ x = (100 * a + 25 * c + q) * 4 + (y + 1)
      BY SMT, <1>0
    <3> QED
      BY SMT, <1>1, <3>1, Quotient
  <2> QED
    BY <1>1, <2>1 DEF Leap
<1>2. CASE y = 3
  <2>1. x % 4 = 0
    <3>1. 100 * a + 25 * c + q + 1 \in Nat /\ x = (100 * a + 25 * c + q + 1) * 4 + 0
      BY SMT, <1>0, <1>2
    <3> QED
      BY SMT, <3>1, Quotient
  <2>2. CASE q < 24
    <3>1. x % 100 = 4 * q + 4
      <4>1. 4 * a + c \in Nat /\ x = (4 * a + c) * 100 + (4 * q + 4)
        BY SMT, <1>0, <1>2
      <4> QED
        BY SMT, <2>2, <4>1, Quotient
    <3> QED
      BY SMT, <1>2, <2>1, <2>2, <3>1 DEF Leap
  <2>3. CASE q = 24
    <3>1. x % 100 = 0
      <4>1. 4 * a + c + 1 \in Nat /\ x = (4 * a + c + 1) * 100 + 0
        BY SMT, <1>0, <1>2, <2>3
      <4> QED
        BY SMT, <4>1, Quotient
    <3>2. CASE c = 3
      <4>1. a + 1 \in Nat /\ x = (a + 1) * 400 + 0
        BY SMT, <1>0, <1>2, <2>3, <3>2
      <4>2. x % 400 = 0
        BY SMT, <4>1, Quotient
      <4> QED
        BY SMT, <1>2, <2>1, <3>2, <4>2 DEF Leap
    <3>3. CASE c # 3
      <4>1. 100 * c + 100 \in Nat /\ x = a * 400 + (100 * c + 100)
        BY SMT, <1>0, <1>2, <2>3
      <4>2. x % 400 = 100 * c + 100
        BY SMT, <3>3, <4>1, Quotient
      <4> QED
        BY SMT, <1>2, <2>3, <3>1, <3>3, <4>2 DEF Leap
    <3> QED
      BY <3>2, <3>3
  <2> QED
    BY SMT, <2>2, <2>3
<1> QED
  BY SMT, <1>1, <1>2

(* The 28th of February is the last day 364, and the days that follow it.  *)
LEMMA EndOfFebruary ==
  ASSUME NEW year \in Nat
  PROVE  Tomorrow(DateOf(MarchDay(year, 364)))
           = IF Leap(year + 1) THEN [year |-> year + 1, month |-> 2, day |-> 29]
                               ELSE [year |-> year + 1, month |-> 3, day |-> 1]
<1> DEFINE today == [year |-> year + 1, month |-> 2, day |-> 28]
<1>1. InMonth(364, 11)
  BY SMT DEF InMonth, DAYS_OF_MONTH
<1>2. DateOf(MarchDay(year, 364)) = DateIn(year, 364, 11)
  BY SMT, <1>1, DateByMonth
<1>3. DateIn(year, 364, 11) = today
  BY SMT DEF DateIn, DAYS_OF_MONTH
<1>4. LengthOfMonth(year + 1, 2) = IF Leap(year + 1) THEN 29 ELSE 28
  BY DEF LengthOfMonth
<1>5. Tomorrow(today) = IF 28 < LengthOfMonth(year + 1, 2)
                        THEN [year |-> year + 1, month |-> 2, day |-> 28 + 1]
                        ELSE IF 2 < 12
                        THEN [year |-> year + 1, month |-> 2 + 1, day |-> 1]
                        ELSE [year |-> year + 1 + 1, month |-> 1, day |-> 1]
  BY Zenon, TomorrowFields
<1> HIDE DEF today
<1> QED
  BY <1>2, <1>3, <1>4, <1>5

(* The first day of a year that begins with March.                         *)
LEMMA FirstOfMarch ==
  ASSUME NEW year \in Nat
  PROVE  DateOf(MarchDay(year, 0))
           = [year |-> year, month |-> 3, day |-> 1]
<1>1. InMonth(0, 0)
  BY SMT DEF InMonth, DAYS_OF_MONTH
<1>2. DateOf(MarchDay(year, 0)) = DateIn(year, 0, 0)
  BY SMT, <1>1, DateByMonth
<1> QED
  BY SMT, <1>2 DEF DateIn, DAYS_OF_MONTH

(* The leap day, and the day after it.                                     *)
LEMMA DateOfLeapDay ==
  ASSUME NEW year \in Nat, Leap(year)
  PROVE  /\ DateOf(LeapDay(year)) = [year |-> year, month |-> 2, day |-> 29]
         /\ Tomorrow(DateOf(LeapDay(year))) = [year |-> year, month |-> 3, day |-> 1]
<1> DEFINE y == LeapDay(year)
           today == [year |-> year, month |-> 2, day |-> 29]
<1>1. y.leap /\ y.year = year
  BY SMTT(30) DEF LeapDay
<1> HIDE DEF y
<1>2. DateOf(y) = today
  BY <1>1 DEF DateOf
<1>3. LengthOfMonth(year, 2) = 29
  BY DEF LengthOfMonth
<1>4. Tomorrow(today) = IF 29 < LengthOfMonth(year, 2)
                        THEN [year |-> year, month |-> 2, day |-> 29 + 1]
                        ELSE IF 2 < 12
                        THEN [year |-> year, month |-> 2 + 1, day |-> 1]
                        ELSE [year |-> year + 1, month |-> 1, day |-> 1]
  BY ZenonT(30), TomorrowFields
<1>5. Tomorrow(today) = [year |-> year, month |-> 3, day |-> 1]
  <2> HIDE DEF today
  <2> QED
    BY <1>3, <1>4
<1> QED
  BY Zenon, <1>2, <1>5 DEF y

(* The day after a leap day.                                               *)
LEMMA AfterLeapDay ==
  ASSUME NEW n, NEW a, NEW c, NEW q, NEW y, NEW d, Cycles(n, a, c, q, y, d),
         c = 4 \/ y = 4
  PROVE  DateOf(SplitYears(n + 1)) = Tomorrow(DateOf(SplitYears(n)))
<1> DEFINE year == MarchYear(a, c, q, y)
<1>1. /\ a \in Nat /\ c \in Nat /\ q \in Nat /\ y \in Nat /\ d \in Nat
      /\ c <= 4 /\ q <= 24 /\ y <= 4 /\ d = 0
      /\ n = 146097 * a + 36524 * c + 1461 * q + 365 * y + d
      /\ c = 4 => q = 0 /\ y = 0
      /\ y = 4 => q < 24
  BY SMT DEF Cycles
<1>2. SplitYears(n) = LeapDay(year)
  BY SplitCycles
<1>3. CASE c = 4
  <2>1. Cycles(n + 1, a + 1, 0, 0, 0, 0)
    BY SMT, <1>1, <1>3 DEF Cycles
  <2>2. /\ year \in Nat /\ MarchYear(a + 1, 0, 0, 0) = year
        /\ MarchYear(a, 3, 24, 3) + 1 = year
    BY SMT, <1>1, <1>3 DEF MarchYear
  <2>3. Leap(MarchYear(a, 3, 24, 3) + 1)
    BY SMT, <1>1, LeapCycles
  <2>4. SplitYears(n + 1) = MarchDay(MarchYear(a + 1, 0, 0, 0), 0)
    BY SMT, <2>1, SplitCycles
  <2> HIDE DEF year
  <2> QED
    BY <1>2, <2>2, <2>3, <2>4, DateOfLeapDay, FirstOfMarch
<1>4. CASE c # 4
  <2>1. Cycles(n + 1, a, c, q + 1, 0, 0)
    BY SMT, <1>1, <1>4 DEF Cycles
  <2>2. /\ year \in Nat /\ MarchYear(a, c, q + 1, 0) = year
        /\ MarchYear(a, c, q, 3) + 1 = year
        /\ c < 4 /\ q < 24
    BY SMT, <1>1, <1>4 DEF MarchYear
  <2>3. Leap(MarchYear(a, c, q, 3) + 1)
    BY SMT, <1>1, <2>2, LeapCycles
  <2>4. SplitYears(n + 1) = MarchDay(MarchYear(a, c, q + 1, 0), 0)
    BY SMT, <1>4, <2>1, SplitCycles
  <2> HIDE DEF year
  <2> QED
    BY <1>2, <2>2, <2>3, <2>4, DateOfLeapDay, FirstOfMarch
<1> QED
  BY <1>3, <1>4

(* The day after the last ordinary day of a year that begins with March.   *)
LEMMA AfterLastDay ==
  ASSUME NEW n, NEW a, NEW c, NEW q, NEW y, NEW d, Cycles(n, a, c, q, y, d),
         c # 4, y # 4, d = 364
  PROVE  DateOf(SplitYears(n + 1)) = Tomorrow(DateOf(SplitYears(n)))
<1> DEFINE year == MarchYear(a, c, q, y)
<1>1. /\ a \in Nat /\ c \in Nat /\ q \in Nat /\ y \in Nat
      /\ c < 4 /\ y < 4 /\ q <= 24
      /\ n = 146097 * a + 36524 * c + 1461 * q + 365 * y + 364
  BY SMT DEF Cycles
<1>2. year \in Nat /\ year + 1 \in Nat
  BY SMT, <1>1 DEF MarchYear
<1>3. SplitYears(n) = MarchDay(year, 364)
  BY SMT, SplitCycles
<1>4. Leap(year + 1) <=> y = 3 /\ (q < 24 \/ c = 3)
  BY SMT, <1>1, LeapCycles
<1>5. CASE y = 3 /\ (q < 24 \/ c = 3)
  <2>1. SplitYears(n + 1) = LeapDay(year + 1)
    <3>1. CASE q < 24
      <4>1. Cycles(n + 1, a, c, q, 4, 0) /\ MarchYear(a, c, q, 4) = year + 1
        BY SMT, <1>1, <1>5, <3>1 DEF Cycles, MarchYear
      <4> QED
        BY SMT, <4>1, SplitCycles
    <3>2. CASE ~(q < 24)
      <4>1. c = 3 /\ q = 24 /\ y = 3
        BY SMT, <1>1, <1>5, <3>2
      <4>2. Cycles(n + 1, a, 4, 0, 0, 0) /\ MarchYear(a, 4, 0, 0) = year + 1
        BY SMT, <1>1, <4>1 DEF Cycles, MarchYear
      <4> QED
        BY SMT, <4>2, SplitCycles
    <3> QED
      BY <3>1, <3>2
  <2> HIDE DEF year
  <2>2. DateOf(SplitYears(n + 1)) = [year |-> year + 1, month |-> 2, day |-> 29]
    BY SMT, <1>2, <1>4, <1>5, <2>1, DateOfLeapDay
  <2>3. Tomorrow(DateOf(SplitYears(n))) = [year |-> year + 1, month |-> 2, day |-> 29]
    BY SMT, <1>2, <1>3, <1>4, <1>5, EndOfFebruary
  <2> QED
    BY <2>2, <2>3
<1>6. CASE ~(y = 3 /\ (q < 24 \/ c = 3))
  <2>1. SplitYears(n + 1) = MarchDay(year + 1, 0)
    <3>1. CASE y # 3
      <4>1. /\ Cycles(n + 1, a, c, q, y + 1, 0) /\ y + 1 # 4
            /\ MarchYear(a, c, q, y + 1) = year + 1
        BY SMT, <1>1, <3>1 DEF Cycles, MarchYear
      <4> QED
        BY SMT, <4>1, SplitCycles
    <3>2. CASE y = 3
      <4>1. q = 24 /\ c + 1 # 4
        BY SMT, <1>1, <1>6, <3>2
      <4>2. /\ Cycles(n + 1, a, c + 1, 0, 0, 0)
            /\ MarchYear(a, c + 1, 0, 0) = year + 1
        BY SMT, <1>1, <3>2, <4>1 DEF Cycles, MarchYear
      <4> QED
        BY SMT, <4>1, <4>2, SplitCycles
    <3> QED
      BY <3>1, <3>2
  <2> HIDE DEF year
  <2>2. DateOf(SplitYears(n + 1)) = [year |-> year + 1, month |-> 3, day |-> 1]
    BY SMT, <1>2, <2>1, FirstOfMarch
  <2>3. Tomorrow(DateOf(SplitYears(n))) = [year |-> year + 1, month |-> 3, day |-> 1]
    BY SMT, <1>2, <1>3, <1>4, <1>6, EndOfFebruary
  <2> QED
    BY <2>2, <2>3
<1> QED
  BY <1>5, <1>6

(* The date get_calendar_from_epoch computes for a day is the day after    *)
(* the date of the day before, whatever the day.                           *)
THEOREM DatesFollow ==
  ASSUME NEW n \in Nat
  PROVE  DateOf(SplitYears(n + 1)) = Tomorrow(DateOf(SplitYears(n)))
<1>1. PICK a, c, q, y, d : Cycles(n, a, c, q, y, d)
  BY HasCycles
<1>2. CASE c = 4 \/ y = 4
  BY <1>1, <1>2, AfterLeapDay
<1>3. CASE c # 4 /\ y # 4 /\ d = 364
  BY SMT, <1>1, <1>3, AfterLastDay
<1>4. CASE c # 4 /\ y # 4 /\ d # 364
  <2> DEFINE year == MarchYear(a, c, q, y)
  <2>1. year \in Nat /\ d \in Nat /\ d < 364
    BY SMT, <1>1, <1>4 DEF Cycles, MarchYear
  <2>2. Cycles(n + 1, a, c, q, y, d + 1)
    BY SMT, <1>1, <1>4 DEF Cycles
  <2>3. SplitYears(n) = MarchDay(year, d) /\ SplitYears(n + 1) = MarchDay(year, d + 1)
    BY SMTT(30), <1>1, <1>4, <2>2, SplitCycles
  <2> HIDE DEF year
  <2> QED
    BY SMT, <2>1, <2>3, TomorrowInYear
<1> QED
  BY SMT, <1>2, <1>3, <1>4

(* A date is a record, with a year that is no negative number.             *)
LEMMA DateShape ==
  ASSUME NEW n \in Nat
  PROVE  \E year \in Nat : \E month, k :
           DateOf(SplitYears(n)) = [year |-> year, month |-> month, day |-> k]
<1>1. PICK a, c, q, y, d : Cycles(n, a, c, q, y, d)
  BY HasCycles
<1> DEFINE year == MarchYear(a, c, q, y)
<1>2. year \in Nat /\ d \in Nat /\ d <= 364
  BY SMT, <1>1 DEF Cycles, MarchYear
<1>3. CASE c = 4 \/ y = 4
  <2>1. SplitYears(n) = LeapDay(year)
    BY <1>1, <1>3, SplitCycles
  <2> DEFINE l == LeapDay(year)
  <2>2. l.leap /\ l.year = year
    BY SMTT(30) DEF LeapDay
  <2> HIDE DEF l, year
  <2>3. DateOf(l) = [year |-> year, month |-> 2, day |-> 29]
    BY <2>2 DEF DateOf
  <2> QED
    BY Zenon, <1>2, <2>1, <2>3 DEF l
<1>4. CASE ~(c = 4 \/ y = 4)
  <2>1. SplitYears(n) = MarchDay(year, d)
    BY <1>1, <1>4, SplitCycles
  <2>2. PICK m : InMonth(d, m)
    BY SMT, <1>2, MonthOfDay
  <2> HIDE DEF year
  <2>3. DateOf(SplitYears(n)) = DateIn(year, d, m)
    BY SMT, <1>2, <2>1, <2>2, DateByMonth
  <2>4. (IF m > 9 THEN year + 1 ELSE year) \in Nat
    BY <1>2
  <2> QED
    BY Zenon, <2>3, <2>4 DEF DateIn
<1> QED
  BY <1>3, <1>4

(* Day 0 is the first of January 1970.                                     *)
LEMMA EpochDate == DateOf(SplitYears(0 + EpochFromMarch)) = Epoch
<1>1. EpochFromMarch = 719468
  BY SMT DEF EpochFromMarch
<1>2. Cycles(719468, 4, 3, 17, 1, 306) /\ MarchYear(4, 3, 17, 1) = 1969
  BY SMT DEF Cycles, MarchYear
<1>3. SplitYears(719468) = MarchDay(1969, 306)
  BY SMT, <1>2, SplitCycles
<1>4. InMonth(306, 10)
  BY SMT DEF InMonth, DAYS_OF_MONTH
<1>5. DateOf(MarchDay(1969, 306)) = DateIn(1969, 306, 10)
  BY SMT, <1>4, DateByMonth
<1>6. DateIn(1969, 306, 10) = Epoch
  BY SMT DEF DateIn, Epoch, DAYS_OF_MONTH
<1> QED
  BY SMT, <1>1, <1>3, <1>5, <1>6

(* Hours, minutes and seconds of a time of the day, whatever their number  *)
(* in a day.                                                               *)
LEMMA TimeOfDay ==
  ASSUME NEW k \in Nat, NEW s \in 0..SecondsOfDay - 1, NEW sec,
         sec = k * SecondsOfDay + s
  PROVE  /\ sec \div SecondsOfDay = k
         /\ (sec \div (MinuteLen * HourLen)) % DayLen < DayLen
         /\ (sec \div MinuteLen) % HourLen < HourLen
         /\ sec % MinuteLen < MinuteLen
         /\ (((sec \div (MinuteLen * HourLen)) % DayLen) * HourLen
               + ((sec \div MinuteLen) % HourLen)) * MinuteLen
              + (sec % MinuteLen) = s
<1> DEFINE M == MinuteLen
           H == HourLen
           D == DayLen
           L == M * H
           h == s \div L
           r == s % L
           m == r \div M
           t == r % M
<1>1. M \in Nat \ {0} /\ H \in Nat \ {0} /\ D \in Nat \ {0}
  BY CalendarAssumption
<1> HIDE DEF M, H, D
<1>2. L \in Nat \ {0} /\ SecondsOfDay = L * D
  BY <1>1 DEF SecondsOfDay, M, H, D
<1>3. L * D \in Nat \ {0} /\ s \in Nat /\ s < L * D
  BY <1>1, <1>2
<1>L. L = M * H
  OBVIOUS
<1> HIDE DEF L
<1>4. h \in Nat /\ r \in Nat /\ r < L /\ s = L * h + r
  <2>0. s \in Int /\ L \in Nat \ {0}
    BY <1>2, <1>3
  <2>1. r \in 0..L - 1 /\ s = L * h + r
    BY <2>0, ModRange
  <2>2. h \in Nat
    BY <1>2, <1>3, QuotientNat
  <2> HIDE DEF h, r
  <2> QED
    BY <1>2, <2>1, <2>2
<1> HIDE DEF h, r
<1>5. m \in Nat /\ t \in Nat /\ t < M /\ r = M * m + t
  <2>1. t \in 0..M - 1 /\ r = M * m + t
    BY <1>1, <1>4, ModRange
  <2>2. m \in Nat
    BY <1>1, <1>4, QuotientNat
  <2> HIDE DEF m, t
  <2> QED
    BY <1>1, <2>1, <2>2
<1> HIDE DEF m, t
<1>6. h < D
  <2>1. SUFFICES ASSUME h >= D PROVE FALSE
    BY <1>1, <1>4
  <2>2. L * h = L * D + L * (h - D) /\ h - D \in Nat /\ L * (h - D) \in Nat
    BY <1>1, <1>2, <1>4, <2>1
  <2> QED
    BY <1>2, <1>3, <1>4, <2>2
<1>7. m < H
  <2>1. SUFFICES ASSUME m >= H PROVE FALSE
    BY <1>1, <1>5
  <2>2. M * m = M * H + M * (m - H) /\ m - H \in Nat /\ M * (m - H) \in Nat
    BY <1>1, <1>5, <2>1
  <2> QED
    BY <1>1, <1>4, <1>5, <1>L, <2>2
<1>8. sec \in Nat /\ sec \div SecondsOfDay = k
  <2>1. SecondsOfDay \in Nat \ {0} /\ s \in Nat /\ s < SecondsOfDay
    BY <1>2, <1>3
  <2>2. sec \in Nat
    BY <2>1
  <2> QED
    BY <2>1, <2>2, Quotient
<1>9. sec \div L = k * D + h
  <2>1. k * D + h \in Nat /\ sec = (k * D + h) * L + r
    BY <1>1, <1>2, <1>3, <1>4
  <2> QED
    BY ZenonT(30), <1>2, <1>4, <2>1, Quotient
<1>10. (sec \div L) % D = h
  BY <1>1, <1>4, <1>6, <1>9, Quotient
<1>11. sec \div M = (k * D + h) * H + m /\ sec % M = t
  <2>1. (k * D + h) * H + m \in Nat /\ sec = ((k * D + h) * H + m) * M + t
    <3>1. sec = k * (L * D) + (L * h + (M * m + t))
      BY <1>2, <1>4, <1>5
    <3>2. k * (L * D) = k * D * H * M /\ L * h = h * H * M
      BY SMTT(30), <1>1, <1>L, <1>4
    <3> QED
      BY <1>1, <1>4, <1>5, <3>1, <3>2
  <2> DEFINE z == (k * D + h) * H + m
  <2> HIDE DEF z
  <2>2. (z * M + t) \div M = z /\ (z * M + t) % M = t
    BY SMTT(30), <1>1, <1>5, <2>1, Quotient DEF z
  <2> QED
    BY Zenon, <2>1, <2>2 DEF z
<1>12. (sec \div M) % H = m
  <2>1. k * D + h \in Nat
    BY <1>1, <1>4
  <2>2. ((k * D + h) * H + m) % H = m
    <3> DEFINE w == k * D + h
    <3> HIDE DEF w
    <3>1. (w * H + m) % H = m
      BY <1>1, <1>5, <1>7, <2>1, Quotient DEF w
    <3> QED
      BY Zenon, <3>1 DEF w
  <2> QED
    BY Zenon, <1>11, <2>2
<1>13. (h * H + m) * M + t = s
  BY <1>1, <1>4, <1>5, <1>L
<1> QED
  BY SMTT(30), <1>6, <1>7, <1>5, <1>8, <1>10, <1>11, <1>12, <1>13, <1>L DEF M, H, D

(* The calendar's inductive invariant: the page shows the date that is     *)
(* computed for the day, and its year fits in sixteen bits.                *)
CalendarInv ==
  /\ day \in Nat
  /\ date = DateOf(SplitYears(day + EpochFromMarch))
  /\ date.year \in Nat /\ date.year <= LastYear

(* get_calendar_from_epoch names every second of every day by the date of  *)
(* the Gregorian calendar, for every bound on the years that 16 bits hold. *)
THEOREM CalendarAlwaysRight == CalendarSpec => []CalendarRight
<1>0. /\ EpochFromMarch \in Nat /\ LastYear \in Nat /\ LastYear < YearMod
      /\ YearMod \in Nat \ {0} /\ 1970 <= LastYear
  <2>1. EpochFromMarch \in Nat
    BY SMT DEF EpochFromMarch
  <2>2. YearMod = 65536
    BY SMT DEF YearMod
  <2>3. YearMod \in Nat \ {0}
    BY SMT, <2>2
  <2> QED
    BY SMT, <2>1, <2>3, CalendarAssumption
<1>1. CalendarInit => CalendarInv
  <2> SUFFICES ASSUME CalendarInit PROVE CalendarInv
    OBVIOUS
  <2>1. day = 0 /\ date = Epoch /\ date.year = 1970
    BY SMT DEF CalendarInit, Epoch
  <2> QED
    BY SMT, <1>0, <2>1, EpochDate DEF CalendarInv
<1>2. CalendarInv /\ [NextDay]_calendarvars => CalendarInv'
  <2> SUFFICES ASSUME CalendarInv, [NextDay]_calendarvars PROVE CalendarInv'
    OBVIOUS
  <2>1. CASE NextDay
    <3> DEFINE n == day + EpochFromMarch
    <3>1. n \in Nat /\ day' + EpochFromMarch = n + 1 /\ day' \in Nat
      BY SMT, <1>0, <2>1 DEF CalendarInv, NextDay
    <3>2. date = DateOf(SplitYears(n)) /\ date' = Tomorrow(date)
      BY <2>1 DEF CalendarInv, NextDay
    <3> HIDE DEF n
    <3>3. date' = DateOf(SplitYears(day' + EpochFromMarch))
      BY SMTT(30), <3>1, <3>2, DatesFollow
    <3>4. PICK year \in Nat : \E month, k :
            date = [year |-> year, month |-> month, day |-> k]
      BY <3>1, <3>2, DateShape
    <3>5. PICK month, k : date = [year |-> year, month |-> month, day |-> k]
      BY ZenonT(30), <3>4
    <3>6. date.year = year /\ date'.year \in {year, year + 1}
      <4>1. date' = IF k < LengthOfMonth(year, month)
                    THEN [year |-> year, month |-> month, day |-> k + 1]
                    ELSE IF month < 12
                    THEN [year |-> year, month |-> month + 1, day |-> 1]
                    ELSE [year |-> year + 1, month |-> 1, day |-> 1]
        <5>1. date' = Tomorrow([year |-> year, month |-> month, day |-> k])
          BY <3>2, <3>5
        <5> QED
          BY Zenon, <5>1, TomorrowFields
      <4> QED
        BY <3>5, <4>1
    <3>7. date.year < LastYear
      BY <2>1 DEF NextDay
    <3>8. date'.year \in Nat /\ date'.year <= LastYear
      BY SMT, <1>0, <3>4, <3>6, <3>7
    <3> QED
      BY <3>1, <3>3, <3>8 DEF CalendarInv
  <2>2. CASE UNCHANGED calendarvars
    BY <2>2 DEF CalendarInv, calendarvars
  <2> QED
    BY <2>1, <2>2
<1>3. CalendarInv => CalendarRight
  <2> SUFFICES ASSUME CalendarInv, NEW s \in 0..SecondsOfDay - 1
               PROVE  Names(get_calendar_from_epoch(day * SecondsOfDay + s), date, s)
    BY DEF CalendarRight
  <2> DEFINE sec == day * SecondsOfDay + s
             time == get_calendar_from_epoch(sec)
             hour == (sec \div (MinuteLen * HourLen)) % DayLen
             min == (sec \div MinuteLen) % HourLen
             second == sec % MinuteLen
  <2>0. day \in Nat /\ sec = day * SecondsOfDay + s
    BY DEF CalendarInv
  <2> HIDE DEF sec
  <2>1. /\ sec \div SecondsOfDay = day
        /\ hour < DayLen /\ min < HourLen /\ second < MinuteLen
        /\ (hour * HourLen + min) * MinuteLen + second = s
    BY ZenonT(30), <2>0, TimeOfDay
  <2>2. /\ time.date = [date EXCEPT !.year = @ % YearMod]
        /\ time.hour = hour /\ time.min = min /\ time.sec = second
    BY <2>1 DEF CalendarInv, get_calendar_from_epoch
  <2> HIDE DEF hour, min, second
  <2>3. date.year % YearMod = date.year
    BY SMT, <1>0, ModSmall DEF CalendarInv
  <2>4. [date EXCEPT !.year = @ % YearMod] = date
    <3>1. day + EpochFromMarch \in Nat
      BY <1>0 DEF CalendarInv
    <3>2. PICK year \in Nat : \E month, k :
            date = [year |-> year, month |-> month, day |-> k]
      BY ZenonT(30), <3>1, DateShape DEF CalendarInv
    <3> QED
      BY <2>3, <3>2
  <2> HIDE DEF time
  <2>5. Names(time, date, s)
    BY <2>1, <2>2, <2>4 DEF Names
  <2> QED
    BY <2>5 DEF time, sec
<1> QED
  BY <1>1, <1>2, <1>3, PTL DEF CalendarSpec
=============================================================================
