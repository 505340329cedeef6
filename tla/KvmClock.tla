------------------------------ MODULE KvmClock ------------------------------
(***************************************************************************)
(* The paravirtual clock: the time page the hypervisor rewrites under a    *)
(* version number, get_monotonic_time, which reads it, and those who call  *)
(* it: get_calendar, the calibration of the APIC timer, TimerFuture::new   *)
(* and the timer interrupt.                                                *)
(*                                                                         *)
(* The host runs between any two steps of the guest.  Time is observed     *)
(* only where somebody reads the TSC, so it passes there: one tick of the  *)
(* TSC is `rate' nanoseconds of true time.  The factor the code gets from  *)
(* tsc_to_system_mul and tsc_shift is the single field mul, a whole number *)
(* here.                                                                   *)
(***************************************************************************)
EXTENDS Integers

CONSTANTS
  Rates,       \* the rates the TSC may have
  Modulus,     \* 2^64 in the code: readings and differences wrap
  Window,      \* ticks of the APIC timer the calibration waits  (0x100000)
  Period,      \* length of the timer period to set up           (2 ms)
  Duration,    \* argument of TimerFuture::new
  MaxStep,     \* bound: ticks between two looks at the TSC
  MaxTsc,      \* bound: ticks of the TSC
  MaxUpdates   \* bound: times the host rewrites the page

ASSUME ClockAssumption ==
  /\ Rates \subseteq Nat \ {0} /\ Rates # {}
  /\ Modulus \in Nat \ {0}
  /\ Window \in Nat /\ Period \in Nat /\ Duration \in Nat
  /\ MaxStep \in Nat
  /\ MaxTsc \in Nat \ {0}
  /\ MaxUpdates \in Nat \ {0}

VARIABLES
  tsc,          \* the time stamp counter
  now,          \* true time, in nanoseconds since the machine was created
  rate,         \* nanoseconds per tick at present
  page,         \* KVM_CLOCK_INFO_PER_VCPU
  host,         \* where the host is in an update of the page
  order,        \* the order in which the build loads the halves of the page
  clocksource,  \* init_kvmclock found a clock source
  caller,       \* who calls get_monotonic_time (or is about to)
  pc,           \* where the call is
  nowtsc,       \* the TSC as the call read it
  old,          \* old_val
  ret,          \* what the last call returned
  start,        \* the TSC when the APIC timer was started
  base_cnt,     \* the count the APIC timer is given
  expired,      \* expired_monotonic of a registered timer
  at,           \* (history) true time when nowtsc was read
  ver,          \* (history) page.version when nowtsc was read
  prev_ver,     \* (history) the same, for the call before
  created       \* (history) true time and page.version when the timer was made

hostVars  == <<tsc, now, rate, page, host>>
callVars  == <<pc, nowtsc, old, ret, at, ver, prev_ver>>
bootVars  == <<order, clocksource, caller, start, base_cnt, expired, created>>
vars == <<hostVars, callVars, bootVars>>

Version == 0..2 * MaxUpdates

Page == [version : Version, tsc_timestamp : 0..MaxTsc, system_time : Nat,
         mul : Rates \cup {0}]

ZeroPage == [version |-> 0, tsc_timestamp |-> 0, system_time |-> 0, mul |-> 0]

(* An arbitrary time after the creation of the machine.                    *)
Init ==
  /\ tsc = 1
  /\ rate \in Rates
  /\ now = rate
  /\ page = ZeroPage
  /\ host = "idle"
  /\ order \in {"up", "down"}
  /\ clocksource = FALSE
  /\ caller = "init"
  /\ pc = "idle"
  /\ nowtsc = 0
  /\ old = ZeroPage
  /\ ret = 0
  /\ at = 0 /\ ver = 0 /\ prev_ver = 0
  /\ start = 0
  /\ base_cnt = 0
  /\ expired = 0
  /\ created = [at |-> 0, ver |-> 0]

-----------------------------------------------------------------------------
(* The host.  An update makes the version odd, writes the fields, and      *)
(* makes it even again.                                                    *)

(* Time passes by d ticks before the TSC is looked at.                     *)
Elapse(d) ==
  /\ tsc + d <= MaxTsc
  /\ tsc' = tsc + d
  /\ now' = now + d * rate

HostBegin ==
  /\ clocksource /\ host = "idle"
  /\ page.version < 2 * MaxUpdates
  /\ page' = [page EXCEPT !.version = @ + 1]
  /\ host' = "time"
  /\ UNCHANGED <<tsc, now, rate, callVars, bootVars>>

HostWriteTime ==
  /\ host = "time"
  /\ \E d \in 0..MaxStep : Elapse(d)
  /\ page' = [page EXCEPT !.tsc_timestamp = tsc', !.system_time = now']
  /\ rate' \in Rates
  /\ host' = "rate"
  /\ UNCHANGED <<callVars, bootVars>>

HostWriteRate ==
  /\ host = "rate"
  /\ page' = [page EXCEPT !.mul = rate]
  /\ host' = "end"
  /\ UNCHANGED <<tsc, now, rate, callVars, bootVars>>

HostEnd ==
  /\ host = "end"
  /\ page' = [page EXCEPT !.version = @ + 1]
  /\ host' = "idle"
  /\ UNCHANGED <<tsc, now, rate, callVars, bootVars>>

-----------------------------------------------------------------------------
(* Mutant: the bit that enables the page is not set in its address.        *)
InitKvmclock_NotEnabled ==
  /\ caller = "init"
  /\ clocksource' \in BOOLEAN
  /\ caller' = "delta"
  /\ UNCHANGED <<hostVars, callVars, order, start, base_cnt, expired, created>>

(* init_kvmclock.  With one of the two clock source features the page is   *)
(* registered, and the host fills it before the guest goes on; with none   *)
(* the page stays as it is, and start_rust goes on all the same.           *)
InitKvmclock ==
  /\ caller = "init"
  /\ \E features \in SUBSET {"CLOCKSOURCE", "CLOCKSOURCE2"} :
       /\ clocksource' = (features # {})
       /\ page' = IF features = {} THEN page
                  ELSE [version |-> 2, tsc_timestamp |-> tsc,
                        system_time |-> now, mul |-> rate]
  /\ caller' = "delta"
  /\ UNCHANGED <<tsc, now, rate, host, callVars, order, start, base_cnt,
                 expired, created>>

(* get_monotonic_time: the TSC is read once, before the loop.  It counts   *)
(* cycles, and has moved on since the last call.                           *)
ReadTsc ==
  /\ pc = "idle"
  /\ caller \in {"delta", "calendar", "before", "after", "new", "scan"}
  /\ \E d \in 1..MaxStep : Elapse(d)
  /\ nowtsc' = tsc'
  /\ at' = now'
  /\ ver' = page.version /\ prev_ver' = ver
  /\ pc' = "first"
  /\ UNCHANGED <<rate, page, host, old, ret, bootVars>>

(* The fields a load of each half of the page brings in.                   *)
LoadHead(p, into) ==
  [into EXCEPT !.version = p.version, !.tsc_timestamp = p.tsc_timestamp]

LoadTail(p, into) ==
  [into EXCEPT !.system_time = p.system_time, !.mul = p.mul]

(* read_volatile of 32 bytes is more than one load, and the language does  *)
(* not say in which order they are made.                                   *)
ReadOldFirst ==
  /\ pc = "first"
  /\ old' = IF order = "up" THEN LoadHead(page, old) ELSE LoadTail(page, old)
  /\ pc' = "second"
  /\ UNCHANGED <<hostVars, nowtsc, ret, at, ver, prev_ver, bootVars>>

ReadOldSecond ==
  /\ pc = "second"
  /\ old' = IF order = "up" THEN LoadTail(page, old) ELSE LoadHead(page, old)
  /\ pc' = "new"
  /\ UNCHANGED <<hostVars, nowtsc, ret, at, ver, prev_ver, bootVars>>

(* Mutant: the difference is taken the wrong way round.                    *)
Reading_Reversed(p, t) == (((p.tsc_timestamp - t) % Modulus) * p.mul) % Modulus

(* The computation of ret; system_time has no part in it.                  *)
Reading(p, t) == (((t - p.tsc_timestamp) % Modulus) * p.mul) % Modulus

(* version & !1                                                            *)
Even(version) == version - (version % 2)

(* Mutant: the low bit is masked on both sides, and not tested.            *)
Consistent_Masked(before, after) == Even(after) = Even(before)

(* Mutant: an even version is never accepted.                              *)
Consistent_Odd(before, after) == after % 2 = 1 /\ after = Even(before)

(* Neither of the two conditions that go round the loop again.             *)
Consistent(before, after) == after % 2 = 0 /\ after = Even(before)

Retry ==
  /\ pc = "new"
  /\ ~ Consistent(old.version, page.version)
  /\ pc' = "first"
  /\ UNCHANGED <<hostVars, nowtsc, old, ret, at, ver, prev_ver, bootVars>>

(* What the call returns to.                                               *)
Return(who) ==
  /\ pc = "new" /\ caller = who
  /\ Consistent(old.version, page.version)
  /\ ret' = Reading(old, nowtsc)
  /\ pc' = "idle"
  /\ UNCHANGED <<hostVars, nowtsc, old, at, ver, prev_ver, order,
                 clocksource>>

(* get_calendar calls it twice and uses the second result.  The wall clock *)
(* page is only written at its registration, so its loop never goes round. *)
CalendarDelta ==
  /\ Return("delta")
  /\ caller' = "calendar"
  /\ UNCHANGED <<start, base_cnt, expired, created>>

(* apic::init follows get_calendar: the timer is started, then read twice. *)
CalendarDone ==
  /\ Return("calendar")
  /\ caller' = "before"
  /\ start' = tsc
  /\ UNCHANGED <<base_cnt, expired, created>>

ApicBefore ==
  /\ Return("before")
  /\ caller' = "wait"
  /\ UNCHANGED <<start, base_cnt, expired, created>>

(* The loop that waits until the APIC timer has counted Window down.       *)
ApicWait ==
  /\ caller = "wait"
  /\ \E d \in 0..Window : tsc + d - start >= Window /\ Elapse(d)
  /\ caller' = "after"
  /\ UNCHANGED <<rate, page, host, callVars, order, clocksource, start, base_cnt,
                 expired, created>>

(* Mutant: the counter is divided by the reading, not by the difference.   *)
BaseCount_Absolute(before, after) == (Period * Window) \div (after + before + Modulus)

BaseCount(before, after) == (Period * Window) \div (after - before)

(* assert!(after > before), then the count for one period.                 *)
ApicAfter ==
  /\ Return("after")
  /\ IF ret' > ret
     THEN caller' = "new" /\ base_cnt' = BaseCount(ret, ret')
     ELSE caller' = "panic" /\ UNCHANGED base_cnt
  /\ UNCHANGED <<start, expired, created>>

(* TimerFuture::new                                                        *)
NewTimer ==
  /\ Return("new")
  /\ expired' = (ret' + Duration) % Modulus
  /\ created' = [at |-> at, ver |-> ver]
  /\ caller' = "scan"
  /\ UNCHANGED <<start, base_cnt>>

(* Mutant: the comparison of the timer interrupt the other way round.      *)
Expired_Before(nowtime) == nowtime < expired

Expired(nowtime) == nowtime > expired

(* The timer interrupt: a timer that has expired completes, and its task   *)
(* makes another.                                                          *)
Scan ==
  /\ Return("scan")
  /\ caller' = IF Expired(ret') THEN "new" ELSE "scan"
  /\ UNCHANGED <<start, base_cnt, expired, created>>

-----------------------------------------------------------------------------
Host == HostBegin \/ HostWriteTime \/ HostWriteRate \/ HostEnd

Call == ReadOldFirst \/ ReadOldSecond \/ Retry

Returned ==
  \/ CalendarDelta \/ CalendarDone \/ ApicBefore \/ ApicAfter
  \/ NewTimer \/ Scan

Guest == InitKvmclock \/ ReadTsc \/ Call \/ ApicWait \/ Returned

Next == Host \/ Guest

Spec == Init /\ [][Next]_vars

(* The guest runs and the host finishes an update it has begun.            *)
FairSpec ==
  Spec /\ WF_vars(Guest) /\ WF_vars(HostWriteTime \/ HostWriteRate \/ HostEnd)

-----------------------------------------------------------------------------
(* Every variable has its type.                                            *)
TypeOK ==
  /\ tsc \in 1..MaxTsc /\ now \in Nat /\ rate \in Rates
  /\ page \in Page /\ old \in Page
  /\ host \in {"idle", "time", "rate", "end"}
  /\ order \in {"up", "down"}
  /\ clocksource \in BOOLEAN
  /\ caller \in {"init", "delta", "calendar", "before", "wait", "after", "new",
                 "scan", "panic"}
  /\ pc \in {"idle", "first", "second", "new"}
  /\ nowtsc \in 0..MaxTsc /\ start \in 0..MaxTsc
  /\ ret \in 0..Modulus - 1 /\ expired \in 0..Modulus - 1
  /\ base_cnt \in Nat
  /\ at \in Nat /\ ver \in Version /\ prev_ver \in Version
  /\ created \in [at : Nat, ver : Version]

Accepted == pc = "new" /\ Consistent(old.version, page.version)

(* The version check of get_monotonic_time works: a call that is about to  *)
(* return uses the time stamp and the factor of one and the same update,   *)
(* the last, however often the host rewrote the page meanwhile.  It is so  *)
(* only in a build that loads the version before the rest of the page.     *)
NotTorn == Accepted /\ order = "up" => old = page

(* Unless the host updates the page during the call, get_monotonic_time is *)
(* right: it returns the true time, at the moment the TSC was read, since  *)
(* the last update.                                                        *)
ReadingRight ==
  Accepted /\ clocksource /\ page.version = ver =>
    Reading(old, nowtsc) = (at - page.system_time) % Modulus

(* The inductive invariant behind the two properties above.                *)
(*   Versions  an update is in progress exactly while the version is odd   *)
(*   Loaded    what a call has loaded so far is what the page holds, if    *)
(*             nothing was written since: since the TSC was read, or, in   *)
(*             ascending order, since the version was loaded               *)
(*   InStep    the page describes the true time                            *)
Versions ==
  /\ page.version % 2 = 0 <=> host = "idle"
  /\ old.version <= page.version
  /\ ver <= page.version
  /\ ~ clocksource => host = "idle" /\ page.version = 0
  /\ caller = "init" => pc = "idle" /\ ~ clocksource

Untouched ==
  /\ host = "idle"
  /\ page.version = ver \/ (order = "up" /\ page.version = old.version)

Loaded ==
  Untouched =>
    /\ pc = "second" /\ order = "up" => LoadHead(page, old) = old
    /\ pc = "second" /\ order = "down" => LoadTail(page, old) = old
    /\ pc = "new" => old = page

InStep ==
  clocksource =>
    /\ host \in {"idle", "end"} => page.mul = rate
    /\ host # "time" =>
         now - page.system_time = (tsc - page.tsc_timestamp) * rate
    /\ pc # "idle" /\ host = "idle" /\ page.version = ver =>
         at - page.system_time = (nowtsc - page.tsc_timestamp) * rate

ClockInv == TypeOK /\ Versions /\ Loaded /\ InStep

(* The calibration of the APIC timer succeeds and gives it a count that is *)
(* not zero, unless the host has updated the page since the reading        *)
(* `before' began (or there is no clock source).                           *)
CalibratedIfQuiet ==
  [][caller = "after" /\ caller' # "after" /\ clocksource /\ page.version = prev_ver
       => caller' = "new" /\ base_cnt' > 0]_vars

(* A timer never completes before its duration is over, unless the host    *)
(* has updated the page since it was made.                                 *)
TimerNotEarly ==
  Accepted /\ caller = "scan" /\ page.version = created.ver =>
    (Expired(Reading(old, nowtsc)) => at - created.at > Duration)

(* assert!(after > before) in apic::init: the reading after the wait is    *)
(* the greater, whatever the host does, if there is a clock source.        *)
AssertionHolds == clocksource => caller # "panic"

(* A call returns although updates make it start again: the host updates   *)
(* the page now and then, not without end.                                 *)
CallReturns == (pc # "idle") ~> (pc = "idle")
=============================================================================
