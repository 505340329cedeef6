# A TLA+ model of urchin

Urchin is a unikernel that routes packets between virtio network interfaces. It
runs on one CPU, with interrupts off except in one short window of its main
loop. This directory holds TLA+ modules of its moving parts, the TLC runs that
check them on small instances, and proofs that hold for every size.

## The system

- **Main loop** (`lib.rs`): `cli`, `Executor::run`, `sti`, `hlt`, for ever.
- **Executor and timers** (`asynchronous/`): async tasks on a bounded queue. A
  `TimerFuture` registers itself in a second bounded queue.
- **Interrupts** (`interrupt.rs`): the periodic APIC timer scans the registered
  timers and wakes tasks. A virtio interrupt runs the receive path.
- **Clock** (`arch/x86_64/kvmclock.rs`): a page that the hypervisor rewrites
  under a version number, read by the timers, the calibration of the APIC timer
  and the calendar.
- **Virtio** (`devices/`): a device found on the kernel command line, a
  handshake, then split virtqueues shared with a device that runs concurrently.
- **Packet path** (`net/`): `ethernet-in` learns and sorts the frames of one
  interrupt; `arp-in`, `ipv4-in`, `ipv6-in` and the two ICMP nodes handle them
  to the end, sharing a MAC table, adjacency tables and the FIBs.
- **Ring buffer** (`ringbuf.rs`): a queue with several producers and one
  consumer. Nothing uses it yet.

What can go wrong lies in what is shared: run queue and timers (main and the
timer handler), the time page (guest and host), the rings (driver and device),
the tables (one interrupt and the next), the ring buffer (its callers). Each
sharing has its module; the pure computations have theirs.

## Modules

| Module | Models | State and actions |
|---|---|---|
| `TimerExecutor` | executor, timer futures, main loop, timer interrupt | One action per step of main between which an interrupt could come; one per round of the handler's loop. |
| `Scheduler` | what these promise together | Tasks that run one at a time, arm a timer, sleep, and are woken once it has run out. |
| `KvmClock` | `init_kvmclock`, `get_monotonic_time` and its callers | The loads of a call one by one, against `HostBegin` … `HostEnd`. The two halves of the page are loaded in either order. |
| `VirtioSetup` | `VirtioNet::new` over the registers of `VirtioMMIO` | Reset, status, features, queues. The device is found in any state. |
| `Virtqueue` | `Virtqueue` | Operators on a queue record. `push` is in two halves, `Publish` and `Fill`, because the device may look between them. |
| `VirtioNetRx` | set-up, registration of the handler, receive interrupt, and the device | Extends `VirtioSetup` and `Virtqueue`. Steps of the handler in code order, against `Receive` and `Notify` of the device. |
| `VirtioNetTx` | `xmit`, and the device | `XmitPublish`, `XmitFill`, `XmitKick`, against `Transmit` and `Sleep`. |
| `FrameChannel` | what each ring promises | Frames accepted come out once each, in order. |
| `RingBuffer` | `put` and `get` | One action per atomic operation. `running` is the stack of calls that interrupt one another. |
| `Router` | the processing nodes and their tables | `Handle`, one receive interrupt with its whole batch. A node's loop over the frames is a recursive function of how many it has seen; so is `Boot`, the registrations of `start_rust`. |
| `Fib` | both FIBs | Registration as actions, the look-ups as recursive functions, a reference longest match. |
| `Calendar` | `get_calendar_from_epoch` | A function; reference: a calendar that turns its page every day (`NextDay`). |
| `EchoReply` | the bytes of both echo replies | Functions of the request; reference: the receiver's check. |
| `CmdLine` | `VirtioMMIO::new` | A function of a line of tokens; reference: what it means that a line describes devices (`WellFormed`). |
| `Allocation` | sizes and addresses of `Buffer` and `Virtqueue` | Arithmetic. |

`TimerExecutorProofs`, `KvmClockProofs` (for `Calendar` too), `VirtioNetRxProofs`,
`VirtioNetTxProofs`, `RouterProofs`, `RingBufferProofs` and `AlgorithmProofs` (for `Fib`,
`Allocation`, `EchoReply` and `CmdLine`) hold theorems about the modules they extend,
`Preliminaries` the facts about `%` and the induction that they share.
`MCTimerExecutor`, `MCRouter` and `MCAlgorithms` give constants their values; the
last puts `Fib` and the four modules of functions under one next-state relation
that chooses an input. The definitions commented "Mutant" are variants, with one
plausible bug each, of the definition that follows them; no run listed below
uses them.

### Abstractions

- `TimerExecutor` keeps, of the clock and an expiry, only their difference, and
  assumes that the clock advances. `KvmClock` says when it does.
- `KvmClock` has whole nanoseconds per tick for the multiplier and shift, and lets
  time pass where somebody reads the TSC. The wall-clock page is written only when
  it is registered, so the loop that reads it is one step.
- A buffer is the number of the frame it holds, or `Blank`. Every frame fits.
- A frame is its addresses and what the nodes branch on. The sender hardware
  address of an ARP packet is that of its frame.
- The IPv6 tables of `Router` are constant: the one handler that would change
  them stops the machine first.
- A command line is a sequence of tokens: the key phrase, `@0x`, digits, marks. Its
  sizes and addresses fit in 64 bits.
- Arithmetic wraps and shift amounts are taken modulo the width, as in the
  release build that `build.sh` makes.

## Runs

Passing:

| Run | Shows | Bounds |
|---|---|---|
| `timer` | No lost wake-up, no queue overflow, no spinning handler, no early completion; `IndInv` holds; `Scheduler` is implemented; every waiting task is polled again | 3 tasks, one of which ends; durations 0, 1 and 2 periods; queues of exactly 3 slots, so that any double entry overflows |
| `rx` | The device works only after the whole handshake; only a refusal of the features stops the machine; no frame lost, reordered or duplicated (`FrameChannel`); ring refilled; every signalled frame delivered | a device left in use or not, of another kind or not, two sets of features; ring of 8, indices modulo 32, one frame per interrupt, 12 frames: the ring turns over |
| `tx` | `FrameChannel` is implemented, all frames are sent, `TxInv` holds | ring of 4, indices modulo 8 so that they wrap, device at most a ring behind, 20 frames |
| `clock` | A page whose version is accepted is not torn; without an update during the call the reading is right; calibration succeeds and no timer is early while the host is quiet; calls return | 2 updates, 11 ticks, two rates: an update in the middle of another call's retry happens |
| `router` | Permanent entries stay, only own addresses are local, ARP replies are true; for addresses that one station uses, route and adjacency agree and exactly the right echo requests are answered; only a neighbour advertisement stops the machine | 2 interfaces, 3 hosts, which move or use an address of another or of the router; batches of 2 |
| `algorithms` | IPv4 look-up is the longest match and IPv6 look-up is right for host routes; every second of the calendar; checksums verify and data come back; devices of a command line; buffers and rings fit | 3-bit addresses, 4 routes; 1970 to 2101, with days of 12 seconds (the computation divides by their number only); up to 4 bytes of data out of 0, 1 and 255; 3 words; queue sizes up to 2^15 |
| `ringbuf` | `FrameChannel` is implemented, a returned reference stays valid until the next `get`, a `put` returns unless the buffer is full | 2 producers, 3 slots, 5 puts: the indices go round |

Each of the following runs ends in a counterexample to what a comment or an
assertion in the code says; `PROJECT.json` quotes it under `findings`.

| Run | Shows |
|---|---|
| `rx_burst` | The refill, before the pop, overwrites frames received in a burst |
| `rx_wrap` | The free size is wrong after `avail.idx` wraps |
| `tx_race` | A polling device takes an entry before it is written |
| `router_batch` | Two echo requests in one interrupt get three replies |
| `clock_back` | The clock steps back at a host update, and `assert!(after > before)` fails |

Some properties hold only within constants, or under a condition they state.
Outside it TLC refutes them:

- `tx` with `Lag = Size + 1`: `push` overwrites a frame not yet sent, since it never
  checks for room;
- `FramesDelivered` without `Signalled`: with EVENT_IDX negotiated interrupts stop,
  since `used_event` is never written; and a frame that arrives between the end of
  `VirtioNet::new` and `set_handler` waits for the next one, its interrupt having met
  a masked pin;
- `FramesDelivered` without `Id < ifaces`: if an earlier virtio device is no network
  device, `NET_IFACES` has no entry under this interface's number and its frames are
  dropped;
- `ReadingRight` for a call during which the host updates the page: the TSC was read
  before the new timestamp, and the difference wraps;
- `NotTorn` without `order = "up"`: nothing makes `read_volatile` load the version
  first;
- `LongestMatchV4` with `MinV4 = 0`: a default route matches only its own address,
  since the mask is a shift by the full width;
- `LongestMatchV6` with `MinV6 < Width`: no shorter IPv6 route is found, since the mask
  is never shortened;
- `FibAgreesWithAdjacency` and `EchoAnswered` without `Undisputed`: the route of an
  address changes with its last user and its adjacency does not, and a host that uses
  an own address takes its Local route away;
- `ReplyVerifies` for odd lengths: the last byte is left out of the message's sum;
  `DataEchoed` with IP options: the data are taken from the wrong place;
- `CmdLineRight` without `CutShort`: if a description that is cut short is followed by
  another, its parts are taken from that one;
- `ringbuf` with `Concurrent = TRUE`: a `get` on another processor finds a slot that
  is claimed and not yet stored.

`rx`, `tx`, `clock` and `algorithms` and the runs with a counterexample turn deadlock
checking off because a bounded number of frames, ticks or inputs comes to an end,
and `router` because a panic is final.

## Fairness

- `TimerExecutor`: the APIC timer is periodic (`WF Tick`) and the CPU runs the
  handler (`WF Handler`). A latched interrupt is taken at one of the windows
  that come again and again (`SF TimerIrq`). Main gets some instructions between
  interrupts 2 ms apart (`SF MainStep`).
- `VirtioNetRx`: the driver runs on, and the device raises the interrupt it
  owes (`WF Driver`, `WF Notify`). Frames need not arrive.
- `VirtioNetTx`: a started `xmit` finishes and a kicked device works. Nothing
  makes the program call `xmit`.
- `KvmClock`: the guest runs, and the host finishes an update that it has begun. It
  need not begin one.
- `RingBuffer`: a call that is on top of the stack goes on. Nothing makes anybody call.

## Proofs

Each argument is an inductive invariant, checked by TLC first, and one step per action.

**Executor** (`TimerExecutorProofs`, for every finite set of tasks, every duration
and every capacity of at least the number of tasks). `IndInvariant`, and from it
`TypeCorrect`, `WakeupNeverLost`, `QueuesNeverOverflow`, `HandlerLockFree` and
`NoEarlyCompletion`. None of the properties is inductive. `NoLostWakeup` needs to
know that the handler cannot run between the load of `completed` and the store of
the waker (`Window`: main's critical part runs with interrupts off), and where the
timer of a task is at each label of its poll (`Lifecycle`). `NeverPanics` needs that
no task is queued twice (`Unique`); the lemmas `AppendFresh`, `TailOfDistinct`,
`RoomForOneMore` and `PushFresh` turn that into facts about sequences. Assumptions:
`TaskAssumption`, `DurationAssumption`, `CapAssumption`; the capacities are 100000 in
the code and two tasks are spawned.

**Scheduler** (`TimerExecutorProofs`). `ExecutorImplementsScheduler`: under the same
assumptions every step of `TimerExecutor` is, through `TaskState`, a step of
`Scheduler` or leaves its state alone. It uses `IndInv`.

**Clock** (`KvmClockProofs`, for every modulus, rates and bounds allowed by
`ClockAssumption`). `ClockInvariant`, `NeverTorn`, `ReadingCorrect`. The invariant ties
what a call has loaded to what the page holds while nothing has been written since
(`Loaded`), and the page to true time (`InStep`); an odd version marks an update in
progress (`Versions`).

On top of it, `CallersInvariant` follows the callers: what the last reading was worth
(`Progress`), what a timer's expiry stands for (`TimerSet`) and how long the
calibration has waited (`Calibrating`). It gives `TimersNotEarly` and `Calibrated`, for
a clock whose readings do not wrap (`NoWrap`: `2^64` nanoseconds are 584 years) and, for
the calibration, ticks that are short: those from one of its readings to the other take
no more nanoseconds than the length of the period (2 ms) times the ticks of the wait
(`FineTicks`). Without `NoWrap` TLC refutes both properties.

**Transmission** (`VirtioNetTxProofs`, for every ring size below the index modulus).
`TxInvariant` and `TxImplementsChannel`, for a device that looks only when kicked and
is at most a ring behind (`KeepsUp`). The invariant places the free-running indices
on the ring: entry `k` of those not yet sent is in slot `k % Size` with frame `k + 1`.

**Set-up** (`VirtioNetRxProofs`, for every set of offers). `HandshakeInvariant`,
`LiveOnlyAfterHandshake` and `NoOtherPanic`. `HandshakeInv` says for each step what
status and queues are; the reset is what makes it true, since the device may be found
in use. It is about the whole of `VirtioNetRx`, whose later steps keep it.

**Reception** (`VirtioNetRxProofs`, for every ring size, threshold and number of
frames). `RxInvariant`, `FramesKept`, `NeverOverrun`, `AlwaysReplenished` and
`RxImplementsChannel`, under `OneAtATime`: one frame at a time waits to be popped and
one arrives in a round of the handler, indices that have not wrapped, and a threshold
at least 3 below the ring size. Each part is
needed: `rx_burst` and `rx_wrap` are runs without the first and the second, and with
`Size = 4, Threshold = 2` or `Size = 3, Threshold = 1` TLC refutes `FrameKept`
(`NoOverrun` and `Replenished` still hold there). The program's threshold is 32, its
indices have 16 bits and the ring has the size the device offers, so the theorems are
about a device that offers at least 35 entries, up to the wrap. `RxInv` says how
many entries have been made available at each step of the handler (`Counts`,
`Stocked`), what every slot of the ring holds (`Ring`), that a received frame has an
interrupt on its way (`Attended`), and that what was handed on is what was received, in
order (`Handed`).

**Packet path** (`RouterProofs`, for any interfaces, any hosts and batches of any
size; `RouterAssumption` says only that there is an interface).
`LocalAddressesAreOwn`, `TablesAgree`, `ArpRepliesTrue`, `EchoesAnswered`,
`AdvertisementsPanic` and `EntriesStay`, from `RouterInvariant`. The first two
properties are not inductive. `Tables` strengthens them: every own address is in the
tables from the start (so a permanent entry protects it), and every entry of the
adjacency table and of the FIB is that of a station that claims the address. If an
address is undisputed there is one such station, and the tables must agree. What a
batch is answered with then follows from what the loops hand on: `EchoesAre` and
`HandedOnAre` say which packets reach an ICMP node, `ArpInKeeps` which replies `arp-in`
may give. The lemmas `LearnRuns` … `BootRuns` show that the recursive functions of the
loops exist.

**Ring buffer** (`RingBufferProofs`, for any number of producers and any length).
`RingInvariant`, `ReferencesStable` and `RingImplementsChannel`, on one processor
(`OneProcessor`); with `Concurrent = TRUE` TLC refutes the properties. The heart of the
invariant is `Stack` with `Stored`: a call goes on only when those that interrupted
it are through, and the consumer is at the bottom of the stack, so whenever it runs
every claimed slot is stored.

**Look-up** (`AlgorithmProofs`, for every width of addresses). `FibInvariant`,
`LongestMatchV4Right` (no default route: `MinV4 >= 1`) and `LongestMatchV6Right` (host
routes only: `MinV6 = Width`), by induction over the rounds of the loop. The conditions
are what `start_rust` and `arp-in` register; without them TLC refutes the properties.
`PrefixOfNetmask` needs that powers of two differ, so `Fib` has its own `Pow2`.

**Allocation** (`AlgorithmProofs`, for every size and alignment). `FramesFit` and
`LayoutSound`, from the bounds of rounding up.

**Calendar** (`KvmClockProofs`, for every length of minutes, hours and days and every
day up to the first of 65535, the last year that 16 bits hold: `CalendarAssumption`).
`DatesFollow`: the date of the day after a day is the day after its date, by the
Gregorian rule. A day number is taken apart into cycles of 400, 100, 4 and 1 years that
begin with March (`SplitCycles`), so that adding a day either stays in the year or
carries into one of the four; each carry is a case, and the two kinds of leap day are
cases of their own. `CalendarAlwaysRight` follows by induction over the days, with
`CalendarInv`: the date is that of the day's number, and its year has not passed the
bound.

**Echo replies** (`AlgorithmProofs`, for messages of any length that their 16-bit length
field can tell, and any bytes: `EchoAssumption`). `RepliesVerify` and `DataAlwaysEchoed`.
The sum of a concatenation is the sum of its parts if the first has an even length,
and storing a word where there was a zero adds it; the stored checksum makes the sum
a multiple of 2^16 - 1 that is not zero, because two folds are enough for a sum of 32
bits. The header of an IPv4 reply verifies although it is summed together with the
message: the part of the sum that is the message's is already such a multiple, and with
an odd length the byte that is left out is left out of both sums.

**Command line** (`AlgorithmProofs`, for lines of any length: `CmdLineAssumption` says
that they are `WellFormed`). `CmdLineAlwaysRight`: the loop over the key phrases finds the
one asked for (`KeyFound`, by induction over its rounds), and from there each search stops
at the next part of the same description, since what lies between is plain
(`PartsFound`), or at the end if the description is cut short (`CutNotFound`).

Induction over a loop is `SetInduction` of `Preliminaries`: the set of the rounds after
which a claim holds contains 0 and, with each round, the next. The inductive
invariants `RxInv`, `RingInv`, `CallerInv`, `RouterInv`, `HandshakeInv` and `CalendarInv`
were checked by TLC within the bounds of their component's run; the runs list the
properties they give.

Only model-checked: liveness (`TaskPolledAgain`, `FramesDelivered`, `AllSent`,
`CallReturns`, `PutReturns`), which the prover does not do. That the digits of a line
have the values that `Digits` and `SizeDigits` give them is an assumption about lines,
which TLC evaluates for those of the run.

## Not modelled

- APIC and I/O APIC registers beyond the timer's calibration and the masking of a
  pin, MP table, serial port, boot code: I/O or one-time set-up without a protocol of
  its own.
- Exceptions and `unset_handler`, which is never called.
- The allocator, and the length of a received frame: with GUEST_TSO4 or GUEST_UFO but
  not MRG_RXBUF a device may have frames larger than the page it is given.
- Indirect descriptors, which `push` never uses, and the control queue, which is set
  up and never used.
- A composition of `VirtioNetRx` with `Router`: the batch of an interrupt is any
  sequence of frames in `Router`, which covers what `VirtioNetRx` delivers.
