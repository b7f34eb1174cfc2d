# Chrysopolis: TLA+ models, model checking and proofs

Chrysopolis runs the Erlang VM as a protection domain (PD) on seL4/Microkit. A small
error kernel, **Root**, is the parent of every other PD: it receives their faults,
restarts or stops them within budgets, publishes what it did on a shared page, takes
restart policies from the BEAM through another shared page, and answers the BEAM's
commands. Everything the BEAM needs from an operating system (threads, poll, sockets,
files, timers) is emulated inside its own PD over cooperative threads.

Paths below are relative to the repository's root. The modules model `src/pd/root`,
`src/lib/abi` and the runtime of `src/pd/beam`: its waiting, threads, poll, sockets,
restart and control devices.

## Inventory

| Part | State | Operations | Interacts with | What makes it correct |
|---|---|---|---|---|
| Restart decision (`policy/root_policy.h`, `restart_plan.c`) | none (pure) | two selectors, ceiling, plan | Root, spec | checks in a fixed order; window leaks exactly elapsed intervals |
| Root supervision (`pd/root/main.c`) | child records, clock | `fault`, `notified`, `protected`, `init` | kernel, spec page, status page | gone is final and told once; each restart charged once; every fault answered |
| Status publisher (`status.c`) | publisher, shared page, event ring | notes, publish | BEAM reads the page | the page is the truth between callbacks; disabled, never wrapped |
| Command channel (`command.c`) | token bucket, retry fence | frame, decide, complete | BEAM calls it | at most once; only on the current view; rate limited |
| Spec page (`spec_writer.c`, `spec.c`) | two banks, header; writer; retained policy | begin, five commit steps; consume | BEAM writes, Root reads | no torn policy; committed policies durable; forward only |
| Status reader (`root_status_reader.c`) | last view | read, observe, missed | Root's page | consistent copy, no regress, counted losses |
| Control device (`beam/control`) | owner phase, descriptor, pending reply | open, write, read, close; status read | reader, command channel | one owner, no stale reply |
| Idle wait (`runtime_wait.c`) | semaphore, generation | wait, wake | every blocking call | one wake reaches every waiter of its generation |
| Threads (`beam/compat/pthread`, futex) | locks, conditions, thread records | pthread calls, idle wait, drain | every blocking call | mutual exclusion, no lost wake-up, no stranded cothread |
| Poll and descriptors (`beam/compat/poll`, `fd`) | epoll tables, wake pipes, fd table | epoll, ppoll, pselect, pipe, close | threads, sockets, console | no lost readiness, no stale registration |
| Sockets (`beam/io/tcp.c`, `io/network`) | socket slots | socket calls, lwIP callbacks | lwIP, poll | legal slot transitions only, no leaked slot |
| Restart and snapshot (`beam/restart`) | snapshot region, survivors | capture, validate, restore, request | Root, lifecycle | restored image equals the booted one; survivors survive |
| Lifecycle, trace, timers, fs, console, rng | small | init, notified | all of the above | order of initialization, deadline order |

Hard behaviours: Root preempts the BEAM at any store; faults, debug requests and commands
arrive in any order, also after a child is gone; the BEAM restarts in mid-commit or before
it saw a reply; the counter may step backwards; sequence numbers end. Inside the BEAM:
cothreads run between any two blocking points of each other, all deadlines share one
timeout, lwIP's callbacks come at any time, and a reset may hit a capture or an earlier
restore. `PROJECT.json` lists each at its line, with the properties that cover it.

## Modules

| Module | Models | Notes |
|---|---|---|
| `RestartPlan` | `root_policy.h`, `restart_plan.c`, `root_spec_budget` | operators only |
| `Supervisor` | `main.c`: the supervision part of every callback | abstract specification of Root |
| `CommandBucket`, `CommandRate` | the token bucket; the bucket over time | |
| `Root` | `main.c`, `status.c`, `command.c`: whole callbacks | EXTENDS Supervisor and refines it |
| `SpecPage` | `spec_writer.c` store by store, `spec.c` | justifies Supervisor's `root_spec_refresh` |
| `WaitBroadcast` | what the idle wait promises: a pulse reaches everyone who waits | abstract specification |
| `IdleWait` | `runtime_wait.c`: the semaphore and its cascade | refines WaitBroadcast |
| `Poll` | `compat/poll`, `compat/fd`: epoll, ppoll, pselect6, wake pipes | EXTENDS IdleWait |
| `EventLoop` | `runtime_lifecycle.c`, `runtime_cothread.c`, `runtime_drain.h`, `io/timer` | EXTENDS WaitBroadcast |
| `Threads` | `compat/pthread`, `runtime_sys_sync.c`, `runtime_sys_time.c` | EXTENDS EventLoop |
| `TcpSockets` | `io/tcp.c`, `runtime_tcp_state.h`, `runtime_tcp_logic.h` | lwIP external |
| `SnapshotCodec` | `beam_snapshot_codec.c`, `beam_restart_layout.h` | operators only; the encoder's loop is in `BeamRestart` |
| `BeamRestart` | `restart.c`: capture and restore | EXTENDS SnapshotCodec |
| `ControlDevice` | `beam/control`, `root_status_reader.c` | EXTENDS BeamRestart: the owner dies with `.bss` |
| `SupervisorProofs`, `RootProofs`, `CommandRateProofs`, `SpecPageProofs`, `PollProofs`, `ThreadsProofs`, `TcpSocketsProofs`, `ControlDeviceProofs` | theorems | `PollProofs` covers `IdleWait` too, `ControlDeviceProofs` also `BeamRestart` |
| `MCSupervisor`, `MCRoot`, `MCSpecPage`, `MCPoll`, `MCThreads`, `MCTcpSockets`, `MCBeamControl` | instances for TLC | |

How they fit: `Supervisor` is what Root promises about its children. `Root` adds what each
callback also does (note, publish, reply) to the same step, and is shown to implement
`Supervisor` by TLC (the run `root` checks `SupSpec`) and by proof
(`RootImplementsSupervisor`). `Supervisor` lets a policy refresh do nothing or install
a newer generation; `SpecPage` shows that reading the shared page does just that
(`RefreshContract`) whatever the writer is doing. `IdleWait` implements `WaitBroadcast`
(`PulseReachesEveryWaiter` with its liveness in the run `poll`, `IdleWaitIsBroadcast` for the
steps, by proof), which is why `Threads` may wait through the broadcast and need not carry
the semaphore's queue. `ControlDevice` runs on `BeamRestart`: a restart in the middle of a
command zeroes the owner in the restore, as the code does, and nowhere else.

**Correspondence.** `record` is `child_records`, `clock` is `root_clock_state`, `spec` is
`spec_state.retained`, `status` and `command` are the structs of those names, `page` is the
shared status page, `banks`/`header`/`active`/`writer` are the spec page and `spec_writer`.
`pd`, `queued` and `now` are outside Root: the thread of each child, fault messages not yet
received, the physical counter. `charges`, `told`, `done`, `closed`, `committed`,
and `late` and `left` of `Poll`, are histories for the properties. A callback is one action because Root runs at priority 254
above every other PD of the one-core image (`tools/sdf/system.zig`); the BEAM runs at
priority 1, so its stores are separate actions. `Unqueue` leaves open whether restarting or
stopping a thread cancels a fault message of its that Root has not received: the comment on
`root_giveup` expects such messages, so both outcomes are explored. CRCs are modelled by the
content they were computed over: a sum over other content does not match.

In the BEAM, a step of `Poll` and `Threads` runs from one blocking point of a cothread to the
next: cothreads are cooperative, so nothing else of the PD runs in between. `at` and `moved`
stand for the generation a waiter loaded (equal to the present one, or not), `op` and `call`
for a cothread's place inside a blocking call, `turn` for the calls it makes before it gives
up the processor. A condition variable's generation is likewise kept as what a waiter can
tell of it. `sockets` is `sockets[]`, `pcbs` lwIP's PCBs with their argument; ring bytes are
their positions in the stream. A step of `BeamRestart` is what lies between two points at
which a reset makes a difference: each record the capture appends and each one a replay puts
back is one. `scan` is the encoder's `i`. Bytes of `.bss` are 0 or 1 in the run. The drain of a
backlog is one operation on the set of its entries: none is queued twice (`BacklogOwned`), so the
order of the releases makes no difference. `InitFails` is a socket() that gets a slot and no PCB,
together with libc's close of it, which finds no reference to drop. A PCB is free in `pcbs` when
the sockets can no longer reach it: lwIP's own pool is not modelled, nor its retry of a close it
could not send (it marks the PCB TF_CLOSEPEND and tries again from its timer).
A condition wait takes its mutex back in an operation of its own (`relock`) that carries the
answer: 0, ETIMEDOUT, or EIO when the clock cannot be read.

**Left out of these modules:** console logging, fault words and tick stamps of status rows,
the event ring (a publish may find its head exhausted at any time), reply tallies, and
`desired[]`, which Root publishes and does not act on. `unstable_copy` cannot occur where
the reader preempts the writer. In the BEAM: error numbers, tracing, address getters, thread
attributes and keys, init and destroy of locks, interest in writing, the libc layer that maps
descriptors to sockets. `socket_wake` signals one waiter; `TcpSockets` has one caller per
socket and kind of call. A program in `Threads` releases a read lock or a spinlock only when it
holds it: neither records its holder.

## Runs

| Run | Question | Instance and why it is enough |
|---|---|---|
| `supervisor` | Is give-up final and told once, is every restart within its ceiling, and is every fault answered? | a wired driver, the crasher without a give-up channel, the BEAM; budgets 1 and 2, hard maximum 3; two tables over two generations that raise (past the maximum), lower and reset budgets |
| `supervisor_timed` | Do the timed selector's records stay consistent and bound the rate, is every restart charged by the selector that decided it, and does it land at an entry point? | two children, capacity 2, interval 2, ticks 0..5 in any order: partial leak, full leak, backwards step, after which the lifetime selector takes the records over; a BEAM without an entry point |
| `root` | Is the page the truth, are down intervals right, is a command at most once, on the current view and safe to repeat, and is Root a Supervisor? | one driver and the BEAM; the timed selector while the clock is usable and the lifetime one where it is not from the boot on, or no longer; one tick, capacity 1, two tokens that refill, sequence width 7 so that publication ends by itself; the reply, which no step reads, does not tell states apart (`VIEW`); requests over current, older and future views |
| `spec_page` | Are commits durable and false alarms absent with fresh generations? | four generations, three tables, sequence width 7 (three commits to a bank, or skipped odd values; the sequence of a closed bank wraps as its 32 bits do), a restart at every point |
| `spec_page_any` | Is Root safe against any numbering? | generations 0..2, reused or lowered |
| `command_rate` | Does the bucket bound the rate? | three tokens over five ticks (interval rounds up to 2), seven requests, ticks 0..7 in any order |
| `poll` | Does every pulse reach everyone, no sleeper miss a byte, and a registration owe nothing to a closed descriptor? | a poller, a reader and a program thread; three descriptors, one pipe slot and one epoll slot so that pipe2 is refused and numbers are reused; pipe capacity 2; four programs that group the calls |
| `threads` | Do locks exclude, signals arrive, joiners keep their record, condition waits return with their mutex, waits end, ready cothreads run? | two cothreads per lock program, three for create, join and detach (one of them with every cothread taken) and for the limit of readers; two ticks, a timer driver that restarts, one program with the network's own ticks, all three mutex types with recursion up to 2; drain limit 2: with 1 the rearm of the drain would bring every waiter back and hide a wake without a pulse |
| `sockets` | Do slots and PCBs agree whatever lwIP reports when? | three PCBs (symmetric), three slots, ring of 2, backlog of 2, stream of 3 bytes so the ring wraps and refuses; five programs |
| `sockets_leak` | Does a closing slot end? (violated, see Findings) | a server that opens and closes its listening socket |
| `beam_control` | Does main always start pristine, and does the device stay owned and the reader consistent? | every content of a 7-byte `.bss` over 2-byte words (runs, gaps, tails, too many survivors, no region), a bad layout, three restarts at any point; two descriptors, two commands, four publications with up to three events against a ring of two, two copy attempts, a down time that saturates at 1; the bad layouts include an image whose `.bss` is over the codec's limit of 7 bytes |
| `torn_capture` | Is a torn capture taken again? (violated, see Findings) | the instance of `beam_control` |

Bounds are the constants `MaxGeneration`, `MaxTicks`, `MaxTick`, `MaxRequests`, `SeqMax`,
`WordMax`, `TimeMax`, `IntMax`, `TokenMax`, `CallsPerTurn`, `PulseMax`, `Budget`, `CommandMax`,
`PublishMax`, `BssMax`, `DownMax`. The runs of `MCTcpSockets` and
`MCBeamControl` do not check for deadlock: leaked slots may fill the table, and a BEAM whose budget is
spent has stopped. `SeqMax` and `WordMax` are the widths of C counters at a size TLC can exhaust: the
checks at the end of the range are reached. Every property has a mutant of the code
(`*_Name` operators beside the definitions) that TLC must refute.

**Fairness.** `FairSupSpec` (for `FaultIsAnswered` and `NoEndlessRestart` only): Root is
scheduled whenever a message waits, being the highest priority. It is strong fairness
per child because a debug restart may cancel a fault that a later fault queues again. A child resumed at address 0
faults at its first instruction (weak fairness). No other child is assumed to do
anything: it may fault for ever, or never. `PollFairness`: a cothread that is ready runs and
finishes the call it is in (nothing preempts it for ever, the drain gives it turns), ERTS's
poll thread calls epoll_pwait again, and notifications keep coming because
`runtime_network_notified` rearms the timer on every tick. `ThreadsFairness`: time passes, the
timer driver fires, the root receives its notification and drains, and a cothread in its turn
goes on until it blocks or yields; nothing is assumed of the program's next call, of lock
holders, or of any notification but the timer's. `FairSpec` of `TcpSockets`: lwIP sees every
connection it still has to an end.

## Findings

`sockets_leak` refutes `ClosingEnds`, which is what `runtime_tcp_state.h:105` says of a closing
slot ("lwIP reports the close done"). `tcp_socket_close_int` puts a listening slot into closing
and calls `tcp_close`; lwIP frees a listening PCB there and then and reports nothing, so the slot
is never freed. `socket_smoke` in `runtime_network.c` does this once per boot. The same happens to
a connected slot whose unread bytes make lwIP reset the connection inside `tcp_close`. An error on
a closing slot leaves it in the error state without a reference, where it also stays.

`torn_capture` refutes `TornCaptureRetaken`, which is what the comment at `restart.c:102-104` says:
"The magic is written last on the cold-boot path, so a torn capture reads as "cold" and is simply
retaken rather than half-restored." It is never half-restored (`MainStartsPristine`), but it is not
retaken either. The boot path that captures runs once, from the loader; Root resumes a stopped BEAM
at `_reset`, where `beam_reset_restore` finds no magic and `restart_fail` traps. The next fault
brings it to the same place, until Root gives the BEAM up.

Other behaviour met while modelling, which no property forbids: `pipe_close` and `epoll_ctl` wake
nobody, so a poller sees a closed peer or a new registration only at the next pulse (the history
`late` in `SleeperMissesNoByte` says so, per cothread); a recv or accept parked on a socket that another cothread
closes is not woken; a reset in the window between zeroing `.bss` and replaying the record that
holds `beam_snapshot_start` finds no snapshot pointer, traps, and repeats until Root gives the BEAM
up; an epoll entry that a close left behind is scanned as it is until its number is registered again
(the history `left` in `RegistrationIsCurrent`); and a futex waiter whose word changes and changes
back before it runs stays parked, which `WaitEnds` leaves open.

## Proofs

All theorems hold for every value of the constants that satisfies the named assumptions of the
modules: any set of children, budget table, policy, capacity, interval, sequence width, number of
cothreads, descriptors, pipes, slots and PCBs, any ring, image, word size and application.
Compiled budgets are positive and within the hard maximum, which `main.c` asserts at compile time;
capacities, intervals and sizes are positive; tables are functions to naturals; the descriptor and
pipe tables are finite; `.bss` is a finite array of bytes.

Every invariant a run checks is also proved, and so are the action properties and the refinements.
Few of them are inductive as they stand; what each proof adds is the point of it.

* `SupervisorProofs`. `PlanFacts` says what one plan can return: a gone child is ignored, a
  live one never is, a restart is below the ceiling, charged once, and keeps a consistent
  record consistent. It rests on `LeakKeeps`, `ChargeKeeps`, `DecideAtFacts` for the timed
  selector and `CeilingBound` for the ceiling. `RestartChildFacts` turns it into the three
  outcomes of `root_restart_child`, and `StepCases` gives every step of the system one of
  these outcomes or says that the accounting is untouched. Each theorem is then one induction:
  `TypeCorrect`, `GoneStoppedAndTold`, `Charged`, `TimedConsistent` (the invariants are
  inductive together with `SupTypeOK`), and the action properties `GoneFinal` (needs that a
  gone child is stopped, or a fault step could move it), `WithinCeiling` (needs that
  restarts and charges agree) and `LandsAtEntry` (neither selector resumes a child without an
  entry point, so whatever is charged is resumed at one). `WindowRate` is a potential argument: `WindowInv` says that what
  was charged from any charge on, less the window still held, is paid for by whole intervals of the
  record's own stamp.
* `CommandRateProofs`. The same argument for the bucket: `RateInv` balances requests served and
  tokens left against `bucket.last`, in all (`NoGainBackwards`) and from each request on
  (`RateLimited`). The interval already running when a request arrives is why the bound has one
  term more than that of the window.
* `RootProofs`. `RootImplementsSupervisor`: `decide_restart` accepts only drivers, so
  every callback is a step of `Supervisor` or leaves its variables alone, and what
  `SupervisorProofs` establishes holds of Root. `RootInv` adds that an enabled publisher is never
  dirty between callbacks and agrees with records and policy, and that every request performed
  names a page sequence already left behind (`DoneIsPast`). From it: `PageTruth`, `DownTruth`,
  `AtMostOnce` (a second run would need a page that does not come back) and `CommandKept`, from
  the lemmas `CurrentView` and `RetryAnswered`.
* `SpecPageProofs`. `RetainedWasClosed` is not inductive. `PageInv` adds that a writer past
  begin holds an odd value that leaves room for the even one, that its bank carries that value
  until it closes, that the content is complete once written, and that a bank that looks
  readable holds a closed policy. From it follow `NoTornPolicy`, `SpecTypesKept` and, with what
  `evaluate` accepts, `RefreshIsForward`. None needs fresh generations or the checksum: the
  sequence alone keeps a torn bank from being read. `FreshInv` is for a committer that numbers its
  policies freshly: the active bank is always readable and holds the last committed policy,
  the other bank offers Root nothing as new as that unless Root already holds it, and the numbers
  closed are ordered. It gives `NoFalseAlarm` and
  `CommitDurable`.
* `PollProofs`. `NoPulseStranded` needs to know why the cascade finds its next waiter:
  `QueueIsOrdered` says that the queue holds exactly the parked cothreads, those a pulse has
  reached in front of the others, and that a signal is latched only over an empty queue. This gives
  `NoneStranded`; with it each step maps to one of `WaitBroadcast` or to a stutter, which is
  `IdleWaitIsBroadcast`. `EndsOwned` rests on `EndsInv` (ends and descriptors find each other, and
  no two slots the same descriptor), `NoByteMissed` on all of it: whoever sleeps was shown an empty
  pipe after it loaded its generation, and every byte since came with a pulse. `RegistrationCurrent`
  needs `RegInv`: an entry describes its descriptor or its number is in the pollset's `left`, and a
  table has one entry per number, so that a new registration leaves nothing of the old one.
* `ThreadsProofs`. `LockInv` says what the lock words say of the holders (a spinlock at 0 has none,
  a rwlock counts its readers), `JoinInv` that a joiner's record is claimed and its token was handed
  out. They give `MutualExclusion` and `JoinSafe`; `NoLostSignal` is inductive with `JoinInv`,
  because a freed record may be another joiner's next. `WaitContract` needs `DepthInv`: a cothread in a
  condition wait has given up its mutex or holds it below the recursion limit, so taking it back
  cannot be refused.
* `TcpSocketsProofs`. `SocketsInv` says of each slot what its state says of its own record, of the
  PCB it holds and the stream (`Fits`), and of the calls asleep on it (`SleepsOn`), and of the
  backlogs entry by entry; each part needs the others. `PairedStep` and `LoneStep` are the two
  shapes of a step (one slot with its PCB, one slot without), so that most calls and callbacks are
  an instance; accept, the accept callback and the drain touch two slots or more and are done by
  themselves. The ring is `CopiedIn` and `CopiedOut`: two passes of the copy loops are always enough
  and put or take the bytes in order, for every ring size, by case analysis of one wrap. From the
  invariant: `NeverDangles`, `EdgesDefined`, `BacklogsOwned`, `NoEventMissed`, `StreamsInOrder`.
* `ControlDeviceProofs`. `OwnerInv` is the owner at every moment, also while a restart is under way
  (`ControlOwnership`). `StatusInv` says that a copy is the page as long as the sequence number is
  the one it began with, and that no page read is ahead of the page (`StatusConsistent`).
  `StartsPristine` needs two invariants: `SegmentKept` (the magic vouches for data and stack
  pointer) and `BssKept` (the capture has saved every word it is past, a complete snapshot every
  byte that is set, and a restore has put back all but the bytes of the records to come). The
  encoder is a step per record for this reason: what it has encoded is an invariant and not a
  recursion. `RunFacts` is why no word is lost between two runs.

Only model-checked: the liveness properties (`FaultIsAnswered`, `NoEndlessRestart`,
`PulseReachesEveryWaiter` beyond its steps, `PipeByteIsReported`, `WaitEnds`,
`ReadyThreadRuns`), which need fairness and are out of the prover's reach, and
the violations of `ClosingEnds` and `TornCaptureRetaken`.

## Plan

1. Proofs: that `Poll` and `Threads` see the same broadcast (`Threads` refines `WaitBroadcast` step by
   step, as `IdleWait` does); the validation of a snapshot the capture completed, which is what lets a
   restart succeed and not only be safe.
2. Thread-specific keys and their destructors over recycled cothread slots; the per-PD restart
   device (`runtime_pd_restart.c`); the event ring's contents.

## Not modelled

Random numbers, payload, file system and console adapters, constant system
calls (sequential code without interesting state, or wrappers of code outside the
repository), the trace ring (diagnostic), lwIP's configuration headers, the diagnostic thread probe
(a test of the thread layer), the build-time generators and the Nix packaging.
