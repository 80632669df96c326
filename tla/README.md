# A TLA+ model of the VMM's synchronization core

The repository is a fork of VirtualBox 4.1.10. Its core logic is the virtual
machine monitor (`src/VBox/VMM`). What is hardest to test there is how the
emulation threads (EMTs, one per virtual CPU), the device and driver threads and
the ring-0/raw-mode halves of the same code synchronize. That is
built, mostly without locks, from a handful of primitives: critical sections,
requests, queues, rendezvous and thread hand-shakes. This project models them, checks
the models with TLC, and proves what matters most with TLAPS.

Paths below are relative to the repository root.

## 1. Inventory

| Component | State | Operations | Interacts with | What makes it correct |
|---|---|---|---|---|
| PDM critical sections (`VMMAll/PDMAllCritSect.cpp`, `VMMR3/PDMCritSect.cpp`) | `cLockers`, `cNestings`, owner, flags, event, exit event; per-VCPU queue of leaves; list of sections | enter, try, leave, leave with interrupts disabled (queued), replay, yield, leave-all, exit event, init, delete | all devices; the EM loop and `VMMRZCallRing3` replay the queue | mutual exclusion, exact recursion count, no lost hand-over |
| VM requests (`VMMR3/VMReq.cpp`) | packets; two LIFO lists per CPU and two common ones; request flags | queue (one CPU, any, all), process, complete, wait, allocate, free | any thread → EMTs; EM loop, `vmR3EmulationThread`, PDM notifications | no request lost, duplicated, reordered or forgotten; all complete |
| EMT waiting (`VMMR3/VMEmt.cpp`) | `fWait`, `EventSemWait` per CPU, halt method | wait, halt, notify one, notify all | requests, queues, timers wake EMTs | no lost wake-up |
| PDM queues (`VMMAll/PDMAllQueue.cpp`, `VMMR3/PDMQueue.cpp`) | ring of free items, three LIFO lists, forced action flag, active and pending bits | allocate, insert, flush all, flush one, free, timer | devices in any context → consumer on an EMT | an item is in one place, one flusher, order, every item consumed |
| EMT rendezvous (`VMMR3/VMM.cpp`) | spin lock, forced action flag, three counters, status, five kinds of events, `fInRendezvous` per EMT | call, join, take a turn, merge the status, return, disable | requests, VM state | a barrier: all in before any works, all out before the next; each method runs as asked; one status for all; nobody hangs |
| VM state machine (`VMMR3/VM.cpp`) | `enmVMState`, previous state | power on, suspend, resume, reset, save, off | requests, rendezvous | only legal transitions, no lost request |
| PDM threads (`VMMR3/PDMThread.cpp`) | thread state, three events, list of threads | create, suspend, resume, destroy, the same for all threads, sleep | VM state changes, devices and drivers | the hand-shake ends, a suspended thread stays out, nothing is freed under a thread |
| TM timers (`VMMAll/TMAll.cpp`, `VMMR3/TM.cpp`) | per-timer state, schedule and active lists | set, stop, schedule, run | timer EMT, any thread | legal state transitions, each expiry once |
| EM, PDM devices/drivers, SSM, PGM and the other CPU and memory managers, GVMM/GMM, support driver, IPRT, devices, storage, Main, frontends, additions | | | | not modelled, see section 8 |

Hard behaviours: an EMT leaves a lock where it may not signal anybody; the leave
is replayed later, over whatever the EMT did in between; several EMTs take lists
off the same queue and push parts of them back; flags are cleared before the
lists they stand for are read; sleepers and notifiers race over two variables;
packets and items are recycled, and signals outlive the wait they were for; events are
shared by successive rendezvous. `PROJECT.json` lists them under `hazards`, each
at its line with the properties that watch it.

## 2. Modules

| Module | What it is |
|---|---|
| `PDMCritSect` | one critical section; one step per atomic access |
| `RecursiveLock` | what a section promises; `PDMCritSect` is shown to implement it |
| `PDMCritSectProofs` | theorems about `PDMCritSect` |
| `VMReqQueue` | requests, flags, EMT loops, waiting and notification, composed |
| `VMReqQueueProofs` | theorems about `VMReqQueue` |
| `PDMQueue` | one PDM queue with its producers and flushing EMTs |
| `PDMQueueProofs` | theorems about `PDMQueue` |
| `ListLemmas` | lemmas about lists, shared by the proofs |
| `VMReqPacket` | request packets: free lists, semaphore, timed waits |
| `VMReqPacketProofs` | theorems about `VMReqPacket` |
| `EmtRendezvous` | the rendezvous of all EMTs; one step per atomic access, signal or wait |
| `Gathering` | what a rendezvous promises, a barrier; `EmtRendezvous` is shown to implement it |
| `EmtRendezvousProofs` | theorems about `EmtRendezvous`, the refinement included |
| `PDMThread` | PDM threads against the EMT that controls them |
| `PDMThreadProofs` | theorems about `PDMThread` |
| `MCPDMCritSect`, `MCVMReqQueue`, `MCVMReqPacket`, `MCPDMQueue`, `MCEmtRendezvous`, `MCPDMThread` | the model-checked instances: sets of threads and calls, symmetry |

Names follow the source. A definition marked "Seeded fault" stands directly
before the one it could replace; `PROJECT.json` pairs each property with a fault
that breaks it, and no specification uses one.

### PDMCritSect

`cLockers`, `cNestings`, `NativeThreadOwner`, `EventSem` are the shared words, one
access per step. `fFlags` and `EventToSignal` are touched by the owner only and a
leave queue by its own EMT only, so those accesses share a step with a
neighbour. `pc` is the place in `pdmCritSectEnter`/`PDMCritSectLeave`; `ctx` is the context:
ring-3, ring-0 preemptible, ring-0 with preemption disabled, and "RZ" (raw mode
or interrupts disabled). The spin loop is a state in which the compare-exchange
may win at any time or the count may end. `cQueuedCritSectLeaves` counts the
entries of *this* section in a VCPU's queue. `hold` is history: successful enters
minus leaves called; it is what users rely on, and `RecursiveLock` is stated
about it. Guest execution starts with nothing held, as ring-3 code that returns to
the EM loop does. `Delete` obeys the contract its assertions state, so the
`VERR_SEM_DESTROYED` answer to a waiter cannot happen; NOP sections are left out.

### VMReqQueue

A request has a requester (`rpc`) that pushes it, sets the flag, notifies EMT after
EMT, and waits. An EMT (`pc`) polls, as the EM loop does (flags) when the VM runs
and as `vmR3EmulationThread` does (lists) when it is suspended; then it runs guest
code or waits: `WaitCall` (the look of `VMR3WaitU`/`VMR3WaitHalted`), `SetWait`,
`WaitCheck`, block, `ClearWait` (the halt method). `ClearFF` to `CompleteRequest` are
`VMR3ReqProcessU`, one step per atomic access; `PushBack`, `PushBackRaces` and
`JoinNewcomers` are `vmR3ReqProcessUTooManyHelper`. The `Async...` actions are EMT 0
in `pdmR3NotifyAsyncWaitAndProcessRequests` and the thread that wakes it; this
happens within a rendezvous that holds the other EMTs, hence one CPU. It happens when the VM is
suspended, powered off or reset, and the loop looks at its requests in between: after a notification
EMT 0 is at "look", from where no other begins. `AsyncNotify` bounds how many there may be: {} for none,
{"never"} for one (none has been yet), {"never", "none"} for any number (none is under way).
Left out here: packet allocation (`VMReqPacket`), requests before the VM structure exists, requests
processed from within a request, requests of an EMT to itself (executed on the
spot), and the halt of the global method (`VMHALTMETHOD_GLOBAL_1`), which waits in ring-0. That is
the *default* method (`VMMR3/VMEmt.cpp:1266`); the waits modelled are those of the methods that use
`EventSemWait`, which a VM gets when it is configured so, and of the bootstrap method, which every VM has
until its creation sets the configured one (`VMMR3/VM.cpp:748`).

### PDMQueue

Producers run `PDMQueueAlloc` (read tail and item; compare-exchange; retry) and
`PDMQueueInsert` (push on the list of their context; flag; pending bit). EMTs run
`PDMR3QueueFlushAll` and `pdmR3QueueFlush`: three exchanges, the consumer's answer per
item, `pdmR3QueueFree` as store then advance, and the put-back loop for leftovers. With
`fTimer`, fixed when the queue is created, it is driven by its timer instead. `inserted` is history: what was
inserted and not consumed, in order, per context. The three reads in a look at the
lists are one step: only the flusher empties a list, so the outcome is that of an
atomic look at one of the reads.

### VMReqPacket

Requesters (`pc`) allocate a packet (`TakeList` to `InitPacket`, or `AllocNew`), queue it, wait
and free it; the EMT takes any queued packet (how it gets there is `VMReqQueue`),
completes it, and signals or frees. Both sides of the last exchange are in steps of their own: the
requester writes `fFlags` into an ALLOCATED packet (`Fill`) and then queues it, the EMT stores COMPLETED
(`Complete`) and then reads the flags (`ReadFlags`). `VMR3ReqQueue` refuses a packet that is no longer
ALLOCATED. `JoinFree` and the `Join...` actions are
`vmr3ReqJoinFree` and `vmr3ReqJoinFreeSub`. Which of the twelve (eleven on 32-bit hosts) free lists a call uses depends on a
counter that all calls increment, so any list may be the one. A "timed" requester waits with
a limit (zero included), and after `VERR_TIMEOUT` without, the way the callers of
`VMR3ReqCall` do. A packet given back to the heap is the state INVALID. `Chain` is
the packets from a head on, defined without recursion as the least set that the links
do not leave, so that the proofs can use it. `raced` and `misread` are history: a timed wait ended
between the completion and the signal; and, as a consequence, the EMT read NO_WAIT from the
flags of the packet's next owner (section 6).

### EmtRendezvous

`Call` to `Finish` are `VMMR3EmtRendezvous`; `ServeFF` and `LeaveFF` are
`VMMR3EmtRendezvousFF`, from the EM loop ("run") or from the spin lock ("spin"); `Enter` to `Signal`
are `vmmR3EmtRendezvousCommon`, `ReadStatus` to `WakeCaller` are
`vmmR3EmtRendezvousNonCallerReturn`. `fFlags` are the type and STOP_ON_ERROR. Codes are integers as in the
source: failures negative, EM scheduling codes positive, the smaller the more important.
`BeginPriority`/`EndPriority` are the part of `vmR3ReqProcessOneU` that disables rendezvous.
Clearing the slate is one step; `IsGathering` shows that nobody is held who would use what
it clears. `ran`, `cRan`, `firstError` are history.

`Gathering` has three phases: EMTs come in, they work, they leave. `Phase` and `At` map the
counters, `done` and `pc` to it. What it adds to the invariants is time: work starts only when
all are in, leaving only when it is over, and coming in again only when all have left.

### PDMThread

One side is `pdmR3ThreadMain` with the thread's function (external: it runs while the state
is RUNNING and returns otherwise, sleeps with `PDMR3ThreadSleep`, or fails); the other is the EMT
with one call at a time. Both access `enmState` and the three manual-reset events
(`block`, `sleep`, `user`) step by step; only the first look of `PDMR3ThreadSuspend` and the two
resets after it are one step (its exchange compares the state again, and no one but the EMT sets
`block`). Creation waits without its limit of 60 seconds; what the limit does is in section 6. `walk` and `todo` are the loops over the list in the `...All`
functions and in the destruction of a driver's threads. Faults, at most `MaxFaults`: a wait that times out,
a `pfnWakeUp` that fails, a function that fails. A thread is resumed only by who has
suspended it (`quiet`), as its users do. `faulty`, `quiet`, `again`, `late` are history.

## 3. Runs

| Run | Instance | Checks |
|---|---|---|
| `critsect` | 2 EMTs, 1 I/O thread, nesting 2 | `MutualExclusion`, `AssertionsHold`, `NestingsMatch`, `QueuedOnce`, `LockersMatch`, `IsOwnerSound`, `NoBarging`, `IsRecursiveLock` |
| `critsect_live` | 1 EMT, 1 I/O thread | `LeavesTakeEffect` (`ContendedHandover`, `ExitEventSignalled`) |
| `req_process` | 2 CPUs, running VM, 3 requests, to any CPU or with priority to one | `ExactlyOnePlace`, `NothingStranded`, `NoLostWakeup`, `CpuQueueIsFifo` |
| `req_live` | 2 CPUs, 2 requests to any CPU or to all, last CPU first (`VMCPUID_ALL_REVERSE`; the other order is its mirror image) | `RequestsComplete` |
| `req_async_wait` | 1 CPU, 2 requests of both priorities, any number of notifications, one at a time | `AsyncWaitEnds` |
| `queue_flush` | 2 EMTs, 2 producers, 2 items, ring-3 and ring-0, 1 refusal | `OneFlusher`, `NobodyRacesUs`, `EachItemOnce`, `InOrder` |
| `queue_live` | 1 EMT, 2 producers, with and without a timer, 1 refusal | `ItemsConsumed` |
| `rendezvous` | 3 EMTs, 2 calls, 1 priority request; the EMTs call with different types, between them all five | `RunsAsAsked` (`TakeTurns`, `EveryEmtOnce`), `StatusReachesAll` (`StatusIsTheFirstError`, `CodesAgree`), `EverySignalTaken`, `NestedCallsRefused`, `IsGathering`, `EveryoneComesBack` |
| `thread` | 2 threads (one of a driver), 5 calls, 1 fault | `SuspendedStaysOut`, `FailsOnlyIfLate`, `CallsEnd`, `TerminatingEnds` |
| `req_packet` | 2 requesters with 2 calls each, of which one waits for a while and then without limit, the other not at all; 3 packets of which 2 start free, limit 2, one list | `PacketsAccounted` (`FreeListsSound`, `OneHolder`, `NoneLost`, `FreeAreCounted`), `SignalFindsWaiter`, `WaitTruthful`, `RequestsEnd` |

Two more runs show where the code does not do what its comments say (section 6):
`req_priority_only` (1 CPU, one normal request, one notification) and `queue_lost_insert`.

Why the bounds are enough. *Critical section*: the races are between an owner, one
contender and a third party that can be a waiter at the same time; depth 2
separates nested from real leaves; the code's own limit is 8. `hold < MaxNest`
bounds nothing else. *Requests*: a push-back race needs two requests on the list
and one newcomer (3 requests); two EMTs are needed to fight over the common queue.
That instance is for a running VM only, whose loop depends on the flags; a suspended one
looks at the lists, processes them with the same code, and is in the other runs.
`MaxCalls` bounds the number of calls so that packets are reused, but not for ever; `Calls`
gives every packet's requester the kinds of calls it makes.
*Queue*: two items make lists that can be reversed and joined; the ring has three
slots (`Slack = 1`), so head and tail wrap; `MaxAllocs` is the size of the ring,
because from the next allocation on a delayed producer can be given an item in use
(section 6).
*Rendezvous*: three EMTs make a first, a middle and a last one; two calls may coincide, so
that one caller spins and joins, or follow each other, so that the second finds what the
first left behind. *Threads*: five calls are create, resume, suspend, resume, destroy, enough for a
signal of one hand-shake to meet the next. *Packets*: with one list and two
packets on it an allocation gives back a rest; with three packets somebody frees
meanwhile and the chains have to be joined, and joined again; a limit of two sends one back to
the heap. One list instead of a dozen makes the actors meet. The two requesters are the two
that the race of section 6 takes: one whose wait times out, and one whose NO_WAIT is read in its place. The
same instance with a second requester that also waits without limit has no error either; it takes minutes.
Deadlock checking is off where a bound lets every actor come to rest.

Fairness. A thread that is inside a call is scheduled (weak fairness on its
steps). Holders leave sections eventually (strong fairness: a holder may do other
things in between). An EMT with `VMCPU_FF_TO_R3` set comes back to ring-3: this is
what the flag is for. Ring-3 services end. EMTs poll: the EM loop returns to
`emR3ForcedActions` on every flag. In the asynchronous wait the EMT and the thread that does the
device's part are scheduled each for itself. Timeouts are *not* assumed in `req_live` and
`req_async_wait`, so that they cannot hide a lost wake-up; `req_priority_only` assumes
them, and has but one notification, which ends; it fails all the same. PDM timers fire. The consumer of a queue refuses at most
`MaxRefusals` times. EMTs look at the rendezvous flag in every turn of their loops (they are
poked), and callbacks end. No timeout of a thread's or packet's wait is assumed to happen.

## 4. Theorems

Every safety invariant, action property and refinement that a run checks is also a theorem
about the same definition: the run shows it on the instance of section 3, the theorem for
every value of the constants that the module's named assumptions allow.

| Module | Proved | For every |
|---|---|---|
| `PDMCritSectProofs` | `TypeCorrect`, `MutualExclusionHolds`, `AssertionsNeverFire`, `NestingsAlwaysMatch`, `QueuedAtMostOnce`, `LockersAlwaysMatch`, `IsOwnerAlwaysSound`, `NeverBarges` (action property), `ImplementsRecursiveLock` (refinement) | finite set of EMTs and I/O threads, nesting bound |
| `VMReqQueueProofs` | `TypeCorrect`, `AlwaysOnePlace`, `NeverStranded`, `NeverLosesWakeup`, `QueueIsFifo` (action property) | number of CPUs, packets, kinds of calls and number of calls, running and suspended VMs |
| `VMReqPacketProofs` | `TypeCorrect`, `PacketsAlwaysAccounted`, `SignalAlwaysFindsWaiter`, `WaitAlwaysTruthful` | finite sets of requesters and packets, number of lists, limit of free packets, packets that are free at first |
| `PDMQueueProofs` | `TypeCorrect`, `OneFlusherAlways`, `NobodyEverRacesUs`; `EachItemOnce...` and `InOrder...` (action property), each `...UnlessStale` and `...WithinATurn` | set of EMTs, finite set of producers, contexts, number of items, slack, allocations and refusals |
| `EmtRendezvousProofs` | `TypeCorrect`, `AlwaysRunsAsAsked`, `StatusAlwaysReachesAll`, `SignalsAlwaysTaken`, `NestedAlwaysRefused`, `ImplementsGathering` (refinement) | number of EMTs from two on, methods, codes, number of calls and priority requests |
| `PDMThreadProofs` | `TypeCorrect`, `StaysOut`, `BailsOnlyIfLate` | set of threads, number of calls and of faults |

The bounds on calls, allocations and so on are constants of these theorems, so they hold for
any bound. Assumptions beyond the types of the constants: the "no one" value `NIL` is no
thread, item, packet or code; `cItems`, `Slack`, `MaxNest` and the number of lists are not zero; a
rendezvous has two EMTs at least, as with one the code takes a shortcut; the notifications
that EMT 0 waits for are sent with one CPU (section 2); there are 25 packets at most, because
`vmr3ReqJoinFree` splits longer chains, which is not modelled. A timer-driven queue is flushed by
one EMT, a condition of `Init`.

None of the properties is inductive. The strengthenings, each checked with TLC on the
instances of section 3 before it was proved:

*Critical section.* That a thread finds `cLockers = -1` says nothing about others unless
`cLockers` is known to cover whoever is inside. `IInv` therefore treats the section as a token
(`TokenInv`): it is with exactly one thread (`Inside`), or in the semaphore, or `cLockers` is -1, never
two of these. To preserve that across leaves one needs what the thread inside has in its
books (`InsideInv`: owner and `cNestings` at each place of the leave, and `cNestings =
hold + Owed` between calls) and that a nested leave keeps `cLockers` above -1; for
queued leaves, where a thread may be with a leave owed (`ThreadInv`: at most one, none
while spinning or waiting, replayed first on arrival in ring-3). `CountInv` adds that `cLockers`
counts the share of the thread inside and the waiters; `LockersMatch` and `NoBarging`, where a newcomer
wins only if nobody waits, follow from it. `IsOwnerSound` needs `PendingInv`: a queued leave that is
not being replayed has left its mark on the section.

*Request queues.* `LoopInv` says where an EMT is in its loop and what it has announced.
With it `NothingStranded` and `NoLostWakeup` are inductive together: a request on a list
is covered by a flag, by a requester that will set it, or by an EMT that has yet to look. `PlaceInv`
has the parts of `ExactlyOnePlace`: no list has a request twice (`OnceInv`), a request on a list
or in a part that is to be pushed back is queued and belongs there (`ListInv`, `PartInv`), what an EMT
has in hand is nowhere else (`HandInv`), and what is to be processed is somewhere
(`SomewhereInv`). FIFO order of a CPU's own queue holds because nobody else takes it apart.

*Packets.* The free lists are linked through the packets, so the invariant says where every
packet is: there is a placement (`PlaceInv`, with witnesses `k` and `o`) on one list, in the rest one requester
has to give back, with one owner, or nowhere. Chains have to end for a walk to arrive (`ChainInv`,
`Ends`); while two chains are joined one link is ahead of the store, hence `Cut`. `Chain` is the
least set closed under the links, so a set that a step's links do not leave bounds it: that
replaces induction along the list. `StateInv` ties the state of a packet to who works on it,
`CountInv` the number of free packets to their set. `SemInv`, one signal for one wait, is claimed only until
a timed wait has raced with the signal (`raced`), and the rest only until the EMT has in
consequence misread the flags (`misread`): from there on two threads own a packet, and the free lists may be anything. So
the invariant is `misread \/ Core`, with `misread => raced`, and the theorems say just that. That nothing is
misread without the race follows from `OwedOnce`: the packet whose flags the EMT is about to read is still COMPLETED. `NobodyWaits`
gives the EMT the packets of completed requests that nobody waits for.

*PDM queues.* Both assertions of the flush code are about what an EMT saw one step ago; they
survive because nobody else flushes (`OneFlusher`, kept by the active bit) and producers only add
to lists. That a producer never finds NIL in the ring is `RingInv`: slots are NIL only until the
head has been there, and as long as there is one the head has not gone round. `OnceInv` says
that every item is in one place and in no place twice; each step moves a set of items from one place
to another (`ItemsMove`), and the ring takes a returned item because it has more slots than the items
that can be in it (`NotFull`). The step that does not preserve it is the compare-exchange of
`PDMQueueAlloc`, which compares an index (section 6). So it is proved for every behaviour in which
`NothingStale` holds: when the compare-exchange succeeds, the item is still the one at the tail. And
`NothingStaleWithinATurn` proves that of all behaviours with `MaxAllocs <= Ring`: by then the tail has come back to
a slot only when no producer is left that could have seen it there (`TurnInv`). `OrderInv` is an
order embedding: of two items inserted one after the other the first is `Ahead`: in front in the hands of the flushing EMT,
or there when the other is still on the list, or deeper on the list; it holds through the
three exchanges (`Untaken`), the reversal on a refusal, the put-back and the join.

*Rendezvous.* The invariant goes by the stages of a rendezvous: nothing left over
(`ClosedInv`), EMTs coming in (`GatherInv`), the last one in (`LastInv`), at work and leaving (`TurnInv`,
`ReturnInv`), with the counters as cardinalities of the sets of EMTs that are inside, through and
back. `TurnInv` has, per method, whose turn it is and which event may be set: at most one token goes
round. On top of that the history: on whom the callback ran (`RanInv`), that the
status is the first error or the most important code (`StatusInv`), and that all take the same one
(`AgreeInv`). For the refinement `Enter` is `Gathering`'s arrival, the check before a callback begins an EMT's work and the end of the callback
ends it, the signal that sets `done` is the end of the work, `CountReturn` and the caller's wake-up
are departures; every other step leaves phase and places as they are.

*Threads.* A thread that has had no fault and the EMT know of each other: it is
SUSPENDING, RESUMING or TERMINATING only while the call that made it so is running (`StateInv`,
`CallInv`). Hence nobody sets a suspended thread's BlockEvent but the resume that lets it go (`BlockInv`,
`QuietInv`), and the signal the EMT waits for is the answer to this call, unless an older one was
still to come at the reset (`AnswerInv`, `late`).

Facts about lists that two of these proofs need (joining, reversing, cutting, what
precedes what) are in `ListLemmas`.

## 5. Only model-checked

Liveness: `LeavesTakeEffect`, `RequestsComplete`, `AsyncWaitEnds`, `ItemsConsumed`, `EveryoneComesBack`,
`CallsEnd`, `TerminatingEnds`, `RequestsEnd`. They need fairness and ENABLED, which this prover does not
handle. The two violations of section 6 are TLC's as well.

Proved under a hypothesis only: `EachItemOnce` and `InOrder` beyond one turn of the
ring. There they are false as they stand, and `NothingStale` is what the code would have to ensure.

## 6. Where code and comments disagree

Two are runs with expectation `violation`; `PROJECT.json` quotes the lines.

1. `req_priority_only`: priority-only processing clears the request flag although
   normal requests are queued (`VMMR3/VMReq.cpp:1036`) and leaves them on their list (line 1064). In the run one
   normal request is queued while EMT 0 waits for one notification; when that is over, the
   EM loop of a running VM does not see the request. Were the flag set again, the run would pass.
2. `queue_lost_insert`: `PDMQueueInsert` sets the flag before the pending bit; with two
   EMTs an item is left on its list until another insert.

Others shape what is stated rather than being runs of their own; a property named here
fails when its exception is taken out.

- `PDMCritSectIsOwner` (`VMMAll/PDMAllCritSect.cpp:678`): after a queued leave is replayed over a
  nested re-entry the pending-unlock flag stays set, and the owner is denied. `IsOwnerSound`
  allows just that.
- `VMR3ReqWait` (`VMMR3/VMReq.cpp:926`): a timed wait, also one with no time at all, that ends between
  COMPLETED (line 1249) and the signal (line 1263) reports success; its caller frees the packet
  that the EMT is about to signal. The next timed wait on the recycled packet returns
  `VINF_SUCCESS` before completion, though the comment promises `VERR_TIMEOUT`; and if the packet
  went back to the heap, the signal goes to a destroyed semaphore. `SignalFindsWaiter` and
  `WaitTruthful` except this race (`raced`).
  Worse, the EMT reads the flags (line 1250) after it has stored COMPLETED: when the packet has been
  freed and taken by a request with NO_WAIT by then (line 389, while it is ALLOCATED), the EMT reads that
  request's flag and frees the packet, which `VMR3ReqFree` accepts in that state (lines 671 and following): a packet is
  on a free list and has an owner, who may queue it. `PacketsAccounted`, `WaitTruthful` and `RequestsEnd` except this
  (`misread`). Until then waits without limit, which look at the state, are safe.
- `PDMR3ThreadSuspend` (`VMMR3/PDMThread.cpp:945`): it does not wait for the signal when it already
  sees SUSPENDED. The signal may come after the reset in the next `PDMR3ThreadResume`, whose
  wait ends before the thread runs; it then returns `VERR_PDM_THREAD_IPE_2` and terminates a healthy thread.
  `FailsOnlyIfLate` excepts this (`late`).
- `PDMR3ThreadIAmSuspending` reads the state anew (line 651): when that has become TERMINATING since
  `pdmR3ThreadMain` looked, it is exchanged for SUSPENDED and the thread may be resumed; suspending a thread again while it terminates resets the event it is to be
  woken by (line 930), and it then ends only when destroyed. `TerminatingEnds` excepts both.
- `pdmR3ThreadSuspendAll` and `pdmR3ThreadResumeAll` return with `ListCritSect` held when a thread
  fails (lines 985, 1077); `pdmR3ThreadInit` frees the structure of a thread that was too
  slow, with `MMHyperFree` (line 187); `pdmR3ThreadDestroyUsb` tests for the type of device threads and
  matches none. None of these is modelled: `ListCritSect` is recursive and one EMT makes
  the calls.
- `pdmR3CritSectDeleteByKey` (`VMMR3/PDMCritSect.cpp:382`) goes on from the node it has just wiped, so
  that only the first section of a device or driver is deleted; `vmr3ReqJoinFree`
  (`VMMR3/VMReq.cpp:462`) drops the first part of a chain it splits. Both follow from reading one
  line, and neither the list of sections nor chains of more than 25 packets are modelled.

Two more are in the queues. Refused ring-0 and raw-mode items are put on the ring-3 list
(`VMMR3/PDMQueue.cpp:830`), and the next flush puts newer items of their own context in
front of them (lines 743-750), so `InOrder` promises order for these contexts only until the first
refusal. And `PDMQueueAlloc` compares an index only (`VMMAll/PDMAllQueue.cpp:62`): a producer
delayed for a full turn of the ring, 16 allocations and one per item, gets an item in use,
so `EachItemOnce` holds for fewer allocations than that.

## 7. Plan

Done: the critical sections, the request queues with the EMT waiting, the packets, the
PDM queues, the rendezvous with its abstract specification, and the PDM threads, each
with its proofs.

Next, in this order:

1. `VMState`: the transition table and who calls it, over requests and rendezvous.
2. The ring-0 halt and wake-up of the global halt method, the default, if the GVMM side can be
   kept as an external event; then TM timers.

Abstract specifications worth stating: a request queue as a set of pending requests
that `VMReqQueue` implements; a queue as a FIFO per context that `PDMQueue` implements.

Proofs worth doing: these two refinements, from `PlaceInv` and `OrderInv`; and the safety
lemmas that the liveness properties rest on, such as what a waiter's turn is enabled by.

## 8. Not modelled

The VM state machine and the timers are on the plan. The list of critical sections, the
USB and creation-timeout paths of PDM threads and the one-CPU shortcut of the rendezvous
are described above.

Page tables, CPU state, instruction emulation and hardware virtualization: their
state is data far beyond explicit-state checking. Saved states, disk formats,
devices and the loader: sequential code over formats and hardware registers. IPRT, the
support driver and GVMM/GMM: used as events and atomics by their contracts. Main, HGCM,
frontends, guest additions: separate programs on top of the monitor.
