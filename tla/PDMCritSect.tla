---------------------------- MODULE PDMCritSect ----------------------------
(***************************************************************************)
(* One PDM critical section (VMMAll/PDMAllCritSect.cpp and the ring-3 half *)
(* in VMMR3/PDMCritSect.cpp).  It is a recursive lock that ring-3 threads, *)
(* ring-0 code and the raw-mode context share.  An EMT that leaves with    *)
(* interrupts disabled cannot signal a waiter, so it marks the section     *)
(* "pending unlock", queues it on its virtual CPU, and the leave is        *)
(* replayed once the EMT is back in ring-3 (PDMCritSectFF).                *)
(*                                                                         *)
(* One step is one atomic operation on the shared words (cLockers,         *)
(* cNestings, NativeThreadOwner, the event semaphore).  fFlags and         *)
(* EventToSignal are only touched by the owner, and a VCPU's leave queue   *)
(* only by its own EMT, so their accesses ride along with the neighbouring *)
(* shared access.                                                          *)
(*                                                                         *)
(* External: SUPSemEvent/RTSemEvent are auto-reset events.                 *)
(***************************************************************************)
EXTENDS Integers, FiniteSets

CONSTANTS
    Emts,      \* emulation threads: run in ring-3, ring-0 or raw mode
    IoThreads, \* device and driver threads: ring-3 only
    MaxNest,   \* bound on the recursion depth (the code asserts < 8)
    NIL        \* NIL_RTNATIVETHREAD

Threads == Emts \cup IoThreads

ASSUME NilAssumption == NIL \notin Threads
ASSUME FiniteAssumption == IsFiniteSet(Threads)
ASSUME NestAssumption == MaxNest \in Nat \ {0}

\* R0: ring-0, preemptible.  R0NP: ring-0, preemption disabled.  RZ: raw mode,
\* or ring-0 with interrupts disabled, where no semaphore may be touched.
GuestContexts == {"R0", "R0NP", "RZ"}
Contexts == GuestContexts \cup {"R3"}

VARIABLES
    u32Magic,          \* TRUE between init and delete
    cLockers,          \* -1 when free, else (lockers - 1), nestings included
    cNestings,
    NativeThreadOwner,
    fPendingUnlock,    \* PDMCRITSECT_FLAGS_PENDING_UNLOCK
    EventSem,          \* the auto-reset semaphore is signalled
    EventToSignal,     \* an exit event is scheduled
    ExitSem,           \* the scheduled exit event (a device's RTSEMEVENT) is signalled
    pc,                \* next instruction of each thread
    ctx,               \* execution context of each thread
    back,              \* context a VMMRZCallRing3 returns to, "none" outside one
    caller,            \* who called the running Enter or Leave
    hEventToSignal,    \* local of PDMCritSectLeave: exit event to signal at the end
    cQueuedCritSectLeaves, \* entries of this section in the VCPU's leave queue
    hold               \* history: Enters that succeeded minus Leaves called

lockVars == <<cLockers, cNestings, NativeThreadOwner, fPendingUnlock, EventSem>>
exitVars == <<EventToSignal, ExitSem, hEventToSignal>>
ctxVars  == <<ctx, back>>
\* What a step that only touches the lock words leaves alone.
callVars == <<u32Magic, exitVars, ctxVars, caller, cQueuedCritSectLeaves, hold>>
vars == <<lockVars, callVars, pc>>

Pcs == {"idle", "cas", "trycas", "spin", "inc", "wait", "first1", "first2",
        "nest1", "nest2", "leave", "lnest", "dec0", "dec", "signal", "exitsig",
        "rz0", "rzcas", "rznest", "pend", "ff", "ffdone", "all"}
Callers == {"user", "callr3", "ff", "yield", "all"}

\* pdmR3CritSectInitOne: the section as it is handed to its users.
Init ==
    /\ u32Magic = TRUE
    /\ cLockers = -1 /\ cNestings = 0 /\ NativeThreadOwner = NIL
    /\ fPendingUnlock = FALSE /\ EventSem = FALSE
    /\ EventToSignal = FALSE /\ ExitSem = FALSE
    /\ pc = [t \in Threads |-> "idle"]
    /\ ctx = [t \in Threads |-> "R3"]
    /\ back = [t \in Threads |-> "none"]
    /\ caller = [t \in Threads |-> "user"]
    /\ hEventToSignal = [t \in Threads |-> FALSE]
    /\ cQueuedCritSectLeaves = [t \in Threads |-> 0]
    /\ hold = [t \in Threads |-> 0]

Goto(t, l) == pc' = [pc EXCEPT ![t] = l]

-----------------------------------------------------------------------------
(* Entering *)

\* Enter or TryEnter is called; a deleted section is refused with nothing changed.
EnterCall(t) ==
    /\ pc[t] = "idle" /\ u32Magic /\ hold[t] < MaxNest
    /\ \E l \in {"cas", "trycas"} : Goto(t, l)
    /\ UNCHANGED <<lockVars, callVars>>

\* Seeded fault: a section whose owner word is clear is taken for free.
FreeIfNoOwner == NativeThreadOwner = NIL

\* The comparison of the ASMAtomicCmpXchgS32(&cLockers, 0, -1).
IsFree == cLockers = -1

\* The compare-exchange, first try or while spinning, wins the section.
CasWins(t) ==
    /\ pc[t] \in {"cas", "trycas", "spin"} /\ IsFree
    /\ cLockers' = 0
    /\ Goto(t, "first1")
    /\ UNCHANGED <<cNestings, NativeThreadOwner, fPendingUnlock, EventSem, callVars>>

\* It fails: nested if we are the owner (a fact only we can change), otherwise
\* Enter starts spinning and TryEnter returns VERR_SEM_BUSY.
CasFails(t) ==
    /\ pc[t] \in {"cas", "trycas"} /\ ~IsFree
    /\ Goto(t, IF NativeThreadOwner = t THEN "nest1"
               ELSE IF pc[t] = "cas" THEN "spin" ELSE "idle")
    /\ UNCHANGED <<lockVars, callVars>>

\* Enter returns VINF_SUCCESS; one called on behalf of a VMMRZCallRing3 goes back down.
EnterReturns(t) ==
    /\ Goto(t, "idle")
    /\ hold' = [hold EXCEPT ![t] = @ + 1]
    /\ caller' = [caller EXCEPT ![t] = "user"]
    /\ ctx' = [ctx EXCEPT ![t] = IF caller[t] = "callr3" THEN back[t] ELSE @]
    /\ back' = [back EXCEPT ![t] = IF caller[t] = "callr3" THEN "none" ELSE @]

NestLockers(t) ==
    /\ pc[t] = "nest1"
    /\ cLockers' = cLockers + 1
    /\ Goto(t, "nest2")
    /\ UNCHANGED <<cNestings, NativeThreadOwner, fPendingUnlock, EventSem, callVars>>

NestNestings(t) ==
    /\ pc[t] = "nest2"
    /\ cNestings' = cNestings + 1
    /\ EnterReturns(t)
    /\ UNCHANGED <<u32Magic, cLockers, NativeThreadOwner, fPendingUnlock, EventSem,
                   exitVars, cQueuedCritSectLeaves>>

\* The spin count is used up.  Ring-3 and preemptible ring-0 take the slow path;
\* elsewhere ring-3 is called to enter on our behalf (rcBusy = VINF_SUCCESS) or
\* rcBusy is returned.
SpinEndsBlocking(t) ==
    /\ pc[t] = "spin" /\ ~IsFree /\ ctx[t] \in {"R3", "R0"}
    /\ Goto(t, "inc")
    /\ UNCHANGED <<lockVars, callVars>>

SpinEndsBusy(t) ==
    /\ pc[t] = "spin" /\ ~IsFree /\ ctx[t] \in {"R0NP", "RZ"}
    /\ Goto(t, "idle")
    /\ UNCHANGED <<lockVars, callVars>>

\* vmmR3ServiceCallRing3Request: queued leaves are replayed before the request
\* itself.  A thread that spins owns nothing here, so it has nothing queued.
SpinEndsCallRing3(t) ==
    /\ pc[t] = "spin" /\ ~IsFree /\ ctx[t] \in {"R0NP", "RZ"}
    /\ cQueuedCritSectLeaves[t] = 0
    /\ ctx' = [ctx EXCEPT ![t] = "R3"]
    /\ back' = [back EXCEPT ![t] = ctx[t]]
    /\ caller' = [caller EXCEPT ![t] = "callr3"]
    /\ Goto(t, "cas")
    /\ UNCHANGED <<u32Magic, lockVars, exitVars, cQueuedCritSectLeaves, hold>>

\* pdmR3R0CritSectEnterContended: announce ourselves; whoever brings cLockers to
\* zero is the owner, everybody else waits.
ContendedInc(t) ==
    /\ pc[t] = "inc"
    /\ cLockers' = cLockers + 1
    /\ Goto(t, IF cLockers' = 0 THEN "first1" ELSE "wait")
    /\ UNCHANGED <<cNestings, NativeThreadOwner, fPendingUnlock, EventSem, callVars>>

\* Seeded fault: a woken waiter competes for the section again, announcing itself twice.
WokenAgain == "inc"

\* What a successful SUPSemEventWaitNoResume leads to.
WokenGoesTo == "first1"

\* SUPSemEventWaitNoResume returns VINF_SUCCESS (VERR_INTERRUPTED just waits again).
ContendedWake(t) ==
    /\ pc[t] = "wait" /\ EventSem
    /\ EventSem' = FALSE
    /\ Goto(t, WokenGoesTo)
    /\ UNCHANGED <<cLockers, cNestings, NativeThreadOwner, fPendingUnlock, callVars>>

\* pdmCritSectEnterFirst: the nesting count, then the owner.
EnterFirstNestings(t) ==
    /\ pc[t] = "first1"
    /\ cNestings' = 1
    /\ Goto(t, "first2")
    /\ UNCHANGED <<cLockers, NativeThreadOwner, fPendingUnlock, EventSem, callVars>>

EnterFirstOwner(t) ==
    /\ pc[t] = "first2"
    /\ NativeThreadOwner' = t
    /\ EnterReturns(t)
    /\ UNCHANGED <<u32Magic, cLockers, cNestings, fPendingUnlock, EventSem,
                   exitVars, cQueuedCritSectLeaves>>

-----------------------------------------------------------------------------
(* Leaving *)

\* A client that entered calls PDMCritSectLeave.
LeaveCall(t) ==
    /\ pc[t] = "idle" /\ hold[t] > 0
    /\ hold' = [hold EXCEPT ![t] = @ - 1]
    /\ Goto(t, "leave")
    /\ UNCHANGED <<u32Magic, lockVars, exitVars, ctxVars, caller, cQueuedCritSectLeaves>>

\* PDMR3CritSectYield: only unnested, and only if somebody waits; it leaves and
\* enters again.
YieldCall(t) ==
    /\ pc[t] = "idle" /\ ctx[t] = "R3" /\ hold[t] > 0
    /\ cNestings = 1 /\ cLockers >= cNestings
    /\ hold' = [hold EXCEPT ![t] = @ - 1]
    /\ caller' = [caller EXCEPT ![t] = "yield"]
    /\ Goto(t, "leave")
    /\ UNCHANGED <<u32Magic, lockVars, exitVars, ctxVars, cQueuedCritSectLeaves>>

\* Where PDMCritSectLeave returns to.
LeaveReturns(t) ==
    /\ Goto(t, CASE caller[t] = "ff" -> "ffdone"
                 [] caller[t] = "yield" -> "cas"
                 [] caller[t] = "all" -> "all"
                 [] OTHER -> "idle")
    /\ caller' = [caller EXCEPT ![t] = "user"]

LeaveNestings(t) ==
    /\ pc[t] = "leave" /\ cNestings > 1
    /\ cNestings' = cNestings - 1
    /\ Goto(t, "lnest")
    /\ UNCHANGED <<cLockers, NativeThreadOwner, fPendingUnlock, EventSem, callVars>>

LeaveNestedLockers(t) ==
    /\ pc[t] = "lnest"
    /\ cLockers' = cLockers - 1
    /\ LeaveReturns(t)
    /\ UNCHANGED <<u32Magic, cNestings, NativeThreadOwner, fPendingUnlock, EventSem,
                   exitVars, ctxVars, cQueuedCritSectLeaves, hold>>

\* Leave for real: ring-3, or ring-0 with interrupts enabled.  Only ring-3
\* deals with the exit event.
LeaveOwner(t) ==
    /\ pc[t] = "leave" /\ cNestings <= 1 /\ ctx[t] # "RZ"
    /\ NativeThreadOwner' = NIL
    /\ fPendingUnlock' = FALSE
    /\ IF ctx[t] = "R3"
       THEN /\ hEventToSignal' = [hEventToSignal EXCEPT ![t] = EventToSignal]
            /\ EventToSignal' = FALSE
       ELSE UNCHANGED <<hEventToSignal, EventToSignal>>
    /\ Goto(t, "dec0")
    /\ UNCHANGED <<u32Magic, cLockers, cNestings, EventSem, ExitSem,
                   ctxVars, caller, cQueuedCritSectLeaves, hold>>

LeaveUnnest(t) ==
    /\ pc[t] = "dec0"
    /\ cNestings' = cNestings - 1
    /\ Goto(t, "dec")
    /\ UNCHANGED <<cLockers, NativeThreadOwner, fPendingUnlock, EventSem, callVars>>

\* Seeded fault: off by one, a single waiter is forgotten.
WaitersLeftOffByOne(c) == c > 0

\* "Someone is waiting, wake up one of them": the test on the new cLockers.
WaitersLeft(c) == c >= 0

LeaveLockers(t) ==
    /\ pc[t] = "dec"
    /\ cLockers' = cLockers - 1
    /\ Goto(t, IF WaitersLeft(cLockers') THEN "signal" ELSE "exitsig")
    /\ UNCHANGED <<cNestings, NativeThreadOwner, fPendingUnlock, EventSem, callVars>>

LeaveSignal(t) ==
    /\ pc[t] = "signal"
    /\ EventSem' = TRUE
    /\ Goto(t, "exitsig")
    /\ UNCHANGED <<cLockers, cNestings, NativeThreadOwner, fPendingUnlock, callVars>>

LeaveExitEvent(t) ==
    /\ pc[t] = "exitsig"
    /\ ExitSem' = (ExitSem \/ hEventToSignal[t])
    /\ hEventToSignal' = [hEventToSignal EXCEPT ![t] = FALSE]
    /\ LeaveReturns(t)
    /\ UNCHANGED <<u32Magic, lockVars, EventToSignal, ctxVars, cQueuedCritSectLeaves, hold>>

\* Raw mode, or ring-0 with interrupts disabled: leave if nobody else is counted ...
LeaveRZTry(t) ==
    /\ pc[t] = "leave" /\ cNestings <= 1 /\ ctx[t] = "RZ" /\ cLockers = 0
    /\ cNestings' = 0
    /\ Goto(t, "rz0")
    /\ UNCHANGED <<cLockers, NativeThreadOwner, fPendingUnlock, EventSem, callVars>>

LeaveRZOwner(t) ==
    /\ pc[t] = "rz0"
    /\ fPendingUnlock' = FALSE
    /\ NativeThreadOwner' = NIL
    /\ Goto(t, "rzcas")
    /\ UNCHANGED <<cLockers, cNestings, EventSem, callVars>>

\* Seeded fault: cLockers is stored instead of compare-exchanged.
StoreAlways(c) == TRUE

\* The comparison of the ASMAtomicCmpXchgS32(&cLockers, -1, 0).
StillAlone(c) == c = 0

LeaveRZCas(t) ==
    /\ pc[t] = "rzcas" /\ StillAlone(cLockers)
    /\ cLockers' = -1
    /\ LeaveReturns(t)
    /\ UNCHANGED <<u32Magic, cNestings, NativeThreadOwner, fPendingUnlock, EventSem,
                   exitVars, ctxVars, cQueuedCritSectLeaves, hold>>

\* ... but somebody raced in on us: take the ownership back.
LeaveRZRaced(t) ==
    /\ pc[t] = "rzcas" /\ ~StillAlone(cLockers)
    /\ NativeThreadOwner' = t
    /\ Goto(t, "rznest")
    /\ UNCHANGED <<cLockers, cNestings, fPendingUnlock, EventSem, callVars>>

LeaveRZRestore(t) ==
    /\ pc[t] = "rznest"
    /\ cNestings' = 1
    /\ Goto(t, "pend")
    /\ UNCHANGED <<cLockers, NativeThreadOwner, fPendingUnlock, EventSem, callVars>>

LeaveRZBusy(t) ==
    /\ pc[t] = "leave" /\ cNestings <= 1 /\ ctx[t] = "RZ" /\ cLockers # 0
    /\ Goto(t, "pend")
    /\ UNCHANGED <<lockVars, callVars>>

\* Queue the leave on our VCPU and set VMCPU_FF_PDM_CRITSECT and VMCPU_FF_TO_R3.
LeaveRZQueue(t) ==
    /\ pc[t] = "pend"
    /\ fPendingUnlock' = TRUE
    /\ cQueuedCritSectLeaves' = [cQueuedCritSectLeaves EXCEPT ![t] = @ + 1]
    /\ LeaveReturns(t)
    /\ UNCHANGED <<u32Magic, cLockers, cNestings, NativeThreadOwner, EventSem,
                   exitVars, ctxVars, hold>>

-----------------------------------------------------------------------------
(* Context changes of an EMT and the replay of its queued leaves *)

\* Seeded fault: the queued leaves are not replayed on the way.
ArriveUnprocessed(t) == ctx' = [ctx EXCEPT ![t] = "R3"] /\ Goto(t, "idle")

\* Where an EMT that arrives in ring-3 continues: the queued leaves come first.
ArriveInRing3(t) ==
    /\ ctx' = [ctx EXCEPT ![t] = "R3"]
    /\ Goto(t, IF cQueuedCritSectLeaves[t] > 0 THEN "ff" ELSE "idle")

\* Guest execution starts with no section held; ring-0 code then disables and
\* enables preemption and interrupts as it likes.
SwitchContext(t) ==
    /\ t \in Emts /\ pc[t] = "idle"
    /\ ctx[t] = "R3" => hold[t] = 0 /\ back[t] = "none"
    /\ \E c \in GuestContexts \ {ctx[t]} : ctx' = [ctx EXCEPT ![t] = c]
    /\ UNCHANGED <<u32Magic, lockVars, exitVars, back, pc, caller, cQueuedCritSectLeaves, hold>>

\* Guest execution ends: emR3HighPriorityPostForcedActions runs before anything else.
ExitToRing3(t) ==
    /\ pc[t] = "idle" /\ ctx[t] # "R3" /\ hold[t] = 0
    /\ ArriveInRing3(t)
    /\ UNCHANGED <<u32Magic, lockVars, exitVars, back, caller, cQueuedCritSectLeaves, hold>>

\* Any other VMMRZCallRing3, possibly with the section held.
CallRing3(t) ==
    /\ pc[t] = "idle" /\ ctx[t] # "R3"
    /\ back' = [back EXCEPT ![t] = ctx[t]]
    /\ ArriveInRing3(t)
    /\ UNCHANGED <<u32Magic, lockVars, exitVars, caller, cQueuedCritSectLeaves, hold>>

ReturnFromRing3(t) ==
    /\ pc[t] = "idle" /\ back[t] # "none"
    /\ ctx' = [ctx EXCEPT ![t] = back[t]]
    /\ back' = [back EXCEPT ![t] = "none"]
    /\ UNCHANGED <<u32Magic, lockVars, exitVars, pc, caller, cQueuedCritSectLeaves, hold>>

\* PDMCritSectFF.  The section is in the queue once (QueuedOnce), so the loop
\* calls PDMCritSectLeave once for it.
FFLeave(t) ==
    /\ pc[t] = "ff"
    /\ caller' = [caller EXCEPT ![t] = "ff"]
    /\ Goto(t, "leave")
    /\ UNCHANGED <<u32Magic, lockVars, exitVars, ctxVars, cQueuedCritSectLeaves, hold>>

\* Seeded fault: the queue is not emptied.
KeepQueue(t) == cQueuedCritSectLeaves' = cQueuedCritSectLeaves

EmptyQueue(t) == cQueuedCritSectLeaves' = [cQueuedCritSectLeaves EXCEPT ![t] = 0]

FFDone(t) ==
    /\ pc[t] = "ffdone"
    /\ EmptyQueue(t)
    /\ Goto(t, "idle")
    /\ UNCHANGED <<u32Magic, lockVars, exitVars, ctxVars, caller, hold>>

-----------------------------------------------------------------------------
(* The rest of the ring-3 interface *)

\* PDMR3CritSectLeaveAll (guru meditation): leave until we are not the owner.
LeaveAllCall(t) ==
    /\ pc[t] = "idle" /\ ctx[t] = "R3" /\ hold[t] > 0
    /\ Goto(t, "all")
    /\ UNCHANGED <<lockVars, callVars>>

LeaveAllNext(t) ==
    /\ pc[t] = "all" /\ NativeThreadOwner = t /\ cNestings > 0
    /\ hold' = [hold EXCEPT ![t] = @ - 1]
    /\ caller' = [caller EXCEPT ![t] = "all"]
    /\ Goto(t, "leave")
    /\ UNCHANGED <<u32Magic, lockVars, exitVars, ctxVars, cQueuedCritSectLeaves>>

LeaveAllDone(t) ==
    /\ pc[t] = "all" /\ ~(NativeThreadOwner = t /\ cNestings > 0)
    /\ Goto(t, "idle")
    /\ UNCHANGED <<lockVars, callVars>>

\* PDMR3CritSectScheduleExitEvent with the device's one event: a second call finds
\* the same event scheduled.  Devices call it from ring-3 code of their own.
ScheduleExitEvent(t) ==
    /\ pc[t] = "idle" /\ ctx[t] = "R3" /\ back[t] = "none" /\ NativeThreadOwner = t
    /\ EventToSignal' = TRUE
    /\ UNCHANGED <<u32Magic, lockVars, ExitSem, hEventToSignal, ctxVars, pc, caller,
                   cQueuedCritSectLeaves, hold>>

\* External: the device's worker consumes the exit event.
ExitSemWait ==
    /\ ExitSem
    /\ ExitSem' = FALSE
    /\ UNCHANGED <<u32Magic, lockVars, EventToSignal, hEventToSignal, ctxVars, pc, caller,
                   cQueuedCritSectLeaves, hold>>

\* pdmR3CritSectDeleteOne, under the conditions it asserts and once nobody is
\* inside an operation on the section (its users are gone).
Delete ==
    /\ u32Magic
    /\ cNestings = 0 /\ cLockers = -1 /\ NativeThreadOwner = NIL
    /\ \A t \in Threads : pc[t] = "idle"
    /\ u32Magic' = FALSE
    /\ UNCHANGED <<lockVars, exitVars, ctxVars, pc, caller, cQueuedCritSectLeaves, hold>>

\* pdmR3CritSectInitOne on the memory of a deleted section.
InitAgain ==
    /\ ~u32Magic
    /\ u32Magic' = TRUE
    /\ cNestings' = 0 /\ cLockers' = -1 /\ NativeThreadOwner' = NIL
    /\ fPendingUnlock' = FALSE /\ EventToSignal' = FALSE /\ EventSem' = FALSE
    /\ UNCHANGED <<ExitSem, hEventToSignal, ctxVars, pc, caller, cQueuedCritSectLeaves, hold>>

-----------------------------------------------------------------------------

\* The steps of a call that has been made.
EnterStep(t) ==
    \/ CasWins(t) \/ CasFails(t) \/ NestLockers(t) \/ NestNestings(t)
    \/ SpinEndsBlocking(t) \/ SpinEndsBusy(t) \/ SpinEndsCallRing3(t)
    \/ ContendedInc(t) \/ ContendedWake(t)
    \/ EnterFirstNestings(t) \/ EnterFirstOwner(t)

LeaveStep(t) ==
    \/ LeaveNestings(t) \/ LeaveNestedLockers(t)
    \/ LeaveOwner(t) \/ LeaveUnnest(t) \/ LeaveLockers(t) \/ LeaveSignal(t)
    \/ LeaveExitEvent(t)
    \/ LeaveRZTry(t) \/ LeaveRZOwner(t) \/ LeaveRZCas(t) \/ LeaveRZRaced(t)
    \/ LeaveRZRestore(t) \/ LeaveRZBusy(t) \/ LeaveRZQueue(t)
    \/ FFLeave(t) \/ FFDone(t) \/ LeaveAllNext(t) \/ LeaveAllDone(t)

\* The steps a client decides on.
ClientStep(t) ==
    \/ EnterCall(t) \/ LeaveCall(t) \/ YieldCall(t) \/ LeaveAllCall(t)
    \/ ScheduleExitEvent(t)
    \/ SwitchContext(t) \/ ExitToRing3(t) \/ CallRing3(t) \/ ReturnFromRing3(t)

Next ==
    \/ \E t \in Threads : EnterStep(t) \/ LeaveStep(t) \/ ClientStep(t)
    \/ ExitSemWait \/ Delete \/ InitAgain

Spec == Init /\ [][Next]_vars

-----------------------------------------------------------------------------
(* Fairness: a running call is scheduled; a client does not keep the section
   for ever, whatever it does in between; an EMT with VMCPU_FF_TO_R3 set leaves
   guest execution, and ring-3 services end. *)
Fairness ==
    \A t \in Threads :
        /\ WF_vars(EnterStep(t) \/ LeaveStep(t))
        /\ \A n \in 1 .. MaxNest : SF_vars(hold[t] = n /\ LeaveCall(t))
        /\ SF_vars(cQueuedCritSectLeaves[t] > 0 /\ ExitToRing3(t))
        /\ WF_vars(ReturnFromRing3(t))

FairSpec == Spec /\ Fairness

-----------------------------------------------------------------------------
(* Properties *)

TypeOK ==
    /\ u32Magic \in BOOLEAN
    /\ cLockers \in Int
    /\ cNestings \in Int
    /\ NativeThreadOwner \in Threads \cup {NIL}
    /\ fPendingUnlock \in BOOLEAN
    /\ EventSem \in BOOLEAN
    /\ EventToSignal \in BOOLEAN
    /\ ExitSem \in BOOLEAN
    /\ pc \in [Threads -> Pcs]
    /\ ctx \in [Threads -> Contexts]
    /\ back \in [Threads -> GuestContexts \cup {"none"}]
    /\ caller \in [Threads -> Callers]
    /\ hEventToSignal \in [Threads -> BOOLEAN]
    /\ cQueuedCritSectLeaves \in [Threads -> Nat]
    /\ hold \in [Threads -> Nat]

\* Two threads never both have an Enter that they have not left, whatever mix of
\* contexts, nesting, yielding and queued leaves led there.
MutualExclusion ==
    \A t, u \in Threads : hold[t] > 0 /\ hold[u] > 0 => t = u

\* The section's assertions, where the code makes them: whoever wins finds no
\* owner and no pending unlock; whoever leaves is the owner and has entered; the
\* fast leave in raw mode finds its own zero again; a nested leave never frees
\* the section; the signal of the last leave has been consumed before the next.
AssertionsHold ==
    \A t \in Threads :
        /\ pc[t] = "first1" => NativeThreadOwner = NIL /\ ~fPendingUnlock
        /\ pc[t] = "leave" => NativeThreadOwner = t /\ cNestings >= 1
        /\ pc[t] = "dec0" => cNestings = 1
        /\ pc[t] = "rznest" => cNestings = 0
        /\ pc[t] = "lnest" => cNestings >= 1 /\ cLockers >= 1
        /\ pc[t] = "signal" => ~EventSem

\* Leaves still owed to the section by t: queued, and not yet replayed.
Owed(t) ==
    IF \/ pc[t] \in {"signal", "exitsig"} /\ caller[t] = "ff"
       \/ pc[t] = "ffdone"
    THEN 0 ELSE cQueuedCritSectLeaves[t]

\* Between two calls the recursion count is exactly what the owner has entered
\* and not left, plus the one leave that waits in its VCPU's queue; a nested
\* re-entry over a pending unlock keeps the two apart.
NestingsMatch ==
    \A t \in Threads : pc[t] = "idle" =>
        /\ hold[t] + Owed(t) > 0 <=> NativeThreadOwner = t
        /\ NativeThreadOwner = t => cNestings = hold[t] + Owed(t)

\* A section is in the leave queues at most once, and then of its owner's VCPU.
\* With eight slots per VCPU (AssertFatal) only nine different sections overflow.
QueuedOnce ==
    \A t \in Threads : Owed(t) > 0 =>
        /\ Owed(t) = 1
        /\ \A u \in Threads \ {t} : Owed(u) = 0 /\ hold[u] = 0
        /\ NativeThreadOwner = t \/ pc[t] = "dec0" \/ pc[t] = "dec"

\* Threads other than waiters that are counted in cLockers once, on their way in or out.
InTransit(t) ==
    \/ pc[t] \in {"first1", "first2", "nest2"}
    \/ pc[t] \in {"leave", "lnest", "dec0", "dec", "rz0", "rzcas", "rznest", "pend"}
       /\ caller[t] # "ff"

\* What t accounts for in cLockers, unless it waits: its nestings, the leave it has
\* queued and the one it is on its way with.
Share(t) == hold[t] + Owed(t) + (IF InTransit(t) THEN 1 ELSE 0)
Waiters == {t \in Threads : pc[t] = "wait"}

\* cLockers counts exactly the waiters and what the one thread inside accounts for:
\* no increment leaks on any path.  And a signalled semaphore is the section itself
\* on its way to a waiter: somebody is waiting for it and nobody else is in.
LockersMatch ==
    /\ \A t \in Threads : Share(t) > 0 =>
           /\ cLockers + 1 = Share(t) + Cardinality(Waiters)
           /\ \A u \in Threads \ {t} : Share(u) = 0
    /\ (\A t \in Threads : Share(t) = 0) => cLockers + 1 = Cardinality(Waiters)
    /\ EventSem => Waiters # {} /\ \A t \in Threads : Share(t) = 0

\* While others wait a newcomer cannot win: the section goes to a waiter.
NoBarging ==
    [][\A t \in Threads :
          (pc[t] # "first1" /\ pc'[t] = "first1" /\ \E u \in Threads \ {t} : pc[u] = "wait")
          => pc[t] = "wait"]_vars

\* A section somebody waits for is always handed over: the semaphore gets
\* signalled, also when the owner left with interrupts disabled.
ContendedHandover == (\E t \in Threads : pc[t] = "wait") ~> EventSem

\* A scheduled exit event is signalled.
ExitEventSignalled == EventToSignal ~> ExitSem

\* A leave takes effect for those who depend on it, queued or not: the next owner is
\* woken, and so is who waits for the exit event.
LeavesTakeEffect == ContendedHandover /\ ExitEventSignalled

\* The section implements a recursive lock: hold changes by one at a time, and
\* grows only while nobody else holds.
Lock == INSTANCE RecursiveLock WITH depth <- hold
IsRecursiveLock == Lock!Spec

\* Seeded fault: an EMT whose leave is queued still counts as the owner.
IsOwnerDespitePending(t) == NativeThreadOwner = t

\* What PDMCritSectIsOwner answers to t outside ring-3, and RTCritSectIsOwner in ring-3.
PDMCritSectIsOwner(t) ==
    /\ NativeThreadOwner = t
    /\ ctx[t] # "R3" => ~fPendingUnlock \/ cNestings > 1

\* "Checks the caller is the owner of the critical section": between two calls a
\* thread that has not entered, or whose leave is still queued, is never told it
\* owns the section.  A holder is denied only outside ring-3 and by a
\* pending-unlock flag that outlived the replay of the leave it stood for.
IsOwnerSound ==
    \A t \in Threads : pc[t] = "idle" =>
        /\ PDMCritSectIsOwner(t) => hold[t] > 0
        /\ hold[t] > 0 /\ ~PDMCritSectIsOwner(t) =>
              ctx[t] # "R3" /\ fPendingUnlock /\ cQueuedCritSectLeaves[t] = 0
=============================================================================
