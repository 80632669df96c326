--------------------------- MODULE EmtRendezvous ----------------------------
(***************************************************************************)
(* EMT rendezvous (VMM.cpp): an EMT gathers all EMTs of the VM and has     *)
(* them run a callback, one by one, in CPU order, all at once, or on one   *)
(* of them.  Several EMTs may call at the same time.                       *)
(*                                                                         *)
(* Each atomic operation, and each signal and wait on an event, is a step. *)
(* Clearing the slate is one step: by IsGathering nobody is held then who  *)
(* would use what it clears.  A call from a thread that is not an EMT is a *)
(* request to one, and so a call by that EMT.  Left out: with one CPU the  *)
(* code just runs the callback; and how a call that had to spin merges the *)
(* codes of the rendezvous it took part in meanwhile with its own.         *)
(***************************************************************************)
EXTENDS Integers, FiniteSets, FiniteSetsExt

CONSTANTS
    cCpus,      \* number of virtual CPUs, each with its EMT
    Flags,      \* per EMT: the fFlags it calls with
    Codes,      \* per EMT: what callbacks return on it: < 0 failure, 0 VINF_SUCCESS, > 0 EM codes
    MaxCalls,   \* bound on the number of VMMR3EmtRendezvous calls
    MaxPrio,    \* bound on the number of priority requests processed
    NIL

Emts == 0 .. cCpus - 1
AllFlags ==
    {f \in [type: {"ONE_BY_ONE", "ALL_AT_ONCE", "ONCE", "ASCENDING", "DESCENDING"}, stop: BOOLEAN] :
        f.stop => f.type \notin {"ALL_AT_ONCE", "ONCE"}}
NoFlags == [type |-> "INVALID", stop |-> FALSE]   \* zeroed memory
VERR_DEADLOCK == -1
AllCodes == {0, VERR_DEADLOCK} \cup UNION {Codes[e] : e \in Emts}

ASSUME CpusAssumption == cCpus \in Nat \ {0, 1}
ASSUME FlagsAssumption == Flags \in [Emts -> SUBSET AllFlags]
ASSUME CodesAssumption == Codes \in [Emts -> SUBSET Int]
ASSUME NilAssumption == NIL \notin Int      \* neither an EMT nor a code
ASSUME BoundsAssumption == MaxCalls \in Nat /\ MaxPrio \in Nat

VARIABLES
    u32RendezvousLock,   \* NIL or the EMT that took it
    ff,                  \* VM_FF_EMT_RENDEZVOUS
    fFlags, pfn,         \* fRendezvousFlags; pfnRendezvous, named by the EMT that passed it
    cEntered, cDone, cReturned,
    status,              \* i32RendezvousStatus
    ordered,             \* pahEvtRendezvousEnterOrdered: the CPUs whose event is signalled
    oneByOne, allAtOnce, \* hEvtRendezvousEnterOneByOne, hEvtMulRendezvousEnterAllAtOnce
    done, doneCaller,    \* hEvtMulRendezvousDone, hEvtRendezvousDoneCaller
    fInRendezvous,       \* per EMT
    pc,                  \* EMT: next instruction
    want,                \* EMT: the flags of its own call
    arg,                 \* EMT: the callback passed to vmmR3EmtRendezvousCommon, or NIL
    back,                \* EMT: where VMMR3EmtRendezvousFF was called
    mine,                \* EMT: its cDone
    rc,                  \* EMT: what the callback returned; then what VMMR3EmtRendezvousFF returns
    fSaved,              \* EMT: fSavedInRendezvous
    cCalls, cPrio,       \* calls and priority requests so far
    ran,                 \* history: what the callback of this rendezvous returned on each EMT, or NIL
    cRan,                \* history: how many times it has run
    firstError           \* history: the first failure it returned, or 0

eventVars == <<ordered, oneByOne, allAtOnce, done, doneCaller>>
countVars == <<cEntered, cDone, cReturned>>
callVars == <<want, cCalls>>
prioVars == <<fSaved, cPrio>>
globalVars == <<u32RendezvousLock, ff, fFlags, pfn, status, fInRendezvous>>
history == <<ran, cRan, firstError>>
vars == <<globalVars, countVars, eventVars, callVars, prioVars, pc, arg, back, mine, rc, history>>

Init ==
    /\ u32RendezvousLock = NIL /\ ff = FALSE
    /\ fFlags = NoFlags /\ pfn = NIL
    /\ cEntered = 0 /\ cDone = 0 /\ cReturned = 0 /\ status = 0
    /\ ordered = {} /\ oneByOne = FALSE /\ allAtOnce = FALSE /\ done = FALSE /\ doneCaller = FALSE
    /\ fInRendezvous = [e \in Emts |-> FALSE]
    /\ pc = [e \in Emts |-> "run"]
    /\ want = [e \in Emts |-> NoFlags]
    /\ arg = [e \in Emts |-> NIL]
    /\ back = [e \in Emts |-> "run"]
    /\ mine = [e \in Emts |-> 0]
    /\ rc = [e \in Emts |-> 0]
    /\ fSaved = [e \in Emts |-> FALSE]
    /\ cCalls = 0 /\ cPrio = 0
    /\ ran = [e \in Emts |-> NIL] /\ cRan = 0 /\ firstError = 0

Go(e, label) == pc' = [pc EXCEPT ![e] = label]
IsCaller(e) == arg[e] = e

\* Keep the history.
Returned(e, code) ==
    /\ ran' = [ran EXCEPT ![e] = code]
    /\ cRan' = cRan + 1
    /\ firstError' = IF firstError = 0 /\ code < 0 THEN code ELSE firstError

-----------------------------------------------------------------------------
(* VMMR3EmtRendezvous: the caller *)

\* The first attempt at the spin lock.
Call(e) ==
    /\ pc[e] = "run" /\ cCalls < MaxCalls
    /\ cCalls' = cCalls + 1
    /\ \E f \in Flags[e] : want' = [want EXCEPT ![e] = f]
    /\ \/ /\ u32RendezvousLock = NIL
          /\ u32RendezvousLock' = e
          /\ Go(e, "slate")
       \/ /\ u32RendezvousLock # NIL
          /\ Go(e, "spin")
          /\ UNCHANGED u32RendezvousLock
    /\ UNCHANGED <<ff, fFlags, pfn, status, fInRendezvous, countVars, eventVars, prioVars, arg, back, mine, rc, history>>

SpinTake(e) ==
    /\ pc[e] = "spin" /\ u32RendezvousLock = NIL
    /\ u32RendezvousLock' = e
    /\ Go(e, "slate")
    /\ UNCHANGED <<ff, fFlags, pfn, status, fInRendezvous, countVars, eventVars, callVars, prioVars, arg, back, mine, rc, history>>

\* A call from within the callback, directly or from a request the callback processes:
\* the lock is taken, and the call is refused.
NestedCall(e) ==
    /\ pc[e] = "callback" /\ u32RendezvousLock # NIL /\ fInRendezvous[e]
    /\ rc' = [rc EXCEPT ![e] = VERR_DEADLOCK]
    /\ Returned(e, VERR_DEADLOCK)
    /\ Go(e, "merge")
    /\ UNCHANGED <<globalVars, countVars, eventVars, callVars, prioVars, arg, back, mine>>

\* Seeded fault: cRendezvousEmtsDone is not reset.
ZeroTwoCounters == cEntered' = 0 /\ cReturned' = 0 /\ UNCHANGED cDone
ZeroCounters == cEntered' = 0 /\ cDone' = 0 /\ cReturned' = 0

\* "Clear the slate.  This is a semaphore ping-pong orgy."
ClearSlate(e) ==
    /\ pc[e] = "slate"
    /\ fInRendezvous' = [fInRendezvous EXCEPT ![e] = TRUE]
    /\ ordered' = {} /\ oneByOne' = FALSE /\ allAtOnce' = FALSE /\ done' = FALSE /\ doneCaller' = FALSE
    /\ ZeroCounters
    /\ status' = 0
    /\ pfn' = e /\ fFlags' = want[e]
    /\ want' = [want EXCEPT ![e] = NoFlags]
    /\ Go(e, "raise")
    /\ UNCHANGED <<u32RendezvousLock, ff, cCalls, prioVars, arg, back, mine, rc, history>>

\* The other EMTs are poked: they look at the flag in their loops.
RaiseFF(e) ==
    /\ pc[e] = "raise"
    /\ ff' = TRUE
    /\ arg' = [arg EXCEPT ![e] = e]
    /\ Go(e, "enter")
    /\ UNCHANGED <<u32RendezvousLock, fFlags, pfn, status, fInRendezvous, countVars, eventVars, callVars, prioVars, back, mine, rc, history>>

CallerWoken(e) ==
    /\ pc[e] = "waitcaller" /\ doneCaller
    /\ doneCaller' = FALSE
    /\ Go(e, "collect")
    /\ UNCHANGED <<globalVars, countVars, ordered, oneByOne, allAtOnce, done, callVars, prioVars, arg, back, mine, rc, history>>

Collect(e) ==
    /\ pc[e] = "collect"
    /\ pfn' = NIL
    /\ arg' = [arg EXCEPT ![e] = NIL]
    /\ ran' = [f \in Emts |-> NIL] /\ cRan' = 0 /\ firstError' = 0
    /\ Go(e, "unlock")
    /\ UNCHANGED <<u32RendezvousLock, ff, fFlags, status, fInRendezvous, countVars, eventVars, callVars, prioVars, back, mine, rc>>

Unlock(e) ==
    /\ pc[e] = "unlock"
    /\ u32RendezvousLock' = NIL
    /\ Go(e, "finish")
    /\ UNCHANGED <<ff, fFlags, pfn, status, fInRendezvous, countVars, eventVars, callVars, prioVars, arg, back, mine, rc, history>>

Finish(e) ==
    /\ pc[e] = "finish"
    /\ fInRendezvous' = [fInRendezvous EXCEPT ![e] = FALSE]
    /\ Go(e, "run")
    /\ UNCHANGED <<u32RendezvousLock, ff, fFlags, pfn, status, countVars, eventVars, callVars, prioVars, arg, back, mine, rc, history>>

-----------------------------------------------------------------------------
(* VMMR3EmtRendezvousFF: the others, from their loops or from the spin lock *)

ServeFF(e) ==
    /\ pc[e] \in {"run", "spin"} /\ ff
    /\ back' = [back EXCEPT ![e] = pc[e]]
    /\ fInRendezvous' = [fInRendezvous EXCEPT ![e] = TRUE]
    /\ arg' = [arg EXCEPT ![e] = pfn]
    /\ Go(e, "enter")
    /\ UNCHANGED <<u32RendezvousLock, ff, fFlags, pfn, status, countVars, eventVars, callVars, prioVars, mine, rc, history>>

\* The status goes to the EM loop, or into the result of the call that was spinning.
LeaveFF(e) ==
    /\ pc[e] = "leave"
    /\ fInRendezvous' = [fInRendezvous EXCEPT ![e] = FALSE]
    /\ arg' = [arg EXCEPT ![e] = NIL]
    /\ back' = [back EXCEPT ![e] = "run"]
    /\ rc' = [rc EXCEPT ![e] = 0]
    /\ Go(e, back[e])
    /\ UNCHANGED <<u32RendezvousLock, ff, fFlags, pfn, status, countVars, eventVars, callVars, prioVars, mine, history>>

-----------------------------------------------------------------------------
(* vmmR3EmtRendezvousCommon *)

Ordered == fFlags.type \in {"ASCENDING", "DESCENDING"}
First == IF fFlags.type = "ASCENDING" THEN 0 ELSE cCpus - 1
\* Seeded faults: the last to enter goes first whoever it is; it signals itself too.
StartsNowAnyway(e) == TRUE
KicksItself(e) == IF Ordered THEN {First} ELSE {}
StartsNow(e) == Ordered => e = First
\* Whose event the last one to enter signals.
Kicks(e) == IF StartsNow(e) THEN {} ELSE {First}

\* Where an EMT goes that is not the last to enter.
Waits(e) == IF fFlags.type # "ONCE" THEN "turn" ELSE IF IsCaller(e) THEN "waitcaller" ELSE "waitdone"

Enter(e) ==
    /\ pc[e] = "enter"
    /\ cEntered' = cEntered + 1
    /\ Go(e, IF cEntered' # cCpus THEN Waits(e) ELSE "lastin")
    /\ UNCHANGED <<globalVars, cDone, cReturned, eventVars, callVars, prioVars, arg, back, mine, rc, history>>

\* The last one clears the flag and starts the callbacks.
LastIn(e) ==
    /\ pc[e] = "lastin"
    /\ ff' = FALSE
    /\ allAtOnce' = (allAtOnce \/ fFlags.type = "ALL_AT_ONCE")
    /\ ordered' = ordered \cup Kicks(e)
    /\ Go(e, IF StartsNow(e) THEN "check" ELSE "turn")
    /\ UNCHANGED <<u32RendezvousLock, fFlags, pfn, status, fInRendezvous, countVars, oneByOne, done, doneCaller, callVars, prioVars, arg, back, mine, rc, history>>

\* The event an EMT waits for; all but hEvtMulRendezvousEnterAllAtOnce are auto-reset.
TakeTurn(e) ==
    /\ pc[e] = "turn"
    /\ \/ fFlags.type = "ONE_BY_ONE" /\ oneByOne /\ oneByOne' = FALSE /\ UNCHANGED ordered
       \/ fFlags.type = "ALL_AT_ONCE" /\ allAtOnce /\ UNCHANGED <<oneByOne, ordered>>
       \/ Ordered /\ e \in ordered /\ ordered' = ordered \ {e} /\ UNCHANGED oneByOne
    /\ Go(e, "check")
    /\ UNCHANGED <<globalVars, countVars, allAtOnce, done, doneCaller, callVars, prioVars, arg, back, mine, rc, history>>

Stopped == fFlags.stop /\ status < 0

Check(e) ==
    /\ pc[e] = "check"
    /\ Go(e, IF Stopped THEN "done" ELSE "callback")
    /\ UNCHANGED <<globalVars, countVars, eventVars, callVars, prioVars, arg, back, mine, rc, history>>

Callback(e) ==
    /\ pc[e] = "callback"
    /\ \E code \in Codes[e] :
          /\ rc' = [rc EXCEPT ![e] = code]
          /\ Returned(e, code)
          /\ Go(e, IF code = 0 THEN "done" ELSE "merge")
    /\ UNCHANGED <<globalVars, countVars, eventVars, callVars, prioVars, arg, back, mine>>

\* Seeded fault: a later failure replaces the first.
MergedLast(code) == IF status # 0 /\ code > status THEN status ELSE code
\* The compare-exchange loop: what the status becomes.
Merged(code) == IF status < 0 \/ (status # 0 /\ code > status) THEN status ELSE code

Merge(e) ==
    /\ pc[e] = "merge"
    /\ status' = Merged(rc[e])
    /\ rc' = [rc EXCEPT ![e] = 0]
    /\ Go(e, "done")
    /\ UNCHANGED <<u32RendezvousLock, ff, fFlags, pfn, fInRendezvous, countVars, eventVars, callVars, prioVars, arg, back, mine, history>>

Done(e) ==
    /\ pc[e] = "done"
    /\ cDone' = cDone + 1
    /\ mine' = [mine EXCEPT ![e] = cDone']
    /\ Go(e, "signal")
    /\ UNCHANGED <<globalVars, cEntered, cReturned, eventVars, callVars, prioVars, arg, back, rc, history>>

\* Seeded faults: over one EMT early; ONCE forgotten.
WorkLeftOneShort(n) == n < cCpus - 1 /\ fFlags.type # "ONCE"
WorkLeftInOnce(n) == n # cCpus
WorkLeft(n) == n # cCpus /\ fFlags.type # "ONCE"

\* Signal the next EMT, or all that the work is over.
Signal(e) ==
    LET more == WorkLeft(mine[e])
        next == CASE fFlags.type = "ASCENDING" -> {e + 1}
                  [] fFlags.type = "DESCENDING" -> {cCpus - mine[e] - 1}
                  [] OTHER -> {}
    IN
    /\ pc[e] = "signal"
    /\ oneByOne' = (oneByOne \/ (more /\ fFlags.type = "ONE_BY_ONE"))
    /\ ordered' = IF more THEN ordered \cup next ELSE ordered
    /\ done' = (done \/ ~more)
    /\ mine' = [mine EXCEPT ![e] = 0]
    /\ Go(e, IF IsCaller(e) THEN "waitcaller" ELSE IF more THEN "waitdone" ELSE "return")
    /\ UNCHANGED <<globalVars, countVars, allAtOnce, doneCaller, callVars, prioVars, arg, back, rc, history>>

WaitDone(e) ==
    /\ pc[e] = "waitdone" /\ done
    /\ Go(e, "return")
    /\ UNCHANGED <<globalVars, countVars, eventVars, callVars, prioVars, arg, back, mine, rc, history>>

NonFailure(code) == IF code >= 0 THEN code ELSE 0

\* vmmR3EmtRendezvousNonCallerReturn: failures are for the caller only.
ReadStatus(e) ==
    /\ pc[e] = "return"
    /\ rc' = [rc EXCEPT ![e] = NonFailure(status)]
    /\ Go(e, "count")
    /\ UNCHANGED <<globalVars, countVars, eventVars, callVars, prioVars, arg, back, mine, history>>

LastOut(n) == n = cCpus - 1

CountReturn(e) ==
    /\ pc[e] = "count"
    /\ cReturned' = cReturned + 1
    /\ Go(e, IF LastOut(cReturned') THEN "wake" ELSE "leave")
    /\ UNCHANGED <<globalVars, cEntered, cDone, eventVars, callVars, prioVars, arg, back, mine, rc, history>>

WakeCaller(e) ==
    /\ pc[e] = "wake"
    /\ doneCaller' = TRUE
    /\ Go(e, "leave")
    /\ UNCHANGED <<globalVars, countVars, ordered, oneByOne, allAtOnce, done, callVars, prioVars, arg, back, mine, rc, history>>

-----------------------------------------------------------------------------
(* Priority requests, for which rendezvous are disabled (vmR3ReqProcessOneU): *)
(* from the loop, or from a callback that waits for asynchronous notifications. *)

BeginPriority(e) ==
    /\ pc[e] \in {"run", "callback"} /\ cPrio < MaxPrio
    /\ cPrio' = cPrio + 1
    /\ fSaved' = [fSaved EXCEPT ![e] = fInRendezvous[e]]
    /\ fInRendezvous' = [fInRendezvous EXCEPT ![e] = TRUE]
    /\ Go(e, "prio")
    /\ UNCHANGED <<u32RendezvousLock, ff, fFlags, pfn, status, countVars, eventVars, callVars, arg, back, mine, rc, history>>

\* Seeded fault: rendezvous are enabled again without a look at the saved state.
RestoredToFalse(e) == FALSE
\* The flag after a priority request.
Restored(e) == fInRendezvous[e] /\ fSaved[e]

EndPriority(e) ==
    /\ pc[e] = "prio"
    /\ fInRendezvous' = [fInRendezvous EXCEPT ![e] = Restored(e)]
    /\ fSaved' = [fSaved EXCEPT ![e] = FALSE]
    /\ Go(e, IF arg[e] = NIL THEN "run" ELSE "callback")
    /\ UNCHANGED <<u32RendezvousLock, ff, fFlags, pfn, status, countVars, eventVars, callVars, cPrio, arg, back, mine, rc, history>>

-----------------------------------------------------------------------------
\* What an EMT does once begun, and the forced actions of its loop.
Step(e) ==
    \/ SpinTake(e) \/ ClearSlate(e) \/ RaiseFF(e) \/ CallerWoken(e) \/ Collect(e) \/ Unlock(e) \/ Finish(e)
    \/ ServeFF(e) \/ LeaveFF(e)
    \/ Enter(e) \/ LastIn(e) \/ TakeTurn(e) \/ Check(e) \/ Callback(e) \/ NestedCall(e) \/ Merge(e)
    \/ Done(e) \/ Signal(e) \/ WaitDone(e) \/ ReadStatus(e) \/ CountReturn(e) \/ WakeCaller(e)
    \/ EndPriority(e)

Next == \E e \in Emts : Call(e) \/ BeginPriority(e) \/ Step(e)

Spec == Init /\ [][Next]_vars

\* EMTs are scheduled, look at the flag in every turn of their loops, and
\* callbacks and priority requests end.
FairSpec == Spec /\ \A e \in Emts : WF_vars(Step(e))
-----------------------------------------------------------------------------
(* Properties *)

Labels == {"run", "spin", "slate", "raise", "enter", "lastin", "turn", "check", "callback", "merge",
           "done", "signal", "waitdone", "return", "count", "wake", "leave", "waitcaller", "collect",
           "unlock", "finish", "prio"}

\* The shape of the state; the counters do not run past the number of CPUs.
TypeOK ==
    /\ u32RendezvousLock \in Emts \cup {NIL} /\ pfn \in Emts \cup {NIL}
    /\ ff \in BOOLEAN /\ fFlags \in AllFlags \cup {NoFlags}
    /\ cEntered \in 0 .. cCpus /\ cDone \in 0 .. cCpus /\ cReturned \in 0 .. cCpus - 1
    /\ status \in AllCodes
    /\ ordered \subseteq Emts
    /\ <<oneByOne, allAtOnce, done, doneCaller>> \in BOOLEAN \X BOOLEAN \X BOOLEAN \X BOOLEAN
    /\ fInRendezvous \in [Emts -> BOOLEAN] /\ fSaved \in [Emts -> BOOLEAN]
    /\ pc \in [Emts -> Labels] /\ back \in [Emts -> {"run", "spin"}]
    /\ want \in [Emts -> AllFlags \cup {NoFlags}] /\ arg \in [Emts -> Emts \cup {NIL}]
    /\ mine \in [Emts -> 0 .. cCpus]
    /\ rc \in [Emts -> AllCodes]
    /\ cCalls \in 0 .. MaxCalls /\ cPrio \in 0 .. MaxPrio

Working(e) == pc[e] \in {"check", "callback", "merge", "done", "signal"} \/ (pc[e] = "prio" /\ arg[e] # NIL)

\* The order the type of the rendezvous asks for.
Turn(n) == IF fFlags.type = "ASCENDING" THEN n - 1 ELSE cCpus - n

\* Except all at once, one EMT at a time is between its turn and handing it on; in
\* order, the n-th is the one the type asks for (the assertions on cDone in
\* vmmR3EmtRendezvousCommon).
TakeTurns ==
    /\ fFlags.type # "ALL_AT_ONCE" =>
          \A e, f \in Emts : Working(e) /\ Working(f) => e = f
    /\ Ordered => \A e \in Emts : pc[e] = "signal" => e = Turn(mine[e])

\* When the caller comes to collect, the callback has run exactly once on every EMT, or
\* on one EMT (ONCE), or, with STOP_ON_ERROR, on those that had their turn before the
\* first failure and the one that failed.
EveryEmtOnce ==
    \A e \in Emts : pc[e] = "collect" =>
        LET who == {f \in Emts : ran[f] # NIL}
            failed == {f \in who : ran[f] < 0}
        IN
        /\ cRan = Cardinality(who)
        /\ CASE fFlags.type = "ONCE" -> cRan = 1
             [] fFlags.stop -> (who = Emts /\ failed = {}) \/ Cardinality(failed) = 1
             [] OTHER -> who = Emts

\* The callback runs as the flags ask: on whom, how often and in which order.
RunsAsAsked == TakeTurns /\ EveryEmtOnce

\* The caller collects a failure if a callback failed (the first one, when they take
\* turns), otherwise the most important EM code any callback returned, otherwise success.
StatusIsTheFirstError ==
    \A e \in Emts : pc[e] = "collect" =>
        LET codes == {ran[f] : f \in {g \in Emts : ran[g] # NIL}} \ {0} IN
        IF firstError # 0
        THEN status = firstError \/ (fFlags.type = "ALL_AT_ONCE" /\ status < 0 /\ status \in codes)
        ELSE status = IF codes = {} THEN 0 ELSE Min(codes)

\* Before the caller collects, every other EMT has taken the same EM code with it:
\* none will read the status of the next rendezvous instead.
CodesAgree ==
    \A e \in Emts : pc[e] = "collect" =>
        \A f \in Emts \ {e} : arg[f] = e => pc[f] \in {"wake", "leave"} /\ rc[f] = NonFailure(status)

\* The right status, and the same one for everybody.
StatusReachesAll == StatusIsTheFirstError /\ CodesAgree

\* The slate was clean but for the two manual-reset events: every signal has been taken
\* by the one it was for, and no wait will end for a signal of an earlier rendezvous.
EverySignalTaken ==
    \A e \in Emts : pc[e] \in {"collect", "slate"} => ordered = {} /\ ~oneByOne /\ ~doneCaller

\* A call from within a callback is refused and does not hang or start another
\* rendezvous, whatever requests the callback processes; one from outside is never
\* refused, and finds the flag clear when it has the lock (the assertions in
\* VMMR3EmtRendezvous and VMMR3EmtRendezvousFF).
NestedCallsRefused ==
    \A e \in Emts :
        /\ pc[e] = "callback" => u32RendezvousLock # NIL /\ fInRendezvous[e]
        /\ pc[e] \in {"run", "spin", "slate"} => ~fInRendezvous[e]
        /\ pc[e] = "slate" => ~ff

\* Where the EMTs are, for Gathering.
Held == {"lastin", "turn", "check", "merge", "done", "signal", "waitdone", "return", "count", "waitcaller"}
At(e) ==
    IF pc[e] = "callback" \/ (pc[e] = "prio" /\ arg[e] # NIL) THEN "working"
    ELSE IF pc[e] \in Held THEN "in" ELSE "out"
Phase ==
    IF \A e \in Emts : At(e) = "out" THEN "gather"
    ELSE IF done THEN "disperse"
    ELSE IF cEntered = cCpus THEN "work" ELSE "gather"

G == INSTANCE Gathering WITH at <- [e \in Emts |-> At(e)], phase <- Phase

\* The rendezvous is a gathering: no callback before all EMTs are held, nobody let go
\* before the work is over, the slate not cleared and nobody taken for the next
\* rendezvous before all have left this one.
IsGathering == G!Spec

\* Nobody hangs: an EMT that calls, spins or is gathered is back in its loop some time,
\* also when several call at once.
EveryoneComesBack == \A e \in Emts : pc[e] # "run" ~> pc[e] = "run"
=============================================================================
