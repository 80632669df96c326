----------------------------- MODULE PDMThread ------------------------------
(***************************************************************************)
(* PDM threads (PDMThread.cpp): threads of devices and drivers that the    *)
(* EMT creates, suspends, resumes and destroys, one call after the other   *)
(* ("always do these calls from the EMT").                                 *)
(*                                                                         *)
(* The two sides share enmState and three manual-reset events.  Every      *)
(* access to them is a step, with two exceptions: a loop of reading and    *)
(* compare-exchanging the state until that succeeds is one step, its last  *)
(* exchange; and PDMR3ThreadSuspend's first look at the state and the two  *)
(* resets after it are one, as only the EMT sets BlockEvent, and the state *)
(* is compared again in the exchange.  The thread's function is external:  *)
(* the usual one returns when it sees a state other than RUNNING and       *)
(* sleeps with PDMR3ThreadSleep, which stands for any wait its pfnWakeUp   *)
(* ends.  Creation waits for the thread without the 60 seconds' limit of   *)
(* the other waits, after which it would free a live thread's structure.   *)
(***************************************************************************)
EXTENDS Integers, Sequences, SequencesExt

CONSTANTS
    Threads,     \* PDMTHREAD structures
    Mine,        \* those of the one device or driver that is destroyed
    MaxCalls,    \* bound on the number of control calls, creations included
    MaxFaults,   \* bound on timeouts, failing wake-ups and threads that quit
    NIL

ASSUME MineAssumption == Mine \subseteq Threads
ASSUME NilAssumption == NIL \notin Threads
ASSUME BoundsAssumption == MaxCalls \in Nat /\ MaxFaults \in Nat

States == {"INVALID", "INITIALIZING", "SUSPENDING", "SUSPENDED", "RESUMING", "RUNNING",
           "TERMINATING", "TERMINATED"}

VARIABLES
    enmState,
    block, sleep, user,   \* the threads whose BlockEvent, SleepEvent, user event is signalled
    alive,                \* structures allocated
    list,                 \* pThreads .. pThreadsTail
    pc,                   \* thread: next instruction
    seen,                 \* thread: the state PDMR3ThreadIAmSuspending has read
    epc, cur, was,        \* EMT: next instruction, the thread at hand, the state it exchanged
    walk, todo,           \* EMT: the ...All function that runs, and the threads it has left
    cCalls, cFaults,
    faulty,               \* history: threads that quit, were too slow or have been bailed out
    quiet,                \* history: threads suspended by a call that succeeded
    again,                \* history: threads suspended again while they terminate
    late                  \* history: at the last reset of the user event an old signal was still to come

events == <<block, sleep, user>>
threadVars == <<pc, seen>>
emtVars == <<epc, cur, was, walk, todo>>
history == <<faulty, quiet, again, late>>
vars == <<enmState, events, alive, list, threadVars, emtVars, cCalls, cFaults, history>>

Init ==
    /\ enmState = [t \in Threads |-> "INVALID"]
    /\ block = {} /\ sleep = {} /\ user = {}
    /\ alive = {} /\ list = <<>>
    /\ pc = [t \in Threads |-> "none"]
    /\ seen = [t \in Threads |-> "INVALID"]
    /\ epc = "idle" /\ cur = NIL /\ was = "INVALID"
    /\ walk = "none" /\ todo = <<>>
    /\ cCalls = 0 /\ cFaults = 0
    /\ faulty = {} /\ quiet = {} /\ again = {} /\ late = FALSE

Go(t, label) == pc' = [pc EXCEPT ![t] = label]
SetState(t, s) == enmState' = [enmState EXCEPT ![t] = s]
Fault(t) == cFaults < MaxFaults /\ cFaults' = cFaults + 1 /\ faulty' = faulty \cup {t}
NoFault == UNCHANGED <<cFaults, faulty>>

-----------------------------------------------------------------------------
(* The thread: pdmR3ThreadMain *)

\* The function, external: it goes on while it sees RUNNING and returns otherwise.
RunFunction(t) ==
    /\ pc[t] = "function"
    /\ Go(t, IF enmState[t] = "RUNNING" THEN "sleepReset" ELSE "main")
    /\ UNCHANGED <<enmState, events, alive, list, seen, emtVars, cCalls, cFaults, history>>

\* The function fails: "quit unexpectedly".
Quit(t) ==
    /\ pc[t] = "function" /\ Fault(t)
    /\ Go(t, "exit")
    /\ UNCHANGED <<enmState, events, alive, list, seen, emtVars, cCalls, quiet, again, late>>

\* PDMR3ThreadSleep.
SleepReset(t) ==
    /\ pc[t] = "sleepReset"
    /\ sleep' = sleep \ {t}
    /\ Go(t, "sleepCheck")
    /\ UNCHANGED <<enmState, block, user, alive, list, seen, emtVars, cCalls, cFaults, history>>

\* Seeded fault: the state is not looked at between the reset and the wait.
MaySleepAnyway(t) == TRUE
MaySleep(t) == enmState[t] = "RUNNING"

SleepCheck(t) ==
    /\ pc[t] = "sleepCheck"
    /\ Go(t, IF MaySleep(t) THEN "sleepWait" ELSE "function")
    /\ UNCHANGED <<enmState, events, alive, list, seen, emtVars, cCalls, cFaults, history>>

SleepWait(t) ==
    /\ pc[t] = "sleepWait" /\ t \in sleep
    /\ Go(t, "function")
    /\ UNCHANGED <<enmState, events, alive, list, seen, emtVars, cCalls, cFaults, history>>

SleepTimeout(t) ==
    /\ pc[t] = "sleepWait" /\ t \notin sleep
    /\ Go(t, "function")
    /\ UNCHANGED <<enmState, events, alive, list, seen, emtVars, cCalls, cFaults, history>>

\* The function has returned.
MainCheck(t) ==
    /\ pc[t] = "main"
    /\ Go(t, IF enmState[t] \in {"SUSPENDING", "INITIALIZING"} THEN "iAmSuspending" ELSE "exit")
    /\ UNCHANGED <<enmState, events, alive, list, seen, emtVars, cCalls, cFaults, history>>

\* PDMR3ThreadIAmSuspending, which goes by the state it reads itself.
IAmSuspending(t) ==
    /\ pc[t] = "iAmSuspending"
    /\ seen' = [seen EXCEPT ![t] = enmState[t]]
    /\ Go(t, "suspendXchg")
    /\ UNCHANGED <<enmState, events, alive, list, emtVars, cCalls, cFaults, history>>

SuspendXchg(t) ==
    /\ pc[t] = "suspendXchg"
    /\ IF enmState[t] = seen[t]
       THEN SetState(t, "SUSPENDED") /\ Go(t, "signalSuspended")
       ELSE UNCHANGED enmState /\ Go(t, "bailMeOut")
    /\ seen' = [seen EXCEPT ![t] = "INVALID"]
    /\ UNCHANGED <<events, alive, list, emtVars, cCalls, cFaults, history>>

SignalSuspended(t) ==
    /\ pc[t] = "signalSuspended"
    /\ user' = user \cup {t}
    /\ Go(t, "blocked")
    /\ UNCHANGED <<enmState, block, sleep, alive, list, seen, emtVars, cCalls, cFaults, history>>

Blocked(t) ==
    /\ pc[t] = "blocked" /\ t \in block
    /\ Go(t, "unblocked")
    /\ UNCHANGED <<enmState, events, alive, list, seen, emtVars, cCalls, cFaults, history>>

Unblocked(t) ==
    /\ pc[t] = "unblocked"
    /\ Go(t, IF enmState[t] # "SUSPENDED" THEN "mainResumed" ELSE "bailMeOut")
    /\ UNCHANGED <<enmState, events, alive, list, seen, emtVars, cCalls, cFaults, history>>

MainResumed(t) ==
    /\ pc[t] = "mainResumed"
    /\ Go(t, IF enmState[t] = "RESUMING" THEN "runXchg" ELSE "exit")
    /\ UNCHANGED <<enmState, events, alive, list, seen, emtVars, cCalls, cFaults, history>>

\* PDMR3ThreadIAmRunning.
RunXchg(t) ==
    /\ pc[t] = "runXchg"
    /\ IF enmState[t] = "RESUMING"
       THEN SetState(t, "RUNNING") /\ Go(t, "signalRunning")
       ELSE UNCHANGED enmState /\ Go(t, "bailMeOut")
    /\ UNCHANGED <<events, alive, list, seen, emtVars, cCalls, cFaults, history>>

SignalRunning(t) ==
    /\ pc[t] = "signalRunning"
    /\ user' = user \cup {t}
    /\ Go(t, "function")
    /\ UNCHANGED <<enmState, block, sleep, alive, list, seen, emtVars, cCalls, cFaults, history>>

BailMeOut(t) ==
    /\ pc[t] = "bailMeOut"
    /\ IF enmState[t] \in {"SUSPENDING", "SUSPENDED", "RESUMING", "RUNNING"}
       THEN SetState(t, "TERMINATING") ELSE UNCHANGED enmState
    /\ Go(t, "exit")
    /\ UNCHANGED <<events, alive, list, seen, emtVars, cCalls, cFaults, history>>

\* "Advance the state to terminating and then on to terminated."
Exit(t) ==
    /\ pc[t] = "exit"
    /\ SetState(t, "TERMINATING")
    /\ Go(t, "terminated")
    /\ UNCHANGED <<events, alive, list, seen, emtVars, cCalls, cFaults, history>>

Terminated(t) ==
    /\ pc[t] = "terminated"
    /\ SetState(t, "TERMINATED")
    /\ Go(t, "signalTerminated")
    /\ UNCHANGED <<events, alive, list, seen, emtVars, cCalls, cFaults, history>>

SignalTerminated(t) ==
    /\ pc[t] = "signalTerminated"
    /\ user' = user \cup {t}
    /\ Go(t, "exited")
    /\ UNCHANGED <<enmState, block, sleep, alive, list, seen, emtVars, cCalls, cFaults, history>>

ThreadStep(t) ==
    \/ RunFunction(t) \/ SleepReset(t) \/ SleepCheck(t) \/ SleepWait(t)
    \/ MainCheck(t) \/ IAmSuspending(t) \/ SuspendXchg(t) \/ SignalSuspended(t)
    \/ Blocked(t) \/ Unblocked(t) \/ MainResumed(t) \/ RunXchg(t) \/ SignalRunning(t)
    \/ BailMeOut(t) \/ Exit(t) \/ Terminated(t) \/ SignalTerminated(t)

-----------------------------------------------------------------------------
(* The EMT *)

\* Return to the caller; a walk over the list goes on, but suspending and resuming all
\* threads ends with the first failure.
Return(ok) ==
    /\ epc' = IF walk = "none" \/ (~ok /\ walk \in {"suspendAll", "resumeAll"}) THEN "idle" ELSE "walk"
    /\ walk' = IF epc' = "idle" THEN "none" ELSE walk
    /\ todo' = IF epc' = "idle" THEN <<>> ELSE todo
    /\ cur' = NIL /\ was' = "INVALID"

NextIs(label) == epc' = label /\ UNCHANGED <<cur, was, walk, todo>>

\* pdmR3ThreadNew and the first part of pdmR3ThreadInit.
Create(t) ==
    /\ epc = "idle" /\ cCalls < MaxCalls /\ t \notin alive
    /\ cCalls' = cCalls + 1
    /\ alive' = alive \cup {t}
    /\ SetState(t, "INITIALIZING")
    /\ Go(t, "function")
    /\ epc' = "initWait" /\ cur' = t
    /\ faulty' = faulty \ {t} /\ again' = again \ {t}
    /\ UNCHANGED <<events, list, seen, was, walk, todo, cFaults, quiet, late>>

\* The thread has signalled; is it suspended?
InitWait ==
    /\ epc = "initWait" /\ cur \in user
    /\ \/ /\ enmState[cur] = "SUSPENDED"
          /\ list' = Append(list, cur)
          /\ user' = user \ {cur}
          /\ quiet' = quiet \cup {cur}
          /\ Return(TRUE)
       \/ /\ enmState[cur] # "SUSPENDED"
          /\ NextIs("initBail")
          /\ UNCHANGED <<list, user, quiet>>
    /\ UNCHANGED <<enmState, block, sleep, alive, threadVars, cCalls, cFaults, faulty, again, late>>

\* Seeded fault: the thread is not waited for.
FreesAtOnce(t) == TRUE
MayFree(t) == pc[t] = "exited"

\* Give back the events and the structure.
Free(t) ==
    /\ alive' = alive \ {t}
    /\ block' = block \ {t} /\ sleep' = sleep \ {t} /\ user' = user \ {t}
    /\ SetState(t, "INVALID")
    /\ quiet' = quiet \ {t}

InitBail ==
    /\ epc = "initBail" /\ MayFree(cur)
    /\ Free(cur)
    /\ Return(FALSE)
    /\ UNCHANGED <<list, threadVars, cCalls, cFaults, faulty, again, late>>

\* A call of PDMR3ThreadSuspend, PDMR3ThreadResume or PDMR3ThreadDestroy.  A thread is
\* resumed only by who has it suspended.
Call(t) ==
    /\ epc = "idle" /\ cCalls < MaxCalls /\ Contains(list, t)
    /\ cCalls' = cCalls + 1
    /\ cur' = t
    /\ \E label \in {"suspend", "resume", "destroy"} :
          /\ label = "resume" => t \in quiet
          /\ epc' = label
    /\ UNCHANGED <<enmState, events, alive, list, threadVars, was, walk, todo, cFaults, history>>

\* pdmR3ThreadSuspendAll, ResumeAll, DestroyAll, and DestroyDevice or DestroyDriver.
CallAll ==
    /\ epc = "idle" /\ cCalls < MaxCalls /\ list # <<>>
    /\ cCalls' = cCalls + 1
    /\ epc' = "walk"
    /\ walk' \in {"suspendAll", "resumeAll", "destroyAll", "destroyMine"}
    /\ todo' = list
    /\ UNCHANGED <<enmState, events, alive, list, threadVars, cur, was, cFaults, history>>

\* One turn of the loop over the list: threads in the wrong state, or of others, are passed over.
Walk ==
    /\ epc = "walk"
    /\ IF todo = <<>>
       THEN epc' = "idle" /\ walk' = "none" /\ UNCHANGED <<cur, todo>>
       ELSE LET t == Head(todo)
                takes == CASE walk = "suspendAll" -> enmState[t] = "RUNNING"
                           [] walk = "resumeAll"  -> enmState[t] = "SUSPENDED"
                           [] OTHER               -> walk = "destroyMine" => t \in Mine
            IN /\ todo' = Tail(todo)
               /\ cur' = IF takes THEN t ELSE NIL
               /\ epc' = IF ~takes THEN "walk" ELSE
                         CASE walk = "suspendAll" -> "suspend"
                           [] walk = "resumeAll"  -> "resume"
                           [] OTHER               -> "destroy"
               /\ UNCHANGED walk
    /\ UNCHANGED <<enmState, events, alive, list, threadVars, was, cCalls, cFaults, history>>

\* Is a signal of an earlier suspend or resume still to come?  (history)
SignalToCome(t) == pc[t] \in {"signalSuspended", "signalRunning"}

\* Seeded fault: the event that resumed the thread stays signalled.
BlockEventKept == block
BlockEventReset == block \ {cur}

\* PDMR3ThreadSuspend: "This is a noop if the thread is already suspended."
\* A sleeper that the event has woken may get away from the reset.
Suspend ==
    /\ epc = "suspend"
    /\ IF enmState[cur] = "SUSPENDED"
       THEN /\ quiet' = quiet \cup {cur}
            /\ Return(TRUE)
            /\ UNCHANGED <<block, user, pc, again, late>>
       ELSE /\ block' = BlockEventReset
            /\ user' = user \ {cur}
            /\ late' = SignalToCome(cur)
            /\ again' = IF enmState[cur] = "TERMINATING" THEN again \cup {cur} ELSE again
            /\ NextIs("suspending")
            /\ \/ UNCHANGED pc
               \/ pc[cur] = "blocked" /\ cur \in block /\ Go(cur, "unblocked")
            /\ UNCHANGED quiet
    /\ UNCHANGED <<enmState, sleep, alive, list, seen, cCalls, cFaults, faulty>>

Suspending ==
    /\ epc = "suspending"
    /\ IF enmState[cur] = "RUNNING"
       THEN SetState(cur, "SUSPENDING") /\ NextIs("suspendWake")
       ELSE NextIs("bail") /\ UNCHANGED enmState
    /\ UNCHANGED <<events, alive, list, threadVars, cCalls, cFaults, history>>

\* pdmR3ThreadWakeUp: the sleep event, then pfnWakeUp, which may fail.
WakeUp(ok, failed) ==
    /\ sleep' = sleep \cup {cur}
    /\ \/ NoFault /\ NextIs(ok)
       \/ Fault(cur) /\ NextIs(failed)

SuspendWake ==
    /\ epc = "suspendWake"
    /\ WakeUp("suspendLook", "bail")
    /\ UNCHANGED <<enmState, block, user, alive, list, threadVars, cCalls, quiet, again, late>>

\* "Wait for the thread to reach the suspended state."
SuspendLook ==
    /\ epc = "suspendLook"
    /\ NextIs(IF enmState[cur] = "SUSPENDED" THEN "suspendCheck" ELSE "suspendWait")
    /\ UNCHANGED <<enmState, events, alive, list, threadVars, cCalls, cFaults, history>>

\* RTThreadUserWait with its 60 seconds.
UserWait(check) == cur \in user /\ NextIs(check) /\ NoFault
UserTimeout == cur \notin user /\ NextIs("bail") /\ Fault(cur)

SuspendWait ==
    /\ epc = "suspendWait"
    /\ UserWait("suspendCheck")
    /\ UNCHANGED <<enmState, events, alive, list, threadVars, cCalls, quiet, again, late>>

HasSuspended == enmState[cur] = "SUSPENDED"

SuspendCheck ==
    /\ epc = "suspendCheck"
    /\ IF HasSuspended
       THEN Return(TRUE) /\ quiet' = quiet \cup {cur}
       ELSE NextIs("bail") /\ UNCHANGED quiet
    /\ UNCHANGED <<enmState, events, alive, list, threadVars, cCalls, cFaults, faulty, again, late>>

\* Seeded fault: what is left of the last signal is not reset.
UserEventKept == user
UserEventReset == user \ {cur}

\* PDMR3ThreadResume.
Resume ==
    /\ epc = "resume"
    /\ user' = UserEventReset
    /\ late' = SignalToCome(cur)
    /\ NextIs("resuming")
    /\ UNCHANGED <<enmState, block, sleep, alive, list, threadVars, cCalls, cFaults, faulty, quiet, again>>

Resuming ==
    /\ epc = "resuming"
    /\ IF enmState[cur] = "SUSPENDED"
       THEN SetState(cur, "RESUMING") /\ quiet' = quiet \ {cur} /\ NextIs("resumeSignal")
       ELSE NextIs("bail") /\ UNCHANGED <<enmState, quiet>>
    /\ UNCHANGED <<events, alive, list, threadVars, cCalls, cFaults, faulty, again, late>>

ResumeSignal ==
    /\ epc = "resumeSignal"
    /\ block' = block \cup {cur}
    /\ NextIs("resumeWait")
    /\ UNCHANGED <<enmState, sleep, user, alive, list, threadVars, cCalls, cFaults, history>>

ResumeWait ==
    /\ epc = "resumeWait"
    /\ UserWait("resumeCheck")
    /\ UNCHANGED <<enmState, events, alive, list, threadVars, cCalls, quiet, again, late>>

WaitTimeout ==
    /\ epc \in {"suspendWait", "resumeWait"}
    /\ UserTimeout
    /\ UNCHANGED <<enmState, events, alive, list, threadVars, cCalls, quiet, again, late>>

ResumeCheck ==
    /\ epc = "resumeCheck"
    /\ IF enmState[cur] = "RUNNING" THEN Return(TRUE) ELSE NextIs("bail")
    /\ UNCHANGED <<enmState, events, alive, list, threadVars, cCalls, cFaults, history>>

\* pdmR3ThreadBailOut: "initialize termination".
BailOut ==
    /\ epc = "bail"
    /\ IF enmState[cur] \in {"SUSPENDING", "SUSPENDED", "RESUMING", "RUNNING"}
       THEN /\ SetState(cur, "TERMINATING")
            /\ was' = enmState[cur]
            /\ epc' = "bailSignal"
            /\ UNCHANGED <<cur, walk, todo>>
       ELSE Return(FALSE) /\ UNCHANGED enmState
    /\ faulty' = faulty \cup {cur}
    /\ UNCHANGED <<events, alive, list, threadVars, cCalls, cFaults, quiet, again, late>>

\* Seeded fault: a suspended thread is not woken.
BailUnblocksNot == {}
BailUnblocks == {"SUSPENDING", "SUSPENDED"}

BailSignal ==
    /\ epc = "bailSignal"
    /\ block' = IF was \in BailUnblocks THEN block \cup {cur} ELSE block
    /\ sleep' = IF was = "RUNNING" THEN sleep \cup {cur} ELSE sleep
    /\ Return(FALSE)
    /\ UNCHANGED <<enmState, user, alive, list, threadVars, cCalls, cFaults, history>>

\* PDMR3ThreadDestroy.
Destroy ==
    /\ epc = "destroy"
    /\ was' = enmState[cur]
    /\ IF enmState[cur] \in {"TERMINATING", "TERMINATED"} THEN UNCHANGED enmState
       ELSE SetState(cur, "TERMINATING")
    /\ epc' = IF enmState[cur] = "RUNNING" THEN "destroyWake" ELSE "destroySignal"
    /\ UNCHANGED <<events, alive, list, threadVars, cur, walk, todo, cCalls, cFaults, history>>

\* A failing wake-up only shortens the wait.
DestroyWake ==
    /\ epc = "destroyWake"
    /\ WakeUp("destroySignal", "destroySignal")
    /\ UNCHANGED <<enmState, block, user, alive, list, threadVars, cCalls, quiet, again, late>>

DestroySignal ==
    /\ epc = "destroySignal"
    /\ block' = block \cup {cur}
    /\ NextIs("destroyWait")
    /\ UNCHANGED <<enmState, sleep, user, alive, list, threadVars, cCalls, cFaults, history>>

\* The thread has ended: unlink and free it.
DestroyWait ==
    /\ epc = "destroyWait" /\ MayFree(cur)
    /\ \E i \in DOMAIN list : list[i] = cur /\ list' = RemoveAt(list, i)
    /\ Free(cur)
    /\ Return(TRUE)
    /\ UNCHANGED <<threadVars, cCalls, cFaults, faulty, again, late>>

\* The thread stays on the list.
DestroyTimeout ==
    /\ epc = "destroyWait" /\ pc[cur] # "exited" /\ Fault(cur)
    /\ Return(FALSE)
    /\ UNCHANGED <<enmState, events, alive, list, threadVars, cCalls, quiet, again, late>>

EmtStep ==
    \/ InitWait \/ InitBail \/ Walk
    \/ Suspend \/ Suspending \/ SuspendWake \/ SuspendLook \/ SuspendWait \/ SuspendCheck
    \/ Resume \/ Resuming \/ ResumeSignal \/ ResumeWait \/ ResumeCheck
    \/ BailOut \/ BailSignal
    \/ Destroy \/ DestroyWake \/ DestroySignal \/ DestroyWait

Next ==
    \/ EmtStep \/ CallAll \/ WaitTimeout \/ DestroyTimeout
    \/ \E t \in Threads : ThreadStep(t) \/ Quit(t) \/ SleepTimeout(t) \/ Create(t) \/ Call(t)

Spec == Init /\ [][Next]_vars

\* The EMT goes on with a call it has begun and the scheduler runs every thread; no
\* wait ends by its timeout, and no call need ever be made.
FairSpec == Spec /\ WF_vars(EmtStep) /\ \A t \in Threads : WF_vars(ThreadStep(t))
-----------------------------------------------------------------------------
(* Properties *)

Labels == {"none", "function", "sleepReset", "sleepCheck", "sleepWait", "main", "iAmSuspending",
           "suspendXchg", "signalSuspended", "blocked", "unblocked", "mainResumed", "runXchg",
           "signalRunning", "bailMeOut", "exit", "terminated", "signalTerminated", "exited"}
EmtLabels == {"idle", "walk", "initWait", "initBail", "suspend", "suspending", "suspendWake",
              "suspendLook", "suspendWait", "suspendCheck", "resume", "resuming", "resumeSignal",
              "resumeWait", "resumeCheck", "bail", "bailSignal", "destroy", "destroyWake",
              "destroySignal", "destroyWait"}

\* Types; only a structure that is allocated is on the list, in a state or has events.
TypeOK ==
    /\ enmState \in [Threads -> States]
    /\ alive = {t \in Threads : enmState[t] # "INVALID"}
    /\ block \cup sleep \cup user \subseteq alive
    /\ ToSet(list) \subseteq alive /\ IsInjective(list)
    /\ pc \in [Threads -> Labels]
    /\ seen \in [Threads -> States]
    /\ epc \in EmtLabels
    /\ cur \in alive \cup {NIL}
    /\ was \in States
    /\ walk \in {"none", "suspendAll", "resumeAll", "destroyAll", "destroyMine"}
    /\ ToSet(todo) \subseteq ToSet(list)
    /\ cCalls \in 0 .. MaxCalls /\ cFaults \in 0 .. MaxFaults
    /\ faulty \subseteq Threads /\ quiet \subseteq alive /\ again \subseteq Threads /\ late \in BOOLEAN

\* A thread that PDMR3ThreadSuspend has reported suspended is out of its function and
\* stays out until PDMR3ThreadResume takes it back, also if it is destroyed meanwhile.  And
\* it leaves its loop only when it is told to terminate, or after a fault: no event left
\* from an earlier resume lets it go (VERR_PDM_THREAD_IPE_2 in PDMR3ThreadIAmSuspending),
\* and the assertions of pdmR3ThreadMain hold.
SuspendedStaysOut ==
    /\ \A t \in Threads : pc[t] \in {"bailMeOut", "exit"} => enmState[t] = "TERMINATING" \/ t \in faulty
    /\ \A t \in quiet : pc[t] \notin {"function", "sleepReset", "sleepCheck", "sleepWait", "main",
                                      "runXchg", "signalRunning"}

\* PDMR3ThreadSuspend and PDMR3ThreadResume fail, and then terminate the thread, only if
\* the thread quit, was too slow or is being terminated, or if the signal of an earlier
\* suspend or resume was still to come when the user event was reset for this one.
FailsOnlyIfLate ==
    epc = "bail" => late \/ cur \in faulty

\* No control call depends on the timeout of a wait: neither a sleeping nor a blocked
\* thread misses its wake-up, nor the EMT the answer.
CallsEnd ==
    epc # "idle" ~> epc = "idle"

\* A thread that is told to terminate, by a failed call too, ends without being
\* destroyed.  Two exceptions: PDMR3ThreadSuspend called again resets its BlockEvent; and
\* PDMR3ThreadIAmSuspending may exchange TERMINATING for SUSPENDED, so that it is resumed.
TerminatingEnds ==
    \A t \in Threads : enmState[t] = "TERMINATING" ~>
        pc[t] = "exited" \/ t \in again \/ enmState[t] = "RESUMING"
=============================================================================
