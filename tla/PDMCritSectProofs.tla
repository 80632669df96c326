------------------------- MODULE PDMCritSectProofs -------------------------
(* Proofs about PDMCritSect: for any set of threads and any nesting depth. *)
EXTENDS PDMCritSect, FiniteSetTheorems, TLAPS

-----------------------------------------------------------------------------
(* The inductive invariant behind MutualExclusion.  The section is a token.  It
   is with one thread (Inside), in the semaphore (EventSem), or cLockers is -1.
   Why that is preserved takes the whole bookkeeping: a thread must not find
   cLockers at -1 while somebody is inside, so cLockers has to cover cNestings,
   and cNestings has to be what the owner holds and still owes. *)

Inside(t) ==
    \/ hold[t] > 0
    \/ Owed(t) > 0
    \/ pc[t] \in {"first1", "first2", "nest1", "nest2", "leave", "lnest", "dec0", "dec",
                  "signal", "rz0", "rzcas", "rznest", "pend"}

\* The leave that runs now, unless it is the replay of the queued one.
Leaving(t) == IF caller[t] = "ff" THEN 0 ELSE 1

TokenInv ==
    /\ cLockers >= -1
    /\ \A t, u \in Threads : Inside(t) /\ Inside(u) => t = u
    /\ EventSem => \A t \in Threads : ~Inside(t)
    /\ cLockers = -1 => ~EventSem /\ \A t \in Threads : ~Inside(t)
    /\ \A t \in Threads : NativeThreadOwner = t => Inside(t)
    /\ (\A t \in Threads : ~Inside(t)) => NativeThreadOwner = NIL /\ cNestings = 0
    /\ fPendingUnlock => NativeThreadOwner # NIL
    /\ ~u32Magic => cLockers = -1 /\ \A t \in Threads : pc[t] = "idle"

\* Threads outside, and what a thread's own bookkeeping is between its steps.
ThreadInv(t) ==
    /\ cQueuedCritSectLeaves[t] \in {0, 1}
    /\ pc[t] \in {"spin", "inc", "wait"} => hold[t] = 0 /\ cQueuedCritSectLeaves[t] = 0
    /\ pc[t] = "exitsig" => hold[t] = 0 /\ Owed(t) = 0
    /\ pc[t] = "ff" => cQueuedCritSectLeaves[t] = 1 /\ caller[t] = "user"
    /\ caller[t] = "ff" => /\ cQueuedCritSectLeaves[t] = 1
                           /\ pc[t] \in {"leave", "lnest", "dec0", "dec", "signal", "exitsig"}
    /\ caller[t] \in {"yield", "all"} =>
           pc[t] \in {"leave", "lnest", "dec0", "dec", "signal", "exitsig"}
    /\ caller[t] = "callr3" =>
           /\ back[t] # "none"
           /\ pc[t] \in {"cas", "spin", "inc", "wait", "first1", "first2", "nest1", "nest2"}
    /\ caller[t] # "user" \/ pc[t] \in {"ff", "ffdone", "all"} => ctx[t] = "R3"
    /\ ctx[t] = "R3" /\ cQueuedCritSectLeaves[t] = 1 =>
           caller[t] = "ff" \/ pc[t] \in {"ff", "ffdone"}
    /\ pc[t] \in {"rz0", "rzcas", "rznest", "pend"} => ctx[t] = "RZ"

\* The thread inside.
InsideInv(t) ==
    /\ pc[t] \in {"first1", "first2", "dec", "signal", "rz0", "rzcas", "rznest"} =>
           hold[t] = 0 /\ ((pc[t] = "dec" /\ caller[t] = "ff") \/ Owed(t) = 0)
    /\ pc[t] = "dec0" => hold[t] + Owed(t) + Leaving(t) = 1
    /\ pc[t] = "pend" => hold[t] + Owed(t) = 0
    /\ pc[t] \in {"first1", "first2", "dec0", "dec", "signal", "rzcas"} => NativeThreadOwner = NIL
    /\ pc[t] \in {"first1", "dec", "signal", "rz0", "rzcas", "rznest"} => cNestings = 0
    /\ pc[t] \in {"first2", "dec0", "pend"} => cNestings = 1
    /\ pc[t] \in {"rz0", "rznest", "pend", "leave", "lnest"} => NativeThreadOwner = t
    /\ pc[t] \in {"idle", "cas", "trycas", "nest1", "nest2", "ff", "ffdone", "all"} =>
           /\ NativeThreadOwner = t
           /\ cNestings = hold[t] + Owed(t)
           /\ cNestings >= 1
           /\ cLockers >= cNestings - 1
    /\ pc[t] = "nest2" => cLockers >= cNestings
    /\ pc[t] = "leave" => /\ cNestings = hold[t] + Owed(t) + Leaving(t)
                          /\ cNestings >= 1
                          /\ cLockers >= cNestings - 1
    /\ pc[t] = "lnest" => /\ cNestings + 1 = hold[t] + Owed(t) + Leaving(t)
                          /\ cNestings >= 1
                          /\ cLockers >= cNestings

IInv ==
    /\ TypeOK
    /\ TokenInv
    /\ \A t \in Threads : ThreadInv(t) /\ (Inside(t) => InsideInv(t))
-----------------------------------------------------------------------------

\* Every step of EnterStep preserves the inductive invariant.
LEMMA EnterStepPreserves ==
    ASSUME IInv, NEW t \in Threads, EnterStep(t) PROVE IInv'
<1> USE NilAssumption DEF Goto, lockVars, exitVars, ctxVars, callVars
<1>1. CASE CasWins(t)
  <2> USE <1>1 DEF CasWins, IsFree
  <2>1. TypeOK'
    BY DEF IInv, TypeOK, Pcs, Callers, Contexts, GuestContexts, TokenInv, ThreadInv, InsideInv, Inside, Owed, Leaving
  <2>2. TokenInv'
    BY DEF IInv, TypeOK, TokenInv, ThreadInv, InsideInv, Inside, Owed, Leaving
  <2>3. ASSUME NEW u \in Threads PROVE ThreadInv(u)'
    BY <2>3 DEF IInv, TypeOK, TokenInv, ThreadInv, InsideInv, Inside, Owed, Leaving, GuestContexts, Callers
  <2>4. ASSUME NEW u \in Threads, Inside(u)' PROVE InsideInv(u)'
    BY <2>4 DEF IInv, TypeOK, TokenInv, ThreadInv, InsideInv, Inside, Owed, Leaving
  <2> QED BY <2>1, <2>2, <2>3, <2>4 DEF IInv
<1>2. CASE CasFails(t)
  <2> USE <1>2 DEF CasFails, IsFree
  <2>1. TypeOK'
    BY DEF IInv, TypeOK, Pcs, Callers, Contexts, GuestContexts, TokenInv, ThreadInv, InsideInv, Inside, Owed, Leaving
  <2>2. TokenInv'
    BY DEF IInv, TypeOK, TokenInv, ThreadInv, InsideInv, Inside, Owed, Leaving
  <2>3. ASSUME NEW u \in Threads PROVE ThreadInv(u)'
    BY <2>3 DEF IInv, TypeOK, TokenInv, ThreadInv, InsideInv, Inside, Owed, Leaving, GuestContexts, Callers
  <2>4. ASSUME NEW u \in Threads, Inside(u)' PROVE InsideInv(u)'
    BY <2>4 DEF IInv, TypeOK, TokenInv, ThreadInv, InsideInv, Inside, Owed, Leaving
  <2> QED BY <2>1, <2>2, <2>3, <2>4 DEF IInv
<1>3. CASE NestLockers(t)
  <2> USE <1>3 DEF NestLockers
  <2>1. TypeOK'
    BY DEF IInv, TypeOK, Pcs, Callers, Contexts, GuestContexts, TokenInv, ThreadInv, InsideInv, Inside, Owed, Leaving
  <2>2. TokenInv'
    BY DEF IInv, TypeOK, TokenInv, ThreadInv, InsideInv, Inside, Owed, Leaving
  <2>3. ASSUME NEW u \in Threads PROVE ThreadInv(u)'
    BY <2>3 DEF IInv, TypeOK, TokenInv, ThreadInv, InsideInv, Inside, Owed, Leaving, GuestContexts, Callers
  <2>4. ASSUME NEW u \in Threads, Inside(u)' PROVE InsideInv(u)'
    BY <2>4 DEF IInv, TypeOK, TokenInv, ThreadInv, InsideInv, Inside, Owed, Leaving
  <2> QED BY <2>1, <2>2, <2>3, <2>4 DEF IInv
<1>4. CASE NestNestings(t)
  <2> USE <1>4 DEF NestNestings, EnterReturns
  <2>1. TypeOK'
    BY DEF IInv, TypeOK, Pcs, Callers, Contexts, GuestContexts, TokenInv, ThreadInv, InsideInv, Inside, Owed, Leaving
  <2>2. TokenInv'
    BY DEF IInv, TypeOK, TokenInv, ThreadInv, InsideInv, Inside, Owed, Leaving
  <2>3. ASSUME NEW u \in Threads PROVE ThreadInv(u)'
    BY <2>3 DEF IInv, TypeOK, TokenInv, ThreadInv, InsideInv, Inside, Owed, Leaving, GuestContexts, Callers
  <2>4. ASSUME NEW u \in Threads, Inside(u)' PROVE InsideInv(u)'
    BY <2>4 DEF IInv, TypeOK, TokenInv, ThreadInv, InsideInv, Inside, Owed, Leaving
  <2> QED BY <2>1, <2>2, <2>3, <2>4 DEF IInv
<1>5. CASE SpinEndsBlocking(t)
  <2> USE <1>5 DEF SpinEndsBlocking, IsFree
  <2>1. TypeOK'
    BY DEF IInv, TypeOK, Pcs, Callers, Contexts, GuestContexts, TokenInv, ThreadInv, InsideInv, Inside, Owed, Leaving
  <2>2. TokenInv'
    BY DEF IInv, TypeOK, TokenInv, ThreadInv, InsideInv, Inside, Owed, Leaving
  <2>3. ASSUME NEW u \in Threads PROVE ThreadInv(u)'
    BY <2>3 DEF IInv, TypeOK, TokenInv, ThreadInv, InsideInv, Inside, Owed, Leaving, GuestContexts, Callers
  <2>4. ASSUME NEW u \in Threads, Inside(u)' PROVE InsideInv(u)'
    BY <2>4 DEF IInv, TypeOK, TokenInv, ThreadInv, InsideInv, Inside, Owed, Leaving
  <2> QED BY <2>1, <2>2, <2>3, <2>4 DEF IInv
<1>6. CASE SpinEndsBusy(t)
  <2> USE <1>6 DEF SpinEndsBusy, IsFree
  <2>1. TypeOK'
    BY DEF IInv, TypeOK, Pcs, Callers, Contexts, GuestContexts, TokenInv, ThreadInv, InsideInv, Inside, Owed, Leaving
  <2>2. TokenInv'
    BY DEF IInv, TypeOK, TokenInv, ThreadInv, InsideInv, Inside, Owed, Leaving
  <2>3. ASSUME NEW u \in Threads PROVE ThreadInv(u)'
    BY <2>3 DEF IInv, TypeOK, TokenInv, ThreadInv, InsideInv, Inside, Owed, Leaving, GuestContexts, Callers
  <2>4. ASSUME NEW u \in Threads, Inside(u)' PROVE InsideInv(u)'
    BY <2>4 DEF IInv, TypeOK, TokenInv, ThreadInv, InsideInv, Inside, Owed, Leaving
  <2> QED BY <2>1, <2>2, <2>3, <2>4 DEF IInv
<1>7. CASE SpinEndsCallRing3(t)
  <2> USE <1>7 DEF SpinEndsCallRing3, IsFree
  <2>1. TypeOK'
    BY DEF IInv, TypeOK, Pcs, Callers, Contexts, GuestContexts, TokenInv, ThreadInv, InsideInv, Inside, Owed, Leaving
  <2>2. TokenInv'
    BY DEF IInv, TypeOK, TokenInv, ThreadInv, InsideInv, Inside, Owed, Leaving
  <2>3. ASSUME NEW u \in Threads PROVE ThreadInv(u)'
    BY <2>3 DEF IInv, TypeOK, TokenInv, ThreadInv, InsideInv, Inside, Owed, Leaving, GuestContexts, Callers
  <2>4. ASSUME NEW u \in Threads, Inside(u)' PROVE InsideInv(u)'
    BY <2>4 DEF IInv, TypeOK, TokenInv, ThreadInv, InsideInv, Inside, Owed, Leaving
  <2> QED BY <2>1, <2>2, <2>3, <2>4 DEF IInv
<1>8. CASE ContendedInc(t)
  <2> USE <1>8 DEF ContendedInc
  <2>1. TypeOK'
    BY DEF IInv, TypeOK, Pcs, Callers, Contexts, GuestContexts, TokenInv, ThreadInv, InsideInv, Inside, Owed, Leaving
  <2>2. TokenInv'
    BY DEF IInv, TypeOK, TokenInv, ThreadInv, InsideInv, Inside, Owed, Leaving
  <2>3. ASSUME NEW u \in Threads PROVE ThreadInv(u)'
    BY <2>3 DEF IInv, TypeOK, TokenInv, ThreadInv, InsideInv, Inside, Owed, Leaving, GuestContexts, Callers
  <2>4. ASSUME NEW u \in Threads, Inside(u)' PROVE InsideInv(u)'
    BY <2>4 DEF IInv, TypeOK, TokenInv, ThreadInv, InsideInv, Inside, Owed, Leaving
  <2> QED BY <2>1, <2>2, <2>3, <2>4 DEF IInv
<1>9. CASE ContendedWake(t)
  <2> USE <1>9 DEF ContendedWake, WokenGoesTo
  <2>1. TypeOK'
    BY DEF IInv, TypeOK, Pcs, Callers, Contexts, GuestContexts, TokenInv, ThreadInv, InsideInv, Inside, Owed, Leaving
  <2>2. TokenInv'
    BY DEF IInv, TypeOK, TokenInv, ThreadInv, InsideInv, Inside, Owed, Leaving
  <2>3. ASSUME NEW u \in Threads PROVE ThreadInv(u)'
    BY <2>3 DEF IInv, TypeOK, TokenInv, ThreadInv, InsideInv, Inside, Owed, Leaving, GuestContexts, Callers
  <2>4. ASSUME NEW u \in Threads, Inside(u)' PROVE InsideInv(u)'
    BY <2>4 DEF IInv, TypeOK, TokenInv, ThreadInv, InsideInv, Inside, Owed, Leaving
  <2> QED BY <2>1, <2>2, <2>3, <2>4 DEF IInv
<1>10. CASE EnterFirstNestings(t)
  <2> USE <1>10 DEF EnterFirstNestings
  <2>1. TypeOK'
    BY DEF IInv, TypeOK, Pcs, Callers, Contexts, GuestContexts, TokenInv, ThreadInv, InsideInv, Inside, Owed, Leaving
  <2>2. TokenInv'
    BY DEF IInv, TypeOK, TokenInv, ThreadInv, InsideInv, Inside, Owed, Leaving
  <2>3. ASSUME NEW u \in Threads PROVE ThreadInv(u)'
    BY <2>3 DEF IInv, TypeOK, TokenInv, ThreadInv, InsideInv, Inside, Owed, Leaving, GuestContexts, Callers
  <2>4. ASSUME NEW u \in Threads, Inside(u)' PROVE InsideInv(u)'
    BY <2>4 DEF IInv, TypeOK, TokenInv, ThreadInv, InsideInv, Inside, Owed, Leaving
  <2> QED BY <2>1, <2>2, <2>3, <2>4 DEF IInv
<1>11. CASE EnterFirstOwner(t)
  <2> USE <1>11 DEF EnterFirstOwner, EnterReturns
  <2>1. TypeOK'
    BY DEF IInv, TypeOK, Pcs, Callers, Contexts, GuestContexts, TokenInv, ThreadInv, InsideInv, Inside, Owed, Leaving
  <2>2. TokenInv'
    BY DEF IInv, TypeOK, TokenInv, ThreadInv, InsideInv, Inside, Owed, Leaving
  <2>3. ASSUME NEW u \in Threads PROVE ThreadInv(u)'
    BY <2>3 DEF IInv, TypeOK, TokenInv, ThreadInv, InsideInv, Inside, Owed, Leaving, GuestContexts, Callers
  <2>4. ASSUME NEW u \in Threads, Inside(u)' PROVE InsideInv(u)'
    BY <2>4 DEF IInv, TypeOK, TokenInv, ThreadInv, InsideInv, Inside, Owed, Leaving
  <2> QED BY <2>1, <2>2, <2>3, <2>4 DEF IInv
<1> QED BY <1>1, <1>2, <1>3, <1>4, <1>5, <1>6, <1>7, <1>8, <1>9, <1>10, <1>11 DEF EnterStep

\* Every step of LeaveStep preserves the inductive invariant.
LEMMA LeaveStepPreserves ==
    ASSUME IInv, NEW t \in Threads, LeaveStep(t) PROVE IInv'
<1> USE NilAssumption DEF Goto, lockVars, exitVars, ctxVars, callVars
<1>1. CASE LeaveNestings(t)
  <2> USE <1>1 DEF LeaveNestings
  <2>1. TypeOK'
    BY DEF IInv, TypeOK, Pcs, Callers, Contexts, GuestContexts, TokenInv, ThreadInv, InsideInv, Inside, Owed, Leaving
  <2>2. TokenInv'
    BY DEF IInv, TypeOK, TokenInv, ThreadInv, InsideInv, Inside, Owed, Leaving
  <2>3. ASSUME NEW u \in Threads PROVE ThreadInv(u)'
    BY <2>3 DEF IInv, TypeOK, TokenInv, ThreadInv, InsideInv, Inside, Owed, Leaving, GuestContexts, Callers
  <2>4. ASSUME NEW u \in Threads, Inside(u)' PROVE InsideInv(u)'
    BY <2>4 DEF IInv, TypeOK, TokenInv, ThreadInv, InsideInv, Inside, Owed, Leaving
  <2> QED BY <2>1, <2>2, <2>3, <2>4 DEF IInv
<1>2. CASE LeaveNestedLockers(t)
  <2> USE <1>2 DEF LeaveNestedLockers, LeaveReturns
  <2>1. TypeOK'
    BY DEF IInv, TypeOK, Pcs, Callers, Contexts, GuestContexts, TokenInv, ThreadInv, InsideInv, Inside, Owed, Leaving
  <2>2. TokenInv'
    BY DEF IInv, TypeOK, TokenInv, ThreadInv, InsideInv, Inside, Owed, Leaving
  <2>3. ASSUME NEW u \in Threads PROVE ThreadInv(u)'
    BY <2>3 DEF IInv, TypeOK, TokenInv, ThreadInv, InsideInv, Inside, Owed, Leaving, GuestContexts, Callers
  <2>4. ASSUME NEW u \in Threads, Inside(u)' PROVE InsideInv(u)'
    BY <2>4 DEF IInv, TypeOK, TokenInv, ThreadInv, InsideInv, Inside, Owed, Leaving
  <2> QED BY <2>1, <2>2, <2>3, <2>4 DEF IInv
<1>3. CASE LeaveOwner(t)
  <2> USE <1>3 DEF LeaveOwner
  <2>1. TypeOK'
    <3>1. hEventToSignal' \in [Threads -> BOOLEAN]
      BY Zenon DEF IInv, TypeOK
    <3>2. EventToSignal' \in BOOLEAN
      BY Zenon DEF IInv, TypeOK
    <3> QED BY <3>1, <3>2 DEF IInv, TypeOK, Pcs
  <2>2. TokenInv'
    BY DEF IInv, TypeOK, TokenInv, ThreadInv, InsideInv, Inside, Owed, Leaving
  <2>3. ASSUME NEW u \in Threads PROVE ThreadInv(u)'
    BY <2>3 DEF IInv, TypeOK, TokenInv, ThreadInv, InsideInv, Inside, Owed, Leaving, GuestContexts, Callers
  <2>4. ASSUME NEW u \in Threads, Inside(u)' PROVE InsideInv(u)'
    BY <2>4 DEF IInv, TypeOK, TokenInv, ThreadInv, InsideInv, Inside, Owed, Leaving
  <2> QED BY <2>1, <2>2, <2>3, <2>4 DEF IInv
<1>4. CASE LeaveUnnest(t)
  <2> USE <1>4 DEF LeaveUnnest
  <2>1. TypeOK'
    BY DEF IInv, TypeOK, Pcs, Callers, Contexts, GuestContexts, TokenInv, ThreadInv, InsideInv, Inside, Owed, Leaving
  <2>2. TokenInv'
    BY DEF IInv, TypeOK, TokenInv, ThreadInv, InsideInv, Inside, Owed, Leaving
  <2>3. ASSUME NEW u \in Threads PROVE ThreadInv(u)'
    BY <2>3 DEF IInv, TypeOK, TokenInv, ThreadInv, InsideInv, Inside, Owed, Leaving, GuestContexts, Callers
  <2>4. ASSUME NEW u \in Threads, Inside(u)' PROVE InsideInv(u)'
    BY <2>4 DEF IInv, TypeOK, TokenInv, ThreadInv, InsideInv, Inside, Owed, Leaving
  <2> QED BY <2>1, <2>2, <2>3, <2>4 DEF IInv
<1>5. CASE LeaveLockers(t)
  <2> USE <1>5 DEF LeaveLockers, WaitersLeft
  <2>1. TypeOK'
    BY DEF IInv, TypeOK, Pcs, Callers, Contexts, GuestContexts, TokenInv, ThreadInv, InsideInv, Inside, Owed, Leaving
  <2>2. TokenInv'
    BY DEF IInv, TypeOK, TokenInv, ThreadInv, InsideInv, Inside, Owed, Leaving
  <2>3. ASSUME NEW u \in Threads PROVE ThreadInv(u)'
    BY <2>3 DEF IInv, TypeOK, TokenInv, ThreadInv, InsideInv, Inside, Owed, Leaving, GuestContexts, Callers
  <2>4. ASSUME NEW u \in Threads, Inside(u)' PROVE InsideInv(u)'
    BY <2>4 DEF IInv, TypeOK, TokenInv, ThreadInv, InsideInv, Inside, Owed, Leaving
  <2> QED BY <2>1, <2>2, <2>3, <2>4 DEF IInv
<1>6. CASE LeaveSignal(t)
  <2> USE <1>6 DEF LeaveSignal
  <2>1. TypeOK'
    BY DEF IInv, TypeOK, Pcs, Callers, Contexts, GuestContexts, TokenInv, ThreadInv, InsideInv, Inside, Owed, Leaving
  <2>2. TokenInv'
    BY DEF IInv, TypeOK, TokenInv, ThreadInv, InsideInv, Inside, Owed, Leaving
  <2>3. ASSUME NEW u \in Threads PROVE ThreadInv(u)'
    BY <2>3 DEF IInv, TypeOK, TokenInv, ThreadInv, InsideInv, Inside, Owed, Leaving, GuestContexts, Callers
  <2>4. ASSUME NEW u \in Threads, Inside(u)' PROVE InsideInv(u)'
    BY <2>4 DEF IInv, TypeOK, TokenInv, ThreadInv, InsideInv, Inside, Owed, Leaving
  <2> QED BY <2>1, <2>2, <2>3, <2>4 DEF IInv
<1>7. CASE LeaveExitEvent(t)
  <2> USE <1>7 DEF LeaveExitEvent, LeaveReturns
  <2>1. TypeOK'
    BY DEF IInv, TypeOK, Pcs, Callers, Contexts, GuestContexts, TokenInv, ThreadInv, InsideInv, Inside, Owed, Leaving
  <2>2. TokenInv'
    BY DEF IInv, TypeOK, TokenInv, ThreadInv, InsideInv, Inside, Owed, Leaving
  <2>3. ASSUME NEW u \in Threads PROVE ThreadInv(u)'
    BY <2>3 DEF IInv, TypeOK, TokenInv, ThreadInv, InsideInv, Inside, Owed, Leaving, GuestContexts, Callers
  <2>4. ASSUME NEW u \in Threads, Inside(u)' PROVE InsideInv(u)'
    BY <2>4 DEF IInv, TypeOK, TokenInv, ThreadInv, InsideInv, Inside, Owed, Leaving
  <2> QED BY <2>1, <2>2, <2>3, <2>4 DEF IInv
<1>8. CASE LeaveRZTry(t)
  <2> USE <1>8 DEF LeaveRZTry
  <2>1. TypeOK'
    BY DEF IInv, TypeOK, Pcs, Callers, Contexts, GuestContexts, TokenInv, ThreadInv, InsideInv, Inside, Owed, Leaving
  <2>2. TokenInv'
    BY DEF IInv, TypeOK, TokenInv, ThreadInv, InsideInv, Inside, Owed, Leaving
  <2>3. ASSUME NEW u \in Threads PROVE ThreadInv(u)'
    BY <2>3 DEF IInv, TypeOK, TokenInv, ThreadInv, InsideInv, Inside, Owed, Leaving, GuestContexts, Callers
  <2>4. ASSUME NEW u \in Threads, Inside(u)' PROVE InsideInv(u)'
    BY <2>4 DEF IInv, TypeOK, TokenInv, ThreadInv, InsideInv, Inside, Owed, Leaving
  <2> QED BY <2>1, <2>2, <2>3, <2>4 DEF IInv
<1>9. CASE LeaveRZOwner(t)
  <2> USE <1>9 DEF LeaveRZOwner
  <2>1. TypeOK'
    BY DEF IInv, TypeOK, Pcs, Callers, Contexts, GuestContexts, TokenInv, ThreadInv, InsideInv, Inside, Owed, Leaving
  <2>2. TokenInv'
    BY DEF IInv, TypeOK, TokenInv, ThreadInv, InsideInv, Inside, Owed, Leaving
  <2>3. ASSUME NEW u \in Threads PROVE ThreadInv(u)'
    BY <2>3 DEF IInv, TypeOK, TokenInv, ThreadInv, InsideInv, Inside, Owed, Leaving, GuestContexts, Callers
  <2>4. ASSUME NEW u \in Threads, Inside(u)' PROVE InsideInv(u)'
    BY <2>4 DEF IInv, TypeOK, TokenInv, ThreadInv, InsideInv, Inside, Owed, Leaving
  <2> QED BY <2>1, <2>2, <2>3, <2>4 DEF IInv
<1>10. CASE LeaveRZCas(t)
  <2> USE <1>10 DEF LeaveRZCas, StillAlone, LeaveReturns
  <2>1. TypeOK'
    BY DEF IInv, TypeOK, Pcs, Callers, Contexts, GuestContexts, TokenInv, ThreadInv, InsideInv, Inside, Owed, Leaving
  <2>2. TokenInv'
    BY DEF IInv, TypeOK, TokenInv, ThreadInv, InsideInv, Inside, Owed, Leaving
  <2>3. ASSUME NEW u \in Threads PROVE ThreadInv(u)'
    BY <2>3 DEF IInv, TypeOK, TokenInv, ThreadInv, InsideInv, Inside, Owed, Leaving, GuestContexts, Callers
  <2>4. ASSUME NEW u \in Threads, Inside(u)' PROVE InsideInv(u)'
    BY <2>4 DEF IInv, TypeOK, TokenInv, ThreadInv, InsideInv, Inside, Owed, Leaving
  <2> QED BY <2>1, <2>2, <2>3, <2>4 DEF IInv
<1>11. CASE LeaveRZRaced(t)
  <2> USE <1>11 DEF LeaveRZRaced, StillAlone
  <2>1. TypeOK'
    BY DEF IInv, TypeOK, Pcs, Callers, Contexts, GuestContexts, TokenInv, ThreadInv, InsideInv, Inside, Owed, Leaving
  <2>2. TokenInv'
    BY DEF IInv, TypeOK, TokenInv, ThreadInv, InsideInv, Inside, Owed, Leaving
  <2>3. ASSUME NEW u \in Threads PROVE ThreadInv(u)'
    BY <2>3 DEF IInv, TypeOK, TokenInv, ThreadInv, InsideInv, Inside, Owed, Leaving, GuestContexts, Callers
  <2>4. ASSUME NEW u \in Threads, Inside(u)' PROVE InsideInv(u)'
    BY <2>4 DEF IInv, TypeOK, TokenInv, ThreadInv, InsideInv, Inside, Owed, Leaving
  <2> QED BY <2>1, <2>2, <2>3, <2>4 DEF IInv
<1>12. CASE LeaveRZRestore(t)
  <2> USE <1>12 DEF LeaveRZRestore
  <2>1. TypeOK'
    BY DEF IInv, TypeOK, Pcs, Callers, Contexts, GuestContexts, TokenInv, ThreadInv, InsideInv, Inside, Owed, Leaving
  <2>2. TokenInv'
    BY DEF IInv, TypeOK, TokenInv, ThreadInv, InsideInv, Inside, Owed, Leaving
  <2>3. ASSUME NEW u \in Threads PROVE ThreadInv(u)'
    BY <2>3 DEF IInv, TypeOK, TokenInv, ThreadInv, InsideInv, Inside, Owed, Leaving, GuestContexts, Callers
  <2>4. ASSUME NEW u \in Threads, Inside(u)' PROVE InsideInv(u)'
    BY <2>4 DEF IInv, TypeOK, TokenInv, ThreadInv, InsideInv, Inside, Owed, Leaving
  <2> QED BY <2>1, <2>2, <2>3, <2>4 DEF IInv
<1>13. CASE LeaveRZBusy(t)
  <2> USE <1>13 DEF LeaveRZBusy
  <2>1. TypeOK'
    BY DEF IInv, TypeOK, Pcs, Callers, Contexts, GuestContexts, TokenInv, ThreadInv, InsideInv, Inside, Owed, Leaving
  <2>2. TokenInv'
    BY DEF IInv, TypeOK, TokenInv, ThreadInv, InsideInv, Inside, Owed, Leaving
  <2>3. ASSUME NEW u \in Threads PROVE ThreadInv(u)'
    BY <2>3 DEF IInv, TypeOK, TokenInv, ThreadInv, InsideInv, Inside, Owed, Leaving, GuestContexts, Callers
  <2>4. ASSUME NEW u \in Threads, Inside(u)' PROVE InsideInv(u)'
    BY <2>4 DEF IInv, TypeOK, TokenInv, ThreadInv, InsideInv, Inside, Owed, Leaving
  <2> QED BY <2>1, <2>2, <2>3, <2>4 DEF IInv
<1>14. CASE LeaveRZQueue(t)
  <2> USE <1>14 DEF LeaveRZQueue, LeaveReturns
  <2>1. TypeOK'
    BY DEF IInv, TypeOK, Pcs, Callers, Contexts, GuestContexts, TokenInv, ThreadInv, InsideInv, Inside, Owed, Leaving
  <2>2. TokenInv'
    BY DEF IInv, TypeOK, TokenInv, ThreadInv, InsideInv, Inside, Owed, Leaving
  <2>3. ASSUME NEW u \in Threads PROVE ThreadInv(u)'
    BY <2>3 DEF IInv, TypeOK, TokenInv, ThreadInv, InsideInv, Inside, Owed, Leaving, GuestContexts, Callers
  <2>4. ASSUME NEW u \in Threads, Inside(u)' PROVE InsideInv(u)'
    BY <2>4 DEF IInv, TypeOK, TokenInv, ThreadInv, InsideInv, Inside, Owed, Leaving
  <2> QED BY <2>1, <2>2, <2>3, <2>4 DEF IInv
<1>15. CASE FFLeave(t)
  <2> USE <1>15 DEF FFLeave
  <2>1. TypeOK'
    BY DEF IInv, TypeOK, Pcs, Callers, Contexts, GuestContexts, TokenInv, ThreadInv, InsideInv, Inside, Owed, Leaving
  <2>2. TokenInv'
    BY DEF IInv, TypeOK, TokenInv, ThreadInv, InsideInv, Inside, Owed, Leaving
  <2>3. ASSUME NEW u \in Threads PROVE ThreadInv(u)'
    BY <2>3 DEF IInv, TypeOK, TokenInv, ThreadInv, InsideInv, Inside, Owed, Leaving, GuestContexts, Callers
  <2>4. ASSUME NEW u \in Threads, Inside(u)' PROVE InsideInv(u)'
    BY <2>4 DEF IInv, TypeOK, TokenInv, ThreadInv, InsideInv, Inside, Owed, Leaving
  <2> QED BY <2>1, <2>2, <2>3, <2>4 DEF IInv
<1>16. CASE FFDone(t)
  <2> USE <1>16 DEF FFDone, EmptyQueue
  <2>1. TypeOK'
    BY DEF IInv, TypeOK, Pcs, Callers, Contexts, GuestContexts, TokenInv, ThreadInv, InsideInv, Inside, Owed, Leaving
  <2>2. TokenInv'
    BY DEF IInv, TypeOK, TokenInv, ThreadInv, InsideInv, Inside, Owed, Leaving
  <2>3. ASSUME NEW u \in Threads PROVE ThreadInv(u)'
    BY <2>3 DEF IInv, TypeOK, TokenInv, ThreadInv, InsideInv, Inside, Owed, Leaving, GuestContexts, Callers
  <2>4. ASSUME NEW u \in Threads, Inside(u)' PROVE InsideInv(u)'
    BY <2>4 DEF IInv, TypeOK, TokenInv, ThreadInv, InsideInv, Inside, Owed, Leaving
  <2> QED BY <2>1, <2>2, <2>3, <2>4 DEF IInv
<1>17. CASE LeaveAllNext(t)
  <2> USE <1>17 DEF LeaveAllNext
  <2>1. TypeOK'
    BY DEF IInv, TypeOK, Pcs, Callers, Contexts, GuestContexts, TokenInv, ThreadInv, InsideInv, Inside, Owed, Leaving
  <2>2. TokenInv'
    BY DEF IInv, TypeOK, TokenInv, ThreadInv, InsideInv, Inside, Owed, Leaving
  <2>3. ASSUME NEW u \in Threads PROVE ThreadInv(u)'
    BY <2>3 DEF IInv, TypeOK, TokenInv, ThreadInv, InsideInv, Inside, Owed, Leaving, GuestContexts, Callers
  <2>4. ASSUME NEW u \in Threads, Inside(u)' PROVE InsideInv(u)'
    BY <2>4 DEF IInv, TypeOK, TokenInv, ThreadInv, InsideInv, Inside, Owed, Leaving
  <2> QED BY <2>1, <2>2, <2>3, <2>4 DEF IInv
<1>18. CASE LeaveAllDone(t)
  <2> USE <1>18 DEF LeaveAllDone
  <2>1. TypeOK'
    BY DEF IInv, TypeOK, Pcs, Callers, Contexts, GuestContexts, TokenInv, ThreadInv, InsideInv, Inside, Owed, Leaving
  <2>2. TokenInv'
    BY DEF IInv, TypeOK, TokenInv, ThreadInv, InsideInv, Inside, Owed, Leaving
  <2>3. ASSUME NEW u \in Threads PROVE ThreadInv(u)'
    BY <2>3 DEF IInv, TypeOK, TokenInv, ThreadInv, InsideInv, Inside, Owed, Leaving, GuestContexts, Callers
  <2>4. ASSUME NEW u \in Threads, Inside(u)' PROVE InsideInv(u)'
    BY <2>4 DEF IInv, TypeOK, TokenInv, ThreadInv, InsideInv, Inside, Owed, Leaving
  <2> QED BY <2>1, <2>2, <2>3, <2>4 DEF IInv
<1> QED BY <1>1, <1>2, <1>3, <1>4, <1>5, <1>6, <1>7, <1>8, <1>9, <1>10, <1>11, <1>12, <1>13, <1>14, <1>15, <1>16, <1>17, <1>18 DEF LeaveStep

\* Every step of ClientStep preserves the inductive invariant.
LEMMA ClientStepPreserves ==
    ASSUME IInv, NEW t \in Threads, ClientStep(t) PROVE IInv'
<1> USE NilAssumption DEF Goto, lockVars, exitVars, ctxVars, callVars
<1>1. CASE EnterCall(t)
  <2> USE <1>1 DEF EnterCall
  <2>1. TypeOK'
    BY DEF IInv, TypeOK, Pcs, Callers, Contexts, GuestContexts, TokenInv, ThreadInv, InsideInv, Inside, Owed, Leaving
  <2>2. TokenInv'
    BY DEF IInv, TypeOK, TokenInv, ThreadInv, InsideInv, Inside, Owed, Leaving
  <2>3. ASSUME NEW u \in Threads PROVE ThreadInv(u)'
    BY <2>3 DEF IInv, TypeOK, TokenInv, ThreadInv, InsideInv, Inside, Owed, Leaving, GuestContexts, Callers
  <2>4. ASSUME NEW u \in Threads, Inside(u)' PROVE InsideInv(u)'
    BY <2>4 DEF IInv, TypeOK, TokenInv, ThreadInv, InsideInv, Inside, Owed, Leaving
  <2> QED BY <2>1, <2>2, <2>3, <2>4 DEF IInv
<1>2. CASE LeaveCall(t)
  <2> USE <1>2 DEF LeaveCall
  <2>1. TypeOK'
    BY DEF IInv, TypeOK, Pcs, Callers, Contexts, GuestContexts, TokenInv, ThreadInv, InsideInv, Inside, Owed, Leaving
  <2>2. TokenInv'
    BY DEF IInv, TypeOK, TokenInv, ThreadInv, InsideInv, Inside, Owed, Leaving
  <2>3. ASSUME NEW u \in Threads PROVE ThreadInv(u)'
    BY <2>3 DEF IInv, TypeOK, TokenInv, ThreadInv, InsideInv, Inside, Owed, Leaving, GuestContexts, Callers
  <2>4. ASSUME NEW u \in Threads, Inside(u)' PROVE InsideInv(u)'
    BY <2>4 DEF IInv, TypeOK, TokenInv, ThreadInv, InsideInv, Inside, Owed, Leaving
  <2> QED BY <2>1, <2>2, <2>3, <2>4 DEF IInv
<1>3. CASE YieldCall(t)
  <2> USE <1>3 DEF YieldCall
  <2>1. TypeOK'
    BY DEF IInv, TypeOK, Pcs, Callers, Contexts, GuestContexts, TokenInv, ThreadInv, InsideInv, Inside, Owed, Leaving
  <2>2. TokenInv'
    BY DEF IInv, TypeOK, TokenInv, ThreadInv, InsideInv, Inside, Owed, Leaving
  <2>3. ASSUME NEW u \in Threads PROVE ThreadInv(u)'
    BY <2>3 DEF IInv, TypeOK, TokenInv, ThreadInv, InsideInv, Inside, Owed, Leaving, GuestContexts, Callers
  <2>4. ASSUME NEW u \in Threads, Inside(u)' PROVE InsideInv(u)'
    BY <2>4 DEF IInv, TypeOK, TokenInv, ThreadInv, InsideInv, Inside, Owed, Leaving
  <2> QED BY <2>1, <2>2, <2>3, <2>4 DEF IInv
<1>4. CASE LeaveAllCall(t)
  <2> USE <1>4 DEF LeaveAllCall
  <2>1. TypeOK'
    BY DEF IInv, TypeOK, Pcs, Callers, Contexts, GuestContexts, TokenInv, ThreadInv, InsideInv, Inside, Owed, Leaving
  <2>2. TokenInv'
    BY DEF IInv, TypeOK, TokenInv, ThreadInv, InsideInv, Inside, Owed, Leaving
  <2>3. ASSUME NEW u \in Threads PROVE ThreadInv(u)'
    BY <2>3 DEF IInv, TypeOK, TokenInv, ThreadInv, InsideInv, Inside, Owed, Leaving, GuestContexts, Callers
  <2>4. ASSUME NEW u \in Threads, Inside(u)' PROVE InsideInv(u)'
    BY <2>4 DEF IInv, TypeOK, TokenInv, ThreadInv, InsideInv, Inside, Owed, Leaving
  <2> QED BY <2>1, <2>2, <2>3, <2>4 DEF IInv
<1>5. CASE ScheduleExitEvent(t)
  <2> USE <1>5 DEF ScheduleExitEvent
  <2>1. TypeOK'
    BY DEF IInv, TypeOK, Pcs, Callers, Contexts, GuestContexts, TokenInv, ThreadInv, InsideInv, Inside, Owed, Leaving
  <2>2. TokenInv'
    BY DEF IInv, TypeOK, TokenInv, ThreadInv, InsideInv, Inside, Owed, Leaving
  <2>3. ASSUME NEW u \in Threads PROVE ThreadInv(u)'
    BY <2>3 DEF IInv, TypeOK, TokenInv, ThreadInv, InsideInv, Inside, Owed, Leaving, GuestContexts, Callers
  <2>4. ASSUME NEW u \in Threads, Inside(u)' PROVE InsideInv(u)'
    BY <2>4 DEF IInv, TypeOK, TokenInv, ThreadInv, InsideInv, Inside, Owed, Leaving
  <2> QED BY <2>1, <2>2, <2>3, <2>4 DEF IInv
<1>6. CASE SwitchContext(t)
  <2> USE <1>6 DEF SwitchContext
  <2>1. TypeOK'
    BY DEF IInv, TypeOK, Pcs, Callers, Contexts, GuestContexts, TokenInv, ThreadInv, InsideInv, Inside, Owed, Leaving
  <2>2. TokenInv'
    BY DEF IInv, TypeOK, TokenInv, ThreadInv, InsideInv, Inside, Owed, Leaving
  <2>3. ASSUME NEW u \in Threads PROVE ThreadInv(u)'
    BY <2>3 DEF IInv, TypeOK, TokenInv, ThreadInv, InsideInv, Inside, Owed, Leaving, GuestContexts, Callers
  <2>4. ASSUME NEW u \in Threads, Inside(u)' PROVE InsideInv(u)'
    BY <2>4 DEF IInv, TypeOK, TokenInv, ThreadInv, InsideInv, Inside, Owed, Leaving
  <2> QED BY <2>1, <2>2, <2>3, <2>4 DEF IInv
<1>7. CASE ExitToRing3(t)
  <2> USE <1>7 DEF ExitToRing3, ArriveInRing3
  <2>1. TypeOK'
    BY DEF IInv, TypeOK, Pcs, Callers, Contexts, GuestContexts, TokenInv, ThreadInv, InsideInv, Inside, Owed, Leaving
  <2>2. TokenInv'
    BY DEF IInv, TypeOK, TokenInv, ThreadInv, InsideInv, Inside, Owed, Leaving
  <2>3. ASSUME NEW u \in Threads PROVE ThreadInv(u)'
    BY <2>3 DEF IInv, TypeOK, TokenInv, ThreadInv, InsideInv, Inside, Owed, Leaving, GuestContexts, Callers
  <2>4. ASSUME NEW u \in Threads, Inside(u)' PROVE InsideInv(u)'
    BY <2>4 DEF IInv, TypeOK, TokenInv, ThreadInv, InsideInv, Inside, Owed, Leaving
  <2> QED BY <2>1, <2>2, <2>3, <2>4 DEF IInv
<1>8. CASE CallRing3(t)
  <2> USE <1>8 DEF CallRing3, ArriveInRing3
  <2>1. TypeOK'
    BY DEF IInv, TypeOK, Pcs, Callers, Contexts, GuestContexts, TokenInv, ThreadInv, InsideInv, Inside, Owed, Leaving
  <2>2. TokenInv'
    BY DEF IInv, TypeOK, TokenInv, ThreadInv, InsideInv, Inside, Owed, Leaving
  <2>3. ASSUME NEW u \in Threads PROVE ThreadInv(u)'
    BY <2>3 DEF IInv, TypeOK, TokenInv, ThreadInv, InsideInv, Inside, Owed, Leaving, GuestContexts, Callers
  <2>4. ASSUME NEW u \in Threads, Inside(u)' PROVE InsideInv(u)'
    BY <2>4 DEF IInv, TypeOK, TokenInv, ThreadInv, InsideInv, Inside, Owed, Leaving
  <2> QED BY <2>1, <2>2, <2>3, <2>4 DEF IInv
<1>9. CASE ReturnFromRing3(t)
  <2> USE <1>9 DEF ReturnFromRing3
  <2>1. TypeOK'
    BY DEF IInv, TypeOK, Pcs, Callers, Contexts, GuestContexts, TokenInv, ThreadInv, InsideInv, Inside, Owed, Leaving
  <2>2. TokenInv'
    BY DEF IInv, TypeOK, TokenInv, ThreadInv, InsideInv, Inside, Owed, Leaving
  <2>3. ASSUME NEW u \in Threads PROVE ThreadInv(u)'
    BY <2>3 DEF IInv, TypeOK, TokenInv, ThreadInv, InsideInv, Inside, Owed, Leaving, GuestContexts, Callers
  <2>4. ASSUME NEW u \in Threads, Inside(u)' PROVE InsideInv(u)'
    BY <2>4 DEF IInv, TypeOK, TokenInv, ThreadInv, InsideInv, Inside, Owed, Leaving
  <2> QED BY <2>1, <2>2, <2>3, <2>4 DEF IInv
<1> QED BY <1>1, <1>2, <1>3, <1>4, <1>5, <1>6, <1>7, <1>8, <1>9 DEF ClientStep

\* The steps outside any thread's call: the device's worker, deletion, and the
\* initialization of a new section in the same place.
LEMMA SectionStepPreserves ==
    ASSUME IInv, ExitSemWait \/ Delete \/ InitAgain PROVE IInv'
<1> USE NilAssumption DEF lockVars, exitVars, ctxVars
<1>1. CASE ExitSemWait
  <2>1. TypeOK' BY <1>1 DEF IInv, TypeOK, ExitSemWait
  <2>2. TokenInv' BY <1>1 DEF IInv, TokenInv, Inside, Owed, ExitSemWait
  <2>3. ASSUME NEW u \in Threads PROVE ThreadInv(u)' /\ (Inside(u)' => InsideInv(u)')
    BY <1>1, <2>3 DEF IInv, ThreadInv, InsideInv, Inside, Owed, Leaving, ExitSemWait
  <2> QED BY <2>1, <2>2, <2>3 DEF IInv
<1>2. CASE Delete
  <2>1. TypeOK' BY <1>2 DEF IInv, TypeOK, Delete
  <2>2. TokenInv' BY <1>2 DEF IInv, TokenInv, Inside, Owed, Delete
  <2>3. ASSUME NEW u \in Threads PROVE ThreadInv(u)' /\ (Inside(u)' => InsideInv(u)')
    BY <1>2, <2>3 DEF IInv, ThreadInv, InsideInv, Inside, Owed, Leaving, Delete
  <2> QED BY <2>1, <2>2, <2>3 DEF IInv
<1>3. CASE InitAgain
  <2>1. TypeOK'
    <3>1. cLockers' \in Int /\ cNestings' \in Int BY <1>3 DEF InitAgain
    <3> QED BY <1>3, <3>1, Zenon DEF IInv, TypeOK, InitAgain
  <2>2. \A u \in Threads : pc[u] = "idle" /\ ~Inside(u) /\ ~Inside(u)'
    BY <1>3 DEF IInv, TokenInv, Inside, Owed, InitAgain
  <2>3. TokenInv' BY <1>3, <2>2 DEF IInv, TokenInv, InitAgain
  <2>4. ASSUME NEW u \in Threads PROVE ThreadInv(u)' /\ (Inside(u)' => InsideInv(u)')
    BY <1>3, <2>2, <2>4 DEF IInv, ThreadInv, Owed, InitAgain
  <2> QED BY <2>1, <2>3, <2>4 DEF IInv
<1> QED BY <1>1, <1>2, <1>3

\* The initial state satisfies the invariant.
LEMMA InitInv == Init => IInv
<1> SUFFICES ASSUME Init PROVE IInv
  OBVIOUS
<1>1. TypeOK
  <2>1. cLockers \in Int /\ cNestings \in Int BY DEF Init
  <2>2. /\ cQueuedCritSectLeaves \in [Threads -> Nat] /\ hold \in [Threads -> Nat]
        /\ pc \in [Threads -> Pcs] /\ caller \in [Threads -> Callers]
        /\ ctx \in [Threads -> Contexts] /\ back \in [Threads -> GuestContexts \cup {"none"}]
    BY DEF Init, Pcs, Callers, Contexts
  <2> QED BY <2>1, <2>2, Zenon DEF Init, TypeOK
<1>2. \A t \in Threads : ~Inside(t)
  BY DEF Init, Inside, Owed
<1>3. TokenInv
  BY <1>2, NilAssumption DEF Init, TokenInv
<1>4. \A t \in Threads : ThreadInv(t)
  BY DEF Init, ThreadInv, Owed
<1> QED BY <1>1, <1>2, <1>3, <1>4 DEF IInv

\* Every step of the system preserves the invariant.
LEMMA NextInv == IInv /\ [Next]_vars => IInv'
<1> SUFFICES ASSUME IInv, [Next]_vars PROVE IInv'
  OBVIOUS
<1>1. CASE UNCHANGED vars
  <2> USE <1>1 DEF vars, lockVars, callVars, exitVars, ctxVars
  <2>1. TypeOK' BY DEF IInv, TypeOK
  <2>2. TokenInv' BY DEF IInv, TokenInv, Inside, Owed
  <2>3. ASSUME NEW u \in Threads PROVE ThreadInv(u)' /\ (Inside(u)' => InsideInv(u)')
    BY <2>3 DEF IInv, ThreadInv, InsideInv, Inside, Owed, Leaving
  <2> QED BY <2>1, <2>2, <2>3 DEF IInv
<1>2. CASE Next
  BY <1>2, EnterStepPreserves, LeaveStepPreserves, ClientStepPreserves,
     SectionStepPreserves DEF Next
<1> QED BY <1>1, <1>2

\* The inductive invariant holds in every reachable state.
THEOREM Invariance == Spec => []IInv
BY InitInv, NextInv, PTL DEF Spec

-----------------------------------------------------------------------------

\* Type correctness of the section and its threads, for any number of threads.
THEOREM TypeCorrect == Spec => []TypeOK
<1>1. IInv => TypeOK BY DEF IInv
<1> QED BY <1>1, Invariance, PTL

\* No two threads are ever inside the section (pdmCritSectEnter, PDMCritSectLeave
\* and the replay in PDMCritSectFF), for any number of EMTs and I/O threads and
\* any nesting depth.
THEOREM MutualExclusionHolds == Spec => []MutualExclusion
<1>1. IInv => MutualExclusion BY DEF IInv, TokenInv, Inside, MutualExclusion
<1> QED BY <1>1, Invariance, PTL

\* The assertions in pdmCritSectEnterFirst and PDMCritSectLeave never fire, and
\* a signal is never lost in an already signalled semaphore.
THEOREM AssertionsNeverFire == Spec => []AssertionsHold
<1>1. IInv => AssertionsHold
  <2> SUFFICES ASSUME IInv, NEW t \in Threads
               PROVE  /\ pc[t] = "first1" => NativeThreadOwner = NIL /\ ~fPendingUnlock
                      /\ pc[t] = "leave" => NativeThreadOwner = t /\ cNestings >= 1
                      /\ pc[t] = "dec0" => cNestings = 1
                      /\ pc[t] = "rznest" => cNestings = 0
                      /\ pc[t] = "lnest" => cNestings >= 1 /\ cLockers >= 1
                      /\ pc[t] = "signal" => ~EventSem
    BY DEF AssertionsHold
  <2> QED BY DEF IInv, TypeOK, TokenInv, InsideInv, Inside
<1> QED BY <1>1, Invariance, PTL

\* The recursion count is what the owner holds plus the leave it still owes.
THEOREM NestingsAlwaysMatch == Spec => []NestingsMatch
<1>1. IInv => NestingsMatch
  <2> SUFFICES ASSUME IInv, NEW t \in Threads, pc[t] = "idle"
               PROVE  /\ hold[t] + Owed(t) > 0 <=> NativeThreadOwner = t
                      /\ NativeThreadOwner = t => cNestings = hold[t] + Owed(t)
    BY DEF NestingsMatch
  <2>1. hold[t] \in Nat /\ Owed(t) \in Nat
    BY DEF IInv, TypeOK, Owed
  <2>2. Inside(t) <=> hold[t] + Owed(t) > 0
    BY <2>1 DEF Inside
  <2> QED BY <2>2 DEF IInv, TokenInv, InsideInv
<1> QED BY <1>1, Invariance, PTL

\* A section waits in one leave queue at most, once, and nobody else holds it.
THEOREM QueuedAtMostOnce == Spec => []QueuedOnce
<1>1. IInv => QueuedOnce
  <2> SUFFICES ASSUME IInv, NEW t \in Threads, Owed(t) > 0
               PROVE  /\ Owed(t) = 1
                      /\ \A u \in Threads \ {t} : Owed(u) = 0 /\ hold[u] = 0
                      /\ NativeThreadOwner = t \/ pc[t] = "dec0" \/ pc[t] = "dec"
    BY DEF QueuedOnce
  <2>1. Owed(t) = 1
    BY DEF IInv, ThreadInv, Owed
  <2>2. Inside(t)
    BY DEF Inside
  <2>3. ASSUME NEW u \in Threads \ {t} PROVE Owed(u) = 0 /\ hold[u] = 0
    <3>1. hold[u] \in Nat /\ Owed(u) \in Nat
      BY DEF IInv, TypeOK, Owed
    <3>2. ~Inside(u)
      BY <2>2 DEF IInv, TokenInv
    <3> QED BY <3>1, <3>2 DEF Inside
  <2>4. NativeThreadOwner = t \/ pc[t] = "dec0" \/ pc[t] = "dec"
    BY <2>2 DEF IInv, TypeOK, Pcs, ThreadInv, InsideInv, Owed
  <2> QED BY <2>1, <2>3, <2>4
<1> QED BY <1>1, Invariance, PTL

\* The section implements the recursive lock its users rely on.
THEOREM ImplementsRecursiveLock == Spec => IsRecursiveLock
<1>1. Init => Lock!Init
  BY DEF Init, Lock!Init
<1>2. IInv /\ [Next]_vars => [Lock!Next]_hold
  <2> SUFFICES ASSUME IInv, [Next]_vars PROVE Lock!Next \/ hold' = hold
    OBVIOUS
  <2> USE DEF Lock!Next, Lock!Acquire, Lock!Release, Goto, vars, lockVars, callVars,
              exitVars, ctxVars
  <2>1. ASSUME NEW t \in Threads, EnterFirstOwner(t) \/ NestNestings(t)
        PROVE  Lock!Acquire(t)
    <3>1. Inside(t)
      BY <2>1 DEF Inside, EnterFirstOwner, NestNestings
    <3>2. ASSUME NEW u \in Threads \ {t} PROVE hold[u] = 0
      BY <3>1 DEF IInv, TypeOK, TokenInv, Inside
    <3> QED BY <2>1, <3>2 DEF EnterFirstOwner, NestNestings, EnterReturns
  <2>2. ASSUME NEW t \in Threads, LeaveCall(t) \/ YieldCall(t)
        PROVE  Lock!Release(t)
    BY <2>2 DEF LeaveCall, YieldCall
  <2>3. ASSUME NEW t \in Threads, LeaveAllNext(t)
        PROVE  Lock!Release(t)
    <3>1. hold[t] > 0
      BY <2>3 DEF LeaveAllNext, IInv, TypeOK, TokenInv, ThreadInv, InsideInv, Owed
    <3> QED BY <2>3, <3>1 DEF LeaveAllNext
  <2>4. ASSUME NEW t \in Threads, EnterStep(t) PROVE Lock!Next \/ hold' = hold
    BY <2>1, <2>4 DEF EnterStep, CasWins, CasFails, NestLockers, SpinEndsBlocking,
       SpinEndsBusy, SpinEndsCallRing3, ContendedInc, ContendedWake, EnterFirstNestings
  <2>5. ASSUME NEW t \in Threads, LeaveStep(t) PROVE Lock!Next \/ hold' = hold
    BY <2>3, <2>5 DEF LeaveStep, LeaveNestings, LeaveNestedLockers, LeaveOwner,
       LeaveUnnest, LeaveLockers, LeaveSignal, LeaveExitEvent, LeaveRZTry, LeaveRZOwner,
       LeaveRZCas, LeaveRZRaced, LeaveRZRestore, LeaveRZBusy, LeaveRZQueue, FFLeave,
       FFDone, LeaveAllDone
  <2>6. ASSUME NEW t \in Threads, ClientStep(t) PROVE Lock!Next \/ hold' = hold
    BY <2>2, <2>6 DEF ClientStep, EnterCall, LeaveAllCall, ScheduleExitEvent,
       SwitchContext, ExitToRing3, CallRing3, ReturnFromRing3
  <2>7. ASSUME ExitSemWait \/ Delete \/ InitAgain PROVE hold' = hold
    BY <2>7 DEF ExitSemWait, Delete, InitAgain
  <2> QED BY <2>4, <2>5, <2>6, <2>7 DEF Next
<1> QED BY <1>1, <1>2, Invariance, PTL DEF Spec, IsRecursiveLock, Lock!Spec

-----------------------------------------------------------------------------
(* What cLockers counts.  Inside tells the one thread that is not a waiter and
   is counted; CountIs(n) says what cLockers is when there are n waiters. *)

CountIs(n) ==
    /\ \A t \in Threads : Inside(t) => cLockers + 1 = Share(t) + n
    /\ (\A t \in Threads : ~Inside(t)) => cLockers + 1 = n

CountInv == CountIs(Cardinality(Waiters))

\* A queued leave that is not being replayed has left its mark on the section.
PendingInv == \A t \in Threads : Owed(t) > 0 /\ ~fPendingUnlock => pc[t] \in {"dec0", "dec"}

\* The steps of entering keep the count, but for those that announce and admit a waiter.
LEMMA EnterStepCounts ==
    ASSUME IInv, NEW n \in Nat, CountIs(n), NEW t \in Threads, EnterStep(t), ~ContendedInc(t), ~ContendedWake(t)
    PROVE  CountIs(n)' /\ Waiters' = Waiters
<1> USE DEF Goto, lockVars, exitVars, ctxVars, callVars
<1>1. CASE CasWins(t)
  <2> USE <1>1 DEF CasWins, IsFree
  <2>1. CountIs(n)'
    BY DEF IInv, TypeOK, TokenInv, ThreadInv, InsideInv, Inside, Owed, Leaving, CountIs, Share, InTransit
  <2>2. Waiters' = Waiters
    BY DEF IInv, TypeOK, Waiters
  <2> QED BY <2>1, <2>2
<1>2. CASE CasFails(t)
  <2> USE <1>2 DEF CasFails, IsFree
  <2>1. CountIs(n)'
    BY DEF IInv, TypeOK, TokenInv, ThreadInv, InsideInv, Inside, Owed, Leaving, CountIs, Share, InTransit
  <2>2. Waiters' = Waiters
    BY DEF IInv, TypeOK, Waiters
  <2> QED BY <2>1, <2>2
<1>3. CASE NestLockers(t)
  <2> USE <1>3 DEF NestLockers
  <2>1. CountIs(n)'
    <3>1. Inside(t) /\ Share(t) \in Nat /\ Share(t)' = Share(t) + 1
      BY DEF IInv, TypeOK, Inside, Owed, Share, InTransit
    <3>2. \A u \in Threads : Inside(u) <=> u = t
      BY <3>1 DEF IInv, TokenInv
    <3>3. \A u \in Threads : Inside(u)' <=> u = t
      BY <3>2 DEF IInv, TypeOK, Inside, Owed
    <3>4. cLockers \in Int
      BY DEF IInv, TypeOK
    <3> QED BY <3>1, <3>2, <3>3, <3>4 DEF CountIs
  <2>2. Waiters' = Waiters
    BY DEF IInv, TypeOK, Waiters
  <2> QED BY <2>1, <2>2
<1>4. CASE NestNestings(t)
  <2> USE <1>4 DEF NestNestings, EnterReturns
  <2>1. CountIs(n)'
    BY DEF IInv, TypeOK, TokenInv, ThreadInv, InsideInv, Inside, Owed, Leaving, CountIs, Share, InTransit
  <2>2. Waiters' = Waiters
    BY DEF IInv, TypeOK, Waiters
  <2> QED BY <2>1, <2>2
<1>5. CASE SpinEndsBlocking(t)
  <2> USE <1>5 DEF SpinEndsBlocking, IsFree
  <2>1. CountIs(n)'
    BY DEF IInv, TypeOK, TokenInv, ThreadInv, InsideInv, Inside, Owed, Leaving, CountIs, Share, InTransit
  <2>2. Waiters' = Waiters
    BY DEF IInv, TypeOK, Waiters
  <2> QED BY <2>1, <2>2
<1>6. CASE SpinEndsBusy(t)
  <2> USE <1>6 DEF SpinEndsBusy, IsFree
  <2>1. CountIs(n)'
    BY DEF IInv, TypeOK, TokenInv, ThreadInv, InsideInv, Inside, Owed, Leaving, CountIs, Share, InTransit
  <2>2. Waiters' = Waiters
    BY DEF IInv, TypeOK, Waiters
  <2> QED BY <2>1, <2>2
<1>7. CASE SpinEndsCallRing3(t)
  <2> USE <1>7 DEF SpinEndsCallRing3, IsFree
  <2>1. CountIs(n)'
    BY DEF IInv, TypeOK, TokenInv, ThreadInv, InsideInv, Inside, Owed, Leaving, CountIs, Share, InTransit
  <2>2. Waiters' = Waiters
    BY DEF IInv, TypeOK, Waiters
  <2> QED BY <2>1, <2>2
<1>8. CASE EnterFirstNestings(t)
  <2> USE <1>8 DEF EnterFirstNestings
  <2>1. CountIs(n)'
    BY DEF IInv, TypeOK, TokenInv, ThreadInv, InsideInv, Inside, Owed, Leaving, CountIs, Share, InTransit
  <2>2. Waiters' = Waiters
    BY DEF IInv, TypeOK, Waiters
  <2> QED BY <2>1, <2>2
<1>9. CASE EnterFirstOwner(t)
  <2> USE <1>9 DEF EnterFirstOwner, EnterReturns
  <2>1. CountIs(n)'
    BY DEF IInv, TypeOK, TokenInv, ThreadInv, InsideInv, Inside, Owed, Leaving, CountIs, Share, InTransit
  <2>2. Waiters' = Waiters
    BY DEF IInv, TypeOK, Waiters
  <2> QED BY <2>1, <2>2
<1> QED BY <1>1, <1>2, <1>3, <1>4, <1>5, <1>6, <1>7, <1>8, <1>9 DEF EnterStep

\* The steps of leaving keep the count: what a leave takes from cLockers is its share.
LEMMA LeaveStepCounts ==
    ASSUME IInv, NEW n \in Nat, CountIs(n), NEW t \in Threads, LeaveStep(t)
    PROVE  CountIs(n)' /\ Waiters' = Waiters
<1> USE DEF Goto, lockVars, exitVars, ctxVars, callVars
<1>1. CASE LeaveNestings(t)
  <2> USE <1>1 DEF LeaveNestings
  <2>1. CountIs(n)'
    BY DEF IInv, TypeOK, TokenInv, ThreadInv, InsideInv, Inside, Owed, Leaving, CountIs, Share, InTransit
  <2>2. Waiters' = Waiters
    BY DEF IInv, TypeOK, Waiters
  <2> QED BY <2>1, <2>2
<1>2. CASE LeaveNestedLockers(t)
  <2> USE <1>2 DEF LeaveNestedLockers, LeaveReturns
  <2>1. CountIs(n)'
    BY DEF IInv, TypeOK, TokenInv, ThreadInv, InsideInv, Inside, Owed, Leaving, CountIs, Share, InTransit
  <2>2. Waiters' = Waiters
    BY DEF IInv, TypeOK, Waiters
  <2> QED BY <2>1, <2>2
<1>3. CASE LeaveOwner(t)
  <2> USE <1>3 DEF LeaveOwner
  <2>1. CountIs(n)'
    BY DEF IInv, TypeOK, TokenInv, ThreadInv, InsideInv, Inside, Owed, Leaving, CountIs, Share, InTransit
  <2>2. Waiters' = Waiters
    BY DEF IInv, TypeOK, Waiters
  <2> QED BY <2>1, <2>2
<1>4. CASE LeaveUnnest(t)
  <2> USE <1>4 DEF LeaveUnnest
  <2>1. CountIs(n)'
    BY DEF IInv, TypeOK, TokenInv, ThreadInv, InsideInv, Inside, Owed, Leaving, CountIs, Share, InTransit
  <2>2. Waiters' = Waiters
    BY DEF IInv, TypeOK, Waiters
  <2> QED BY <2>1, <2>2
<1>5. CASE LeaveLockers(t)
  <2> USE <1>5 DEF LeaveLockers, WaitersLeft
  <2>1. CountIs(n)'
    BY DEF IInv, TypeOK, TokenInv, ThreadInv, InsideInv, Inside, Owed, Leaving, CountIs, Share, InTransit
  <2>2. Waiters' = Waiters
    BY DEF IInv, TypeOK, Waiters
  <2> QED BY <2>1, <2>2
<1>6. CASE LeaveSignal(t)
  <2> USE <1>6 DEF LeaveSignal
  <2>1. CountIs(n)'
    BY DEF IInv, TypeOK, TokenInv, ThreadInv, InsideInv, Inside, Owed, Leaving, CountIs, Share, InTransit
  <2>2. Waiters' = Waiters
    BY DEF IInv, TypeOK, Waiters
  <2> QED BY <2>1, <2>2
<1>7. CASE LeaveExitEvent(t)
  <2> USE <1>7 DEF LeaveExitEvent, LeaveReturns
  <2>1. CountIs(n)'
    BY DEF IInv, TypeOK, TokenInv, ThreadInv, InsideInv, Inside, Owed, Leaving, CountIs, Share, InTransit
  <2>2. Waiters' = Waiters
    BY DEF IInv, TypeOK, Waiters
  <2> QED BY <2>1, <2>2
<1>8. CASE LeaveRZTry(t)
  <2> USE <1>8 DEF LeaveRZTry
  <2>1. CountIs(n)'
    BY DEF IInv, TypeOK, TokenInv, ThreadInv, InsideInv, Inside, Owed, Leaving, CountIs, Share, InTransit
  <2>2. Waiters' = Waiters
    BY DEF IInv, TypeOK, Waiters
  <2> QED BY <2>1, <2>2
<1>9. CASE LeaveRZOwner(t)
  <2> USE <1>9 DEF LeaveRZOwner
  <2>1. CountIs(n)'
    BY DEF IInv, TypeOK, TokenInv, ThreadInv, InsideInv, Inside, Owed, Leaving, CountIs, Share, InTransit
  <2>2. Waiters' = Waiters
    BY DEF IInv, TypeOK, Waiters
  <2> QED BY <2>1, <2>2
<1>10. CASE LeaveRZCas(t)
  <2> USE <1>10 DEF LeaveRZCas, StillAlone, LeaveReturns
  <2>1. CountIs(n)'
    BY DEF IInv, TypeOK, TokenInv, ThreadInv, InsideInv, Inside, Owed, Leaving, CountIs, Share, InTransit
  <2>2. Waiters' = Waiters
    BY DEF IInv, TypeOK, Waiters
  <2> QED BY <2>1, <2>2
<1>11. CASE LeaveRZRaced(t)
  <2> USE <1>11 DEF LeaveRZRaced, StillAlone
  <2>1. CountIs(n)'
    BY DEF IInv, TypeOK, TokenInv, ThreadInv, InsideInv, Inside, Owed, Leaving, CountIs, Share, InTransit
  <2>2. Waiters' = Waiters
    BY DEF IInv, TypeOK, Waiters
  <2> QED BY <2>1, <2>2
<1>12. CASE LeaveRZRestore(t)
  <2> USE <1>12 DEF LeaveRZRestore
  <2>1. CountIs(n)'
    BY DEF IInv, TypeOK, TokenInv, ThreadInv, InsideInv, Inside, Owed, Leaving, CountIs, Share, InTransit
  <2>2. Waiters' = Waiters
    BY DEF IInv, TypeOK, Waiters
  <2> QED BY <2>1, <2>2
<1>13. CASE LeaveRZBusy(t)
  <2> USE <1>13 DEF LeaveRZBusy
  <2>1. CountIs(n)'
    BY DEF IInv, TypeOK, TokenInv, ThreadInv, InsideInv, Inside, Owed, Leaving, CountIs, Share, InTransit
  <2>2. Waiters' = Waiters
    BY DEF IInv, TypeOK, Waiters
  <2> QED BY <2>1, <2>2
<1>14. CASE LeaveRZQueue(t)
  <2> USE <1>14 DEF LeaveRZQueue, LeaveReturns
  <2>1. CountIs(n)'
    BY DEF IInv, TypeOK, TokenInv, ThreadInv, InsideInv, Inside, Owed, Leaving, CountIs, Share, InTransit
  <2>2. Waiters' = Waiters
    BY DEF IInv, TypeOK, Waiters
  <2> QED BY <2>1, <2>2
<1>15. CASE FFLeave(t)
  <2> USE <1>15 DEF FFLeave
  <2>1. CountIs(n)'
    BY DEF IInv, TypeOK, TokenInv, ThreadInv, InsideInv, Inside, Owed, Leaving, CountIs, Share, InTransit
  <2>2. Waiters' = Waiters
    BY DEF IInv, TypeOK, Waiters
  <2> QED BY <2>1, <2>2
<1>16. CASE FFDone(t)
  <2> USE <1>16 DEF FFDone, EmptyQueue
  <2>1. CountIs(n)'
    BY DEF IInv, TypeOK, TokenInv, ThreadInv, InsideInv, Inside, Owed, Leaving, CountIs, Share, InTransit
  <2>2. Waiters' = Waiters
    BY DEF IInv, TypeOK, Waiters
  <2> QED BY <2>1, <2>2
<1>17. CASE LeaveAllNext(t)
  <2> USE <1>17 DEF LeaveAllNext
  <2>1. CountIs(n)'
    BY DEF IInv, TypeOK, TokenInv, ThreadInv, InsideInv, Inside, Owed, Leaving, CountIs, Share, InTransit
  <2>2. Waiters' = Waiters
    BY DEF IInv, TypeOK, Waiters
  <2> QED BY <2>1, <2>2
<1>18. CASE LeaveAllDone(t)
  <2> USE <1>18 DEF LeaveAllDone
  <2>1. CountIs(n)'
    BY DEF IInv, TypeOK, TokenInv, ThreadInv, InsideInv, Inside, Owed, Leaving, CountIs, Share, InTransit
  <2>2. Waiters' = Waiters
    BY DEF IInv, TypeOK, Waiters
  <2> QED BY <2>1, <2>2
<1> QED BY <1>1, <1>2, <1>3, <1>4, <1>5, <1>6, <1>7, <1>8, <1>9, <1>10, <1>11, <1>12, <1>13, <1>14, <1>15, <1>16, <1>17, <1>18 DEF LeaveStep

\* What a client decides on does not touch cLockers.
LEMMA ClientStepCounts ==
    ASSUME IInv, NEW n \in Nat, CountIs(n), NEW t \in Threads, ClientStep(t)
    PROVE  CountIs(n)' /\ Waiters' = Waiters
<1> USE DEF Goto, lockVars, exitVars, ctxVars, callVars
<1>1. CASE EnterCall(t)
  <2> USE <1>1 DEF EnterCall
  <2>1. CountIs(n)'
    BY DEF IInv, TypeOK, TokenInv, ThreadInv, InsideInv, Inside, Owed, Leaving, CountIs, Share, InTransit
  <2>2. Waiters' = Waiters
    BY DEF IInv, TypeOK, Waiters
  <2> QED BY <2>1, <2>2
<1>2. CASE LeaveCall(t)
  <2> USE <1>2 DEF LeaveCall
  <2>1. CountIs(n)'
    BY DEF IInv, TypeOK, TokenInv, ThreadInv, InsideInv, Inside, Owed, Leaving, CountIs, Share, InTransit
  <2>2. Waiters' = Waiters
    BY DEF IInv, TypeOK, Waiters
  <2> QED BY <2>1, <2>2
<1>3. CASE YieldCall(t)
  <2> USE <1>3 DEF YieldCall
  <2>1. CountIs(n)'
    BY DEF IInv, TypeOK, TokenInv, ThreadInv, InsideInv, Inside, Owed, Leaving, CountIs, Share, InTransit
  <2>2. Waiters' = Waiters
    BY DEF IInv, TypeOK, Waiters
  <2> QED BY <2>1, <2>2
<1>4. CASE LeaveAllCall(t)
  <2> USE <1>4 DEF LeaveAllCall
  <2>1. CountIs(n)'
    BY DEF IInv, TypeOK, TokenInv, ThreadInv, InsideInv, Inside, Owed, Leaving, CountIs, Share, InTransit
  <2>2. Waiters' = Waiters
    BY DEF IInv, TypeOK, Waiters
  <2> QED BY <2>1, <2>2
<1>5. CASE ScheduleExitEvent(t)
  <2> USE <1>5 DEF ScheduleExitEvent
  <2>1. CountIs(n)'
    BY DEF IInv, TypeOK, TokenInv, ThreadInv, InsideInv, Inside, Owed, Leaving, CountIs, Share, InTransit
  <2>2. Waiters' = Waiters
    BY DEF IInv, TypeOK, Waiters
  <2> QED BY <2>1, <2>2
<1>6. CASE SwitchContext(t)
  <2> USE <1>6 DEF SwitchContext
  <2>1. CountIs(n)'
    BY DEF IInv, TypeOK, TokenInv, ThreadInv, InsideInv, Inside, Owed, Leaving, CountIs, Share, InTransit
  <2>2. Waiters' = Waiters
    BY DEF IInv, TypeOK, Waiters
  <2> QED BY <2>1, <2>2
<1>7. CASE ExitToRing3(t)
  <2> USE <1>7 DEF ExitToRing3, ArriveInRing3
  <2>1. CountIs(n)'
    BY DEF IInv, TypeOK, TokenInv, ThreadInv, InsideInv, Inside, Owed, Leaving, CountIs, Share, InTransit
  <2>2. Waiters' = Waiters
    BY DEF IInv, TypeOK, Waiters
  <2> QED BY <2>1, <2>2
<1>8. CASE CallRing3(t)
  <2> USE <1>8 DEF CallRing3, ArriveInRing3
  <2>1. CountIs(n)'
    BY DEF IInv, TypeOK, TokenInv, ThreadInv, InsideInv, Inside, Owed, Leaving, CountIs, Share, InTransit
  <2>2. Waiters' = Waiters
    BY DEF IInv, TypeOK, Waiters
  <2> QED BY <2>1, <2>2
<1>9. CASE ReturnFromRing3(t)
  <2> USE <1>9 DEF ReturnFromRing3
  <2>1. CountIs(n)'
    BY DEF IInv, TypeOK, TokenInv, ThreadInv, InsideInv, Inside, Owed, Leaving, CountIs, Share, InTransit
  <2>2. Waiters' = Waiters
    BY DEF IInv, TypeOK, Waiters
  <2> QED BY <2>1, <2>2
<1> QED BY <1>1, <1>2, <1>3, <1>4, <1>5, <1>6, <1>7, <1>8, <1>9 DEF ClientStep

\* The two steps that change the number of waiters: one announces itself and waits
\* (or finds the section free), one takes the signal and is inside.
LEMMA WaitStepCounts ==
    ASSUME IInv, NEW n \in Nat, CountIs(n), NEW t \in Threads,
           ContendedInc(t) \/ ContendedWake(t)
    PROVE  \/ CountIs(n)' /\ Waiters' = Waiters
           \/ CountIs(n + 1)' /\ t \notin Waiters /\ Waiters' = Waiters \cup {t}
           \/ CountIs(n - 1)' /\ t \in Waiters /\ Waiters' = Waiters \ {t}
<1> USE DEF Goto, callVars
<1>1. CASE ContendedInc(t) /\ cLockers' = 0
  <2> USE <1>1 DEF ContendedInc
  <2>1. CountIs(n)'
    BY DEF IInv, TypeOK, TokenInv, ThreadInv, Inside, Owed, CountIs, Share, InTransit
  <2>2. Waiters' = Waiters
    BY DEF IInv, TypeOK, Waiters
  <2> QED BY <2>1, <2>2
<1>2. CASE ContendedInc(t) /\ cLockers' # 0
  <2> USE <1>2 DEF ContendedInc
  <2>1. ~Inside(t) /\ ~Inside(t)'
    BY DEF IInv, TypeOK, ThreadInv, Inside, Owed
  <2>2. ASSUME NEW u \in Threads \ {t}
        PROVE  (Inside(u)' <=> Inside(u)) /\ Share(u)' = Share(u) /\ Share(u) \in Nat
    BY <2>2 DEF IInv, TypeOK, Inside, Owed, Share, InTransit
  <2>3. cLockers \in Int /\ cLockers' = cLockers + 1
    BY DEF IInv, TypeOK
  <2>4. CountIs(n + 1)'
    BY <2>1, <2>2, <2>3 DEF CountIs
  <2>5. t \notin Waiters /\ Waiters' = Waiters \cup {t}
    BY DEF IInv, TypeOK, Waiters
  <2> QED BY <2>4, <2>5
<1>3. CASE ContendedWake(t)
  <2> USE <1>3 DEF ContendedWake, WokenGoesTo
  <2>1. \A u \in Threads : ~Inside(u)
    BY DEF IInv, TokenInv
  <2>2. hold[t] = 0 /\ cQueuedCritSectLeaves[t] = 0
    BY DEF IInv, ThreadInv
  <2>3. Inside(t)' /\ Share(t)' = 1
    BY <2>2 DEF IInv, TypeOK, Inside, Owed, Share, InTransit
  <2>4. ASSUME NEW u \in Threads \ {t} PROVE ~Inside(u)'
    BY <2>1, <2>4 DEF IInv, TypeOK, Inside, Owed
  <2>5. CountIs(n - 1)'
    BY <2>1, <2>3, <2>4 DEF CountIs, IInv, TypeOK
  <2>6. t \in Waiters /\ Waiters' = Waiters \ {t}
    BY DEF IInv, TypeOK, Waiters
  <2> QED BY <2>5, <2>6
<1> QED BY <1>1, <1>2, <1>3

\* Waiters are threads, so they can be counted.
LEMMA WaitersFinite == IsFiniteSet(Waiters) /\ Cardinality(Waiters) \in Nat
<1>1. Waiters \in SUBSET Threads
  BY DEF Waiters
<1> QED BY <1>1, FiniteAssumption, FS_Subset, FS_CardinalityType

\* Every step of the system preserves the count.
LEMMA CountStep == IInv /\ IInv' /\ CountInv /\ [Next]_vars => CountInv'
<1> SUFFICES ASSUME IInv, IInv', CountInv, [Next]_vars PROVE CountInv'
  OBVIOUS
<1>1. PICK n \in Nat : n = Cardinality(Waiters)
  BY WaitersFinite
<1>2. CountIs(n)
  BY <1>1 DEF CountInv
<1>3. ASSUME CountIs(n)', Waiters' = Waiters PROVE CountInv'
  BY <1>1, <1>3 DEF CountInv
<1>4. ASSUME NEW t \in Threads, EnterStep(t) PROVE CountInv'
  <2>1. CASE ~ContendedInc(t) /\ ~ContendedWake(t)
    BY <1>2, <1>3, <1>4, <2>1, EnterStepCounts
  <2>2. CASE ContendedInc(t) \/ ContendedWake(t)
    <3>1. CASE CountIs(n)' /\ Waiters' = Waiters
      BY <1>3, <3>1
    <3>2. CASE CountIs(n + 1)' /\ t \notin Waiters /\ Waiters' = Waiters \cup {t}
      <4>1. Cardinality(Waiters') = n + 1
        BY <1>1, <3>2, WaitersFinite, FS_AddElement
      <4> QED BY <3>2, <4>1 DEF CountInv
    <3>3. CASE CountIs(n - 1)' /\ t \in Waiters /\ Waiters' = Waiters \ {t}
      <4>1. Cardinality(Waiters') = n - 1
        BY <1>1, <3>3, WaitersFinite, FS_RemoveElement
      <4> QED BY <3>3, <4>1 DEF CountInv
    <3> QED BY <1>2, <2>2, <3>1, <3>2, <3>3, WaitStepCounts
  <2> QED BY <2>1, <2>2
<1>5. ASSUME NEW t \in Threads, LeaveStep(t) PROVE CountInv'
  BY <1>2, <1>3, <1>5, LeaveStepCounts
<1>6. ASSUME NEW t \in Threads, ClientStep(t) PROVE CountInv'
  BY <1>2, <1>3, <1>6, ClientStepCounts
<1>7. CASE ExitSemWait \/ Delete \/ UNCHANGED vars
  <2>1. UNCHANGED <<cLockers, pc, caller, cQueuedCritSectLeaves, hold>>
    BY <1>7 DEF ExitSemWait, Delete, lockVars, callVars, ctxVars, vars
  <2> QED BY <1>2, <1>3, <2>1 DEF CountIs, Inside, Owed, Share, InTransit, Waiters
<1>8. CASE InitAgain
  <2>1. cLockers = -1 /\ cLockers' = -1
    BY <1>8 DEF InitAgain, IInv, TokenInv
  <2>2. UNCHANGED <<pc, caller, cQueuedCritSectLeaves, hold>>
    BY <1>8 DEF InitAgain
  <2> QED BY <1>2, <1>3, <2>1, <2>2 DEF CountIs, Inside, Owed, Share, InTransit, Waiters
<1> QED BY <1>4, <1>5, <1>6, <1>7, <1>8 DEF Next

\* The count holds in every reachable state.
LEMMA CountInvariance == Spec => []CountInv
<1>1. Init => CountInv
  <2> SUFFICES ASSUME Init PROVE CountInv
    OBVIOUS
  <2>1. \A t \in Threads : ~Inside(t)
    BY DEF Init, Inside, Owed
  <2>2. Waiters = {}
    BY DEF Init, Waiters
  <2> QED BY <2>1, <2>2, FS_EmptySet DEF Init, CountInv, CountIs
<1> QED BY <1>1, CountStep, Invariance, PTL DEF Spec

\* While somebody waits the section is not free.
LEMMA WaitersKeepIt == ASSUME IInv, CountInv, Waiters # {} PROVE cLockers # -1
<1>1. Cardinality(Waiters) \in Nat /\ Cardinality(Waiters) # 0
  BY WaitersFinite, FS_EmptySet
<1>2. CASE \E t \in Threads : Inside(t)
  BY <1>2 DEF IInv, TokenInv
<1>3. CASE \A t \in Threads : ~Inside(t)
  BY <1>1, <1>3 DEF CountInv, CountIs
<1> QED BY <1>2, <1>3

\* cLockers is exactly the waiters and the share of the one thread inside, on every
\* path through pdmCritSectEnter, PDMCritSectLeave, the queued leave and its replay; a
\* signalled semaphore always has a taker.
THEOREM LockersAlwaysMatch == Spec => []LockersMatch
<1>1. IInv /\ CountInv => LockersMatch
  <2> SUFFICES ASSUME IInv, CountInv PROVE LockersMatch
    OBVIOUS
  <2>1. ASSUME NEW t \in Threads PROVE Share(t) \in Nat /\ (Share(t) > 0 => Inside(t))
    BY <2>1 DEF IInv, TypeOK, Share, InTransit, Owed, Inside
  <2>2. ASSUME NEW t \in Threads, Share(t) > 0
        PROVE  /\ cLockers + 1 = Share(t) + Cardinality(Waiters)
               /\ \A u \in Threads \ {t} : Share(u) = 0
    BY <2>1, <2>2 DEF CountInv, CountIs, IInv, TokenInv
  <2>3. ASSUME \A t \in Threads : Share(t) = 0 PROVE cLockers + 1 = Cardinality(Waiters)
    <3>1. CASE \A t \in Threads : ~Inside(t)
      BY <3>1 DEF CountInv, CountIs
    <3>2. CASE \E t \in Threads : Inside(t)
      BY <2>3, <3>2, WaitersFinite DEF CountInv, CountIs
    <3> QED BY <3>1, <3>2
  <2>4. ASSUME EventSem PROVE Waiters # {} /\ \A t \in Threads : Share(t) = 0
    <3>1. \A t \in Threads : ~Inside(t)
      BY <2>4 DEF IInv, TokenInv
    <3>2. cLockers \in Int /\ cLockers # -1
      BY <2>4 DEF IInv, TypeOK, TokenInv
    <3>3. Waiters # {}
      BY <3>1, <3>2, FS_EmptySet DEF CountInv, CountIs
    <3> QED BY <2>1, <3>1, <3>3
  <2> QED BY <2>2, <2>3, <2>4 DEF LockersMatch
<1> QED BY <1>1, Invariance, CountInvariance, PTL

\* The compare-exchange of a newcomer, and the increment in
\* pdmR3R0CritSectEnterContended, win the section only if nobody waits for it.
THEOREM NeverBarges == Spec => NoBarging
<1>1. IInv /\ CountInv /\ [Next]_vars =>
        [\A t \in Threads :
           (pc[t] # "first1" /\ pc'[t] = "first1" /\ \E u \in Threads \ {t} : pc[u] = "wait")
           => pc[t] = "wait"]_vars
  <2> SUFFICES ASSUME IInv, CountInv, Next, NEW t \in Threads, pc[t] # "first1",
                      pc'[t] = "first1", NEW u \in Threads \ {t}, pc[u] = "wait"
               PROVE  pc[t] = "wait"
    OBVIOUS
  <2>1. cLockers # -1
    BY WaitersKeepIt DEF Waiters
  <2>2. CASE CasWins(t) \/ ContendedInc(t) \/ ContendedWake(t)
    BY <2>1, <2>2 DEF CasWins, IsFree, ContendedInc, ContendedWake, IInv, TypeOK, Goto
  <2> USE DEF IInv, TypeOK, Pcs, Goto, vars, lockVars, callVars, exitVars, ctxVars
  <2>3. ASSUME NEW v \in Threads, EnterStep(v), v # t \/ ~(CasWins(v) \/ ContendedInc(v) \/ ContendedWake(v))
        PROVE  FALSE
    BY <2>3 DEF EnterStep, CasWins, CasFails, NestLockers, NestNestings, EnterReturns,
       SpinEndsBlocking, SpinEndsBusy, SpinEndsCallRing3, ContendedInc, ContendedWake,
       EnterFirstNestings, EnterFirstOwner
  <2>4. ASSUME NEW v \in Threads, LeaveStep(v) PROVE FALSE
    BY <2>4 DEF LeaveStep, LeaveNestings, LeaveNestedLockers, LeaveOwner, LeaveReturns,
       LeaveUnnest, LeaveLockers, LeaveSignal, LeaveExitEvent, LeaveRZTry, LeaveRZOwner,
       LeaveRZCas, LeaveRZRaced, LeaveRZRestore, LeaveRZBusy, LeaveRZQueue, FFLeave,
       FFDone, LeaveAllNext, LeaveAllDone
  <2>5. ASSUME NEW v \in Threads, ClientStep(v) PROVE FALSE
    BY <2>5 DEF ClientStep, EnterCall, LeaveCall, YieldCall, LeaveAllCall,
       ScheduleExitEvent, SwitchContext, ExitToRing3, CallRing3, ReturnFromRing3, ArriveInRing3
  <2>6. ASSUME ExitSemWait \/ Delete \/ InitAgain PROVE FALSE
    BY <2>6 DEF ExitSemWait, Delete, InitAgain
  <2> QED BY <2>2, <2>3, <2>4, <2>5, <2>6 DEF Next
<1> QED BY <1>1, Invariance, CountInvariance, PTL DEF Spec, NoBarging

\* Entering leaves the pending-unlock flag alone.
LEMMA EnterStepPending ==
    ASSUME IInv, PendingInv, NEW t \in Threads, EnterStep(t) PROVE PendingInv'
<1> USE DEF Goto, lockVars, exitVars, ctxVars, callVars, IInv, TypeOK, TokenInv, ThreadInv,
          InsideInv, Inside, Owed, Leaving, PendingInv
<1>1. CASE CasWins(t)
  BY <1>1 DEF CasWins, IsFree
<1>2. CASE CasFails(t)
  BY <1>2 DEF CasFails, IsFree
<1>3. CASE NestLockers(t)
  BY <1>3 DEF NestLockers
<1>4. CASE NestNestings(t)
  BY <1>4 DEF NestNestings, EnterReturns
<1>5. CASE SpinEndsBlocking(t)
  BY <1>5 DEF SpinEndsBlocking, IsFree
<1>6. CASE SpinEndsBusy(t)
  BY <1>6 DEF SpinEndsBusy, IsFree
<1>7. CASE SpinEndsCallRing3(t)
  BY <1>7 DEF SpinEndsCallRing3, IsFree
<1>8. CASE ContendedInc(t)
  BY <1>8 DEF ContendedInc
<1>9. CASE ContendedWake(t)
  BY <1>9 DEF ContendedWake, WokenGoesTo
<1>10. CASE EnterFirstNestings(t)
  BY <1>10 DEF EnterFirstNestings
<1>11. CASE EnterFirstOwner(t)
  BY <1>11 DEF EnterFirstOwner, EnterReturns
<1> QED BY <1>1, <1>2, <1>3, <1>4, <1>5, <1>6, <1>7, <1>8, <1>9, <1>10, <1>11 DEF EnterStep

\* The flag is set with the queued leave, and cleared only by who replays it or has
\* none queued.
LEMMA LeaveStepPending ==
    ASSUME IInv, PendingInv, NEW t \in Threads, LeaveStep(t) PROVE PendingInv'
<1> USE DEF Goto, lockVars, exitVars, ctxVars, callVars, IInv, TypeOK, TokenInv, ThreadInv,
          InsideInv, Inside, Owed, Leaving, PendingInv
<1>1. CASE LeaveNestings(t)
  BY <1>1 DEF LeaveNestings
<1>2. CASE LeaveNestedLockers(t)
  BY <1>2 DEF LeaveNestedLockers, LeaveReturns
<1>3. CASE LeaveOwner(t)
  BY <1>3 DEF LeaveOwner
<1>4. CASE LeaveUnnest(t)
  BY <1>4 DEF LeaveUnnest
<1>5. CASE LeaveLockers(t)
  BY <1>5 DEF LeaveLockers, WaitersLeft
<1>6. CASE LeaveSignal(t)
  BY <1>6 DEF LeaveSignal
<1>7. CASE LeaveExitEvent(t)
  BY <1>7 DEF LeaveExitEvent, LeaveReturns
<1>8. CASE LeaveRZTry(t)
  BY <1>8 DEF LeaveRZTry
<1>9. CASE LeaveRZOwner(t)
  BY <1>9 DEF LeaveRZOwner
<1>10. CASE LeaveRZCas(t)
  BY <1>10 DEF LeaveRZCas, StillAlone, LeaveReturns
<1>11. CASE LeaveRZRaced(t)
  BY <1>11 DEF LeaveRZRaced, StillAlone
<1>12. CASE LeaveRZRestore(t)
  BY <1>12 DEF LeaveRZRestore
<1>13. CASE LeaveRZBusy(t)
  BY <1>13 DEF LeaveRZBusy
<1>14. CASE LeaveRZQueue(t)
  BY <1>14 DEF LeaveRZQueue, LeaveReturns
<1>15. CASE FFLeave(t)
  BY <1>15 DEF FFLeave
<1>16. CASE FFDone(t)
  BY <1>16 DEF FFDone, EmptyQueue
<1>17. CASE LeaveAllNext(t)
  BY <1>17 DEF LeaveAllNext
<1>18. CASE LeaveAllDone(t)
  BY <1>18 DEF LeaveAllDone
<1> QED BY <1>1, <1>2, <1>3, <1>4, <1>5, <1>6, <1>7, <1>8, <1>9, <1>10, <1>11, <1>12, <1>13, <1>14, <1>15, <1>16, <1>17, <1>18 DEF LeaveStep

\* The client's own steps do not touch the flag.
LEMMA ClientStepPending ==
    ASSUME IInv, PendingInv, NEW t \in Threads, ClientStep(t) PROVE PendingInv'
<1> USE DEF Goto, lockVars, exitVars, ctxVars, callVars, IInv, TypeOK, TokenInv, ThreadInv,
          InsideInv, Inside, Owed, Leaving, PendingInv
<1>1. CASE EnterCall(t)
  BY <1>1 DEF EnterCall
<1>2. CASE LeaveCall(t)
  BY <1>2 DEF LeaveCall
<1>3. CASE YieldCall(t)
  BY <1>3 DEF YieldCall
<1>4. CASE LeaveAllCall(t)
  BY <1>4 DEF LeaveAllCall
<1>5. CASE ScheduleExitEvent(t)
  BY <1>5 DEF ScheduleExitEvent
<1>6. CASE SwitchContext(t)
  BY <1>6 DEF SwitchContext
<1>7. CASE ExitToRing3(t)
  BY <1>7 DEF ExitToRing3, ArriveInRing3
<1>8. CASE CallRing3(t)
  BY <1>8 DEF CallRing3, ArriveInRing3
<1>9. CASE ReturnFromRing3(t)
  BY <1>9 DEF ReturnFromRing3
<1> QED BY <1>1, <1>2, <1>3, <1>4, <1>5, <1>6, <1>7, <1>8, <1>9 DEF ClientStep

\* "Checks the caller is the owner of the critical section": PDMCritSectIsOwner
\* never takes a thread with only a queued leave for an owner, nor denies a holder
\* but for a flag that outlived its leave.
THEOREM IsOwnerAlwaysSound == Spec => []IsOwnerSound
<1>1. Init => PendingInv
  BY DEF Init, PendingInv, Owed
<1>2. IInv /\ PendingInv /\ [Next]_vars => PendingInv'
  <2> SUFFICES ASSUME IInv, PendingInv, [Next]_vars PROVE PendingInv'
    OBVIOUS
  <2>1. CASE ExitSemWait \/ Delete \/ UNCHANGED vars
    BY <2>1 DEF ExitSemWait, Delete, vars, lockVars, callVars, ctxVars, PendingInv, Owed
  <2>2. CASE InitAgain
    BY <2>2 DEF InitAgain, IInv, TokenInv, Inside, PendingInv, Owed
  <2> QED BY <2>1, <2>2, EnterStepPending, LeaveStepPending, ClientStepPending DEF Next
<1>3. IInv /\ PendingInv => IsOwnerSound
  <2> SUFFICES ASSUME IInv, PendingInv, NEW t \in Threads, pc[t] = "idle"
               PROVE  /\ PDMCritSectIsOwner(t) => hold[t] > 0
                      /\ hold[t] > 0 /\ ~PDMCritSectIsOwner(t) =>
                            ctx[t] # "R3" /\ fPendingUnlock /\ cQueuedCritSectLeaves[t] = 0
    BY DEF IsOwnerSound
  <2>1. Owed(t) = cQueuedCritSectLeaves[t] /\ cQueuedCritSectLeaves[t] \in {0, 1} /\ hold[t] \in Nat
    BY DEF IInv, TypeOK, ThreadInv, Owed
  <2>2. hold[t] > 0 \/ NativeThreadOwner = t => Inside(t)
    BY DEF IInv, TokenInv, Inside
  <2>3. Inside(t) => NativeThreadOwner = t /\ cNestings = hold[t] + Owed(t) /\ cNestings >= 1
    BY DEF IInv, InsideInv
  <2>4. cQueuedCritSectLeaves[t] = 1 => ctx[t] # "R3" /\ fPendingUnlock
    BY <2>1 DEF IInv, ThreadInv, PendingInv
  <2> QED BY <2>1, <2>2, <2>3, <2>4 DEF PDMCritSectIsOwner
<1> QED BY <1>1, <1>2, <1>3, Invariance, PTL DEF Spec

=============================================================================
