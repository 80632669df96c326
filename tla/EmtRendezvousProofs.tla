------------------------ MODULE EmtRendezvousProofs -------------------------
(* Proofs about EmtRendezvous: for any number of EMTs, flags, codes and calls. *)
EXTENDS EmtRendezvous, FiniteSetTheorems, TLAPS

-----------------------------------------------------------------------------
(* The inductive invariant *)

\* Where an EMT is: outside every rendezvous, not yet or no longer in this one; through
\* with this one; in it; past its turn; in its turn; in the callback.
Out(e) == pc[e] \in {"run", "spin", "finish", "leave"} \/ (pc[e] = "prio" /\ arg[e] = NIL)
Back(e) == Out(e) \/ pc[e] = "wake"
Inside(e) == ~Out(e) /\ pc[e] # "enter"
HasDone(e) == Back(e) \/ pc[e] \in {"signal", "waitdone", "return", "count", "waitcaller"}
InTurn(e) == Working(e) /\ pc[e] # "signal"
InCallback(e) == pc[e] = "callback" \/ (pc[e] = "prio" /\ arg[e] # NIL)

\* The sets the counters count.
Insiders == {e \in Emts : Inside(e)}
Finishers == {e \in Emts : HasDone(e)}
Leavers == {e \in Emts : Back(e)}
Runners == {e \in Emts : ran[e] # NIL}

\* The stages of a rendezvous: none, or over; about to begin; on: the EMTs come in, the
\* last of them is in, they work and leave.
Closed == u32RendezvousLock = NIL \/ pc[u32RendezvousLock] \in {"slate", "collect", "unlock"}
Opening == u32RendezvousLock # NIL /\ pc[u32RendezvousLock] = "raise"
Active == u32RendezvousLock # NIL /\ pc[u32RendezvousLock] \notin {"slate", "raise", "collect", "unlock"}
ComingIn == Active /\ cEntered # cCpus
Starting == Active /\ cEntered = cCpus /\ ff
AtWork == Active /\ cEntered = cCpus /\ ~ff

NoHistory == ran = [e \in Emts |-> NIL] /\ cRan = 0 /\ firstError = 0

Clean ==
    /\ ordered = {} /\ ~oneByOne /\ ~allAtOnce /\ ~done /\ ~doneCaller
    /\ cDone = 0 /\ cReturned = 0 /\ status = 0 /\ NoHistory

\* What holds for an EMT by where it is: its flags, the callback it was given, and
\* what only the caller, or only the others, do.
LocalInv(e) ==
    /\ fInRendezvous[e] <=> pc[e] \notin {"run", "spin", "slate"}
    /\ pc[e] = "prio" => (fSaved[e] <=> arg[e] # NIL)
    /\ pc[e] \in {"run", "spin", "slate", "raise", "unlock", "finish"} => arg[e] = NIL
    /\ (pc[e] = "enter" \/ Inside(e)) /\ pc[e] \notin {"slate", "raise", "unlock"} =>
           u32RendezvousLock # NIL /\ arg[e] = u32RendezvousLock
    /\ pc[e] \in {"slate", "raise", "waitcaller", "collect", "unlock"} => u32RendezvousLock = e
    /\ pc[e] \in {"waitdone", "return", "count", "wake"} \/ Out(e) => u32RendezvousLock # e
    /\ pc[e] \in {"slate", "spin"} \/ back[e] = "spin" => want[e] \in AllFlags
    /\ (Out(e) /\ pc[e] # "leave") \/ u32RendezvousLock = e => back[e] = "run"

\* No rendezvous: nothing is left of the last one but the two manual-reset events.
ClosedInv ==
    /\ Closed => ~ff /\ ordered = {} /\ ~oneByOne /\ ~doneCaller
    /\ ~Active => \A e \in Emts : e = u32RendezvousLock \/ Out(e)
    /\ u32RendezvousLock = NIL \/ pc[u32RendezvousLock] \in {"slate", "unlock"} => NoHistory
    /\ Opening => ~ff /\ Clean /\ cEntered = 0
    /\ u32RendezvousLock # NIL /\ pc[u32RendezvousLock] \notin {"slate", "unlock"} =>
           fFlags \in AllFlags /\ pfn = u32RendezvousLock

\* The EMTs come in.
GatherInv ==
    ComingIn =>
        /\ ff /\ Clean
        /\ \A e \in Emts : Out(e) \/ pc[e] \in {"enter", Waits(e)}
        /\ cEntered = Cardinality(Insiders)

\* The last of them is about to start the callbacks.
LastInv ==
    Starting => Clean /\ \E e \in Emts : pc[e] = "lastin" /\ \A f \in Emts \ {e} : pc[f] = Waits(f)

\* The callbacks: whose turn it is.
TurnInv ==
    /\ \A e \in Emts : pc[e] = "signal" => mine[e] \in 1 .. cDone
    /\ fFlags.type # "ONCE" =>
          /\ cDone = Cardinality(Finishers)
          /\ done => cDone = cCpus
    /\ fFlags.type = "ONCE" =>
          /\ cDone = IF \E e \in Emts : InTurn(e) THEN 0 ELSE 1
          /\ \A e \in Emts : pc[e] # "turn"
    /\ fFlags.type # "ALL_AT_ONCE" =>
          /\ \A e, f \in Emts : Working(e) /\ Working(f) => e = f
          /\ \A e \in Emts : Working(e) => ordered = {} /\ ~oneByOne /\ ~done
          /\ \A e \in Emts : pc[e] = "signal" => mine[e] = cDone
    /\ oneByOne => fFlags.type = "ONE_BY_ONE" /\ cDone # cCpus
    /\ ordered # {} => Ordered /\ cDone # cCpus /\ ordered = {Turn(cDone + 1)}
    /\ Ordered => \A e \in Emts : Working(e) => e = Turn(IF pc[e] = "signal" THEN cDone ELSE cDone + 1)

\* They leave when the work is over; the last one out wakes the caller.
ReturnInv ==
    /\ \A e \in Emts : Back(e) \/ pc[e] \in {"return", "count"} => done
    /\ cReturned = Cardinality(Leavers)
    /\ \A e \in Emts : pc[e] = "wake" => cReturned = cCpus - 1 /\ ~doneCaller
    /\ \A e, f \in Emts : pc[e] = "wake" /\ pc[f] = "wake" => e = f
    /\ doneCaller => cReturned = cCpus - 1

WorkInv ==
    AtWork =>
        /\ \A e \in Emts : pc[e] \notin {"enter", "lastin"}
        /\ TurnInv /\ ReturnInv

Control == (\A e \in Emts : LocalInv(e)) /\ ClosedInv /\ GatherInv /\ LastInv /\ WorkInv

\* From the first callback until the caller has collected.
Running == AtWork \/ (u32RendezvousLock # NIL /\ pc[u32RendezvousLock] = "collect")

\* Before and after the callback on an EMT; its code is merged into the status.
NotRun(e) == pc[e] \in {"turn", "check"} \/ InCallback(e)
Did(e) == HasDone(e) \/ pc[e] \in {"merge", "done", "collect"}
IsMerged(e) == ran[e] # NIL /\ pc[e] # "merge"

\* On whom the callback has run.
RanInv ==
    /\ cRan = Cardinality(Runners)
    /\ \A e \in Emts : NotRun(e) => ran[e] = NIL
    /\ fFlags.type = "ONCE" => cRan = IF \E e \in Emts : pc[e] = "check" \/ InCallback(e) THEN 0 ELSE 1
    /\ fFlags.type # "ONCE" => \A e \in Emts : Did(e) => ran[e] # NIL \/ (fFlags.stop /\ status < 0)
    /\ fFlags.stop =>
          /\ \A e, f \in Emts : ran[e] # NIL /\ ran[e] < 0 /\ ran[f] # NIL /\ ran[f] < 0 => e = f
          /\ \A e \in Emts : InCallback(e) => ~(status < 0)

\* What has become of their codes.
StatusInv ==
    /\ \A e \in Emts : pc[e] = "merge" => ran[e] # NIL /\ rc[e] = ran[e] /\ rc[e] # 0
    /\ firstError = 0 => \A e \in Emts : ran[e] # NIL => ran[e] >= 0
    /\ firstError # 0 => firstError < 0 /\ \E e \in Emts : ran[e] # NIL /\ ran[e] = firstError
    /\ status = 0 => \A e \in Emts : IsMerged(e) => ran[e] = 0
    /\ status # 0 => \E e \in Emts : IsMerged(e) /\ ran[e] = status
    /\ status > 0 => \A e \in Emts : IsMerged(e) => ran[e] = 0 \/ ran[e] >= status
    /\ status < 0 /\ fFlags.type # "ALL_AT_ONCE" => status = firstError

\* What those who leave have read.
AgreeInv == \A e \in Emts : pc[e] \in {"count", "wake", "leave"} => rc[e] = NonFailure(status)

HistoryInv ==
    /\ ran \in [Emts -> AllCodes \cup {NIL}] /\ firstError \in AllCodes
    /\ Running => RanInv /\ StatusInv /\ AgreeInv

IInv == TypeOK /\ Control /\ HistoryInv
-----------------------------------------------------------------------------
(* Counting *)

\* There are cCpus EMTs; NIL is none of them and no code.
LEMMA Basics ==
    /\ IsFiniteSet(Emts) /\ Cardinality(Emts) = cCpus /\ Emts \subseteq Int /\ NIL \notin Emts
    /\ AllCodes \subseteq Int /\ NIL \notin AllCodes /\ 0 \in AllCodes /\ VERR_DEADLOCK \in AllCodes
    /\ \A e \in Emts : Codes[e] \subseteq AllCodes /\ Flags[e] \subseteq AllFlags
    /\ cCpus \in Nat /\ cCpus >= 2
<1>1. cCpus \in Nat /\ cCpus >= 2
  BY CpusAssumption
<1>2. IsFiniteSet(Emts) /\ Cardinality(Emts) = cCpus
  <2>1. 0 \in Int /\ cCpus - 1 \in Int /\ ~(0 > cCpus - 1) /\ (cCpus - 1) - 0 + 1 = cCpus
    BY <1>1
  <2> QED BY <2>1, FS_Interval, Zenon DEF Emts
<1>3. Emts \subseteq Int /\ NIL \notin Emts
  BY <1>1, NilAssumption DEF Emts
<1>4. \A e \in Emts : Codes[e] \subseteq AllCodes /\ Flags[e] \subseteq AllFlags
  BY FlagsAssumption DEF AllCodes
<1>5. AllCodes \subseteq Int /\ 0 \in AllCodes /\ VERR_DEADLOCK \in AllCodes
  BY CodesAssumption DEF AllCodes, VERR_DEADLOCK
<1> QED BY <1>1, <1>2, <1>3, <1>4, <1>5, NilAssumption

\* Of a set of EMTs.
LEMMA Counts ==
    ASSUME NEW S \in SUBSET Emts
    PROVE  /\ IsFiniteSet(S) /\ Cardinality(S) \in 0 .. cCpus
           /\ Cardinality(S) = 0 <=> S = {}
           /\ Cardinality(S) = cCpus => S = Emts
           /\ \A e \in Emts \ S : Cardinality(S \cup {e}) = Cardinality(S) + 1
           /\ \A e \in Emts \ S : Cardinality(S) <= cCpus - 1 /\ (Cardinality(S) = cCpus - 1 => S = Emts \ {e})
<1>1. IsFiniteSet(S) /\ Cardinality(S) <= cCpus /\ (Cardinality(S) = cCpus => S = Emts)
  BY FS_Subset, Basics
<1>2. Cardinality(S) \in Nat
  BY <1>1, FS_CardinalityType
<1>3. Cardinality(S) = 0 <=> S = {}
  BY <1>1, FS_EmptySet
<1>4. ASSUME NEW e \in Emts \ S
      PROVE  /\ Cardinality(S \cup {e}) = Cardinality(S) + 1
             /\ Cardinality(S) <= cCpus - 1 /\ (Cardinality(S) = cCpus - 1 => S = Emts \ {e})
  <2>1. e \notin S /\ S \cup {e} \in SUBSET Emts
    OBVIOUS
  <2>2. Cardinality(S \cup {e}) = Cardinality(S) + 1
    BY <1>1, <2>1, FS_AddElement
  <2>3. Cardinality(S \cup {e}) <= cCpus /\ (Cardinality(S \cup {e}) = cCpus => S \cup {e} = Emts)
    BY <2>1, FS_Subset, Basics
  <2>4. Cardinality(S) = cCpus - 1 => Cardinality(S) + 1 = cCpus
    BY <1>2, Basics
  <2>5. S \cup {e} = Emts => S = Emts \ {e}
    BY <2>1
  <2>6. Cardinality(S) <= cCpus - 1
    BY <2>2, <2>3, <1>2, Basics
  <2> QED BY <2>2, <2>3, <2>4, <2>5, <2>6
<1>5. Cardinality(S) \in 0 .. cCpus
  BY <1>1, <1>2, Basics
<1> QED BY <1>1, <1>3, <1>4, <1>5, Zenon
-----------------------------------------------------------------------------
(* What a step leaves alone *)

Act(e) == Call(e) \/ BeginPriority(e) \/ Step(e)

\* Nobody else's variables change.
OthersStay(e) ==
    \A f \in Emts \ {e} :
        /\ pc'[f] = pc[f] /\ arg'[f] = arg[f] /\ back'[f] = back[f] /\ want'[f] = want[f]
        /\ mine'[f] = mine[f] /\ rc'[f] = rc[f] /\ fSaved'[f] = fSaved[f]
        /\ (fInRendezvous'[f] <=> fInRendezvous[f])

\* A step of one EMT leaves the others where they are.
LEMMA Frame ==
    ASSUME TypeOK, NEW e \in Emts, Act(e)
    PROVE  OthersStay(e)
<1>1. /\ fInRendezvous \in [Emts -> BOOLEAN] /\ fSaved \in [Emts -> BOOLEAN]
      /\ pc \in [Emts -> Labels] /\ back \in [Emts -> {"run", "spin"}]
      /\ want \in [Emts -> AllFlags \cup {NoFlags}] /\ arg \in [Emts -> Emts \cup {NIL}]
      /\ mine \in [Emts -> 0 .. cCpus] /\ rc \in [Emts -> AllCodes]
  BY DEF TypeOK
<1> SUFFICES ASSUME NEW f \in Emts \ {e}
             PROVE  /\ pc'[f] = pc[f] /\ arg'[f] = arg[f] /\ back'[f] = back[f] /\ want'[f] = want[f]
                    /\ mine'[f] = mine[f] /\ rc'[f] = rc[f] /\ fSaved'[f] = fSaved[f]
                    /\ (fInRendezvous'[f] <=> fInRendezvous[f])
  BY DEF OthersStay
<1>2. CASE Call(e)
  BY <1>1, <1>2 DEF Call, Go, globalVars, callVars, prioVars
<1>3. CASE SpinTake(e)
  BY <1>1, <1>3 DEF SpinTake, Go, globalVars, callVars, prioVars
<1>4. CASE NestedCall(e)
  BY <1>1, <1>4 DEF NestedCall, Go, globalVars, callVars, prioVars
<1>5. CASE ClearSlate(e)
  BY <1>1, <1>5 DEF ClearSlate, Go, globalVars, callVars, prioVars
<1>6. CASE RaiseFF(e)
  BY <1>1, <1>6 DEF RaiseFF, Go, globalVars, callVars, prioVars
<1>7. CASE CallerWoken(e)
  BY <1>1, <1>7 DEF CallerWoken, Go, globalVars, callVars, prioVars
<1>8. CASE Collect(e)
  BY <1>1, <1>8 DEF Collect, Go, globalVars, callVars, prioVars
<1>9. CASE Unlock(e)
  BY <1>1, <1>9 DEF Unlock, Go, globalVars, callVars, prioVars
<1>10. CASE Finish(e)
  BY <1>1, <1>10 DEF Finish, Go, globalVars, callVars, prioVars
<1>11. CASE ServeFF(e)
  BY <1>1, <1>11 DEF ServeFF, Go, globalVars, callVars, prioVars
<1>12. CASE LeaveFF(e)
  BY <1>1, <1>12 DEF LeaveFF, Go, globalVars, callVars, prioVars
<1>13. CASE Enter(e)
  BY <1>1, <1>13 DEF Enter, Go, globalVars, callVars, prioVars
<1>14. CASE LastIn(e)
  BY <1>1, <1>14 DEF LastIn, Go, globalVars, callVars, prioVars
<1>15. CASE TakeTurn(e)
  BY <1>1, <1>15 DEF TakeTurn, Go, globalVars, callVars, prioVars
<1>16. CASE Check(e)
  BY <1>1, <1>16 DEF Check, Go, globalVars, callVars, prioVars
<1>17. CASE Callback(e)
  BY <1>1, <1>17 DEF Callback, Go, globalVars, callVars, prioVars
<1>18. CASE Merge(e)
  BY <1>1, <1>18 DEF Merge, Go, globalVars, callVars, prioVars
<1>19. CASE Done(e)
  BY <1>1, <1>19 DEF Done, Go, globalVars, callVars, prioVars
<1>20. CASE Signal(e)
  BY <1>1, <1>20 DEF Signal, Go, globalVars, callVars, prioVars
<1>21. CASE WaitDone(e)
  BY <1>1, <1>21 DEF WaitDone, Go, globalVars, callVars, prioVars
<1>22. CASE ReadStatus(e)
  BY <1>1, <1>22 DEF ReadStatus, Go, globalVars, callVars, prioVars
<1>23. CASE CountReturn(e)
  BY <1>1, <1>23 DEF CountReturn, Go, globalVars, callVars, prioVars
<1>24. CASE WakeCaller(e)
  BY <1>1, <1>24 DEF WakeCaller, Go, globalVars, callVars, prioVars
<1>25. CASE BeginPriority(e)
  BY <1>1, <1>25 DEF BeginPriority, Go, globalVars, callVars, prioVars
<1>26. CASE EndPriority(e)
  BY <1>1, <1>26 DEF EndPriority, Go, globalVars, callVars, prioVars
<1> QED BY <1>2, <1>3, <1>4, <1>5, <1>6, <1>7, <1>8, <1>9, <1>10, <1>11, <1>12, <1>13, <1>14, <1>15, <1>16, <1>17, <1>18, <1>19, <1>20, <1>21, <1>22, <1>23, <1>24, <1>25, <1>26 DEF Act, Step

\* Where another EMT is.
LEMMA OthersKeep ==
    ASSUME NEW e \in Emts, OthersStay(e), NEW f \in Emts \ {e}
    PROVE  /\ (Out(f)' <=> Out(f)) /\ (Back(f)' <=> Back(f)) /\ (Inside(f)' <=> Inside(f))
           /\ (HasDone(f)' <=> HasDone(f)) /\ (Working(f)' <=> Working(f))
           /\ (InTurn(f)' <=> InTurn(f)) /\ (InCallback(f)' <=> InCallback(f))
           /\ (NotRun(f)' <=> NotRun(f)) /\ (Did(f)' <=> Did(f))
           /\ pc'[f] = pc[f] /\ mine'[f] = mine[f] /\ rc'[f] = rc[f] /\ arg'[f] = arg[f]
<1>1. pc'[f] = pc[f] /\ mine'[f] = mine[f] /\ rc'[f] = rc[f] /\ arg'[f] = arg[f]
  BY DEF OthersStay
<1>2. (Out(f)' <=> Out(f)) /\ (Working(f)' <=> Working(f)) /\ (InCallback(f)' <=> InCallback(f))
  BY <1>1 DEF Out, Working, InCallback
<1>3. (Back(f)' <=> Back(f)) /\ (Inside(f)' <=> Inside(f))
  BY <1>1, <1>2 DEF Back, Inside
<1>4. (HasDone(f)' <=> HasDone(f)) /\ (InTurn(f)' <=> InTurn(f)) /\ (NotRun(f)' <=> NotRun(f))
  BY <1>1, <1>2, <1>3 DEF HasDone, InTurn, NotRun
<1>5. Did(f)' <=> Did(f)
  BY <1>1, <1>4 DEF Did
<1> QED BY <1>1, <1>2, <1>3, <1>4, <1>5

\* What is true of an EMT stays true when another one takes a step.
LEMMA OthersLocal ==
    ASSUME NEW e \in Emts, OthersStay(e), NEW f \in Emts \ {e}, LocalInv(f), UNCHANGED u32RendezvousLock
    PROVE  LocalInv(f)'
<1>1. (Out(f)' <=> Out(f)) /\ (Inside(f)' <=> Inside(f))
  BY OthersKeep
<1> QED BY <1>1 DEF OthersStay, LocalInv

-----------------------------------------------------------------------------
(* The stage of the rendezvous, by where an EMT is *)

\* An EMT that has entered, or is about to, does so in a rendezvous that is on, for the
\* one who holds the lock.
LEMMA InSomething ==
    ASSUME IInv, NEW e \in Emts, ~Out(e), pc[e] \notin {"slate", "raise", "collect", "unlock"}
    PROVE  /\ Active /\ u32RendezvousLock \in Emts /\ arg[e] = u32RendezvousLock
           /\ ComingIn \/ Starting \/ AtWork
           /\ ~Closed /\ ~Opening
           /\ fFlags \in AllFlags /\ pfn = u32RendezvousLock
<1>1. LocalInv(e) /\ ClosedInv
  BY DEF IInv, Control
<1>2. u32RendezvousLock # NIL /\ arg[e] = u32RendezvousLock
  BY <1>1 DEF LocalInv, Inside
<1>3. u32RendezvousLock \in Emts
  BY <1>2 DEF IInv, TypeOK
<1>4. Active
  <2>1. CASE u32RendezvousLock = e
    BY <2>1, <1>2 DEF Active
  <2>2. CASE u32RendezvousLock # e
    BY <2>2, <1>1 DEF ClosedInv
  <2> QED BY <2>1, <2>2
<1>5. ComingIn \/ Starting \/ AtWork
  BY <1>4 DEF ComingIn, Starting, AtWork
<1>6. ~Closed /\ ~Opening
  BY <1>4 DEF Active, Closed, Opening
<1>7. fFlags \in AllFlags /\ pfn = u32RendezvousLock
  BY <1>1, <1>4 DEF ClosedInv, Active
<1> QED BY <1>2, <1>3, <1>4, <1>5, <1>6, <1>7

\* While they come in, or the last one has, the others wait for a first turn.
LEMMA BeforeWork ==
    ASSUME IInv, ComingIn \/ Starting, NEW e \in Emts
    PROVE  /\ ff /\ Clean
           /\ ~Out(e) => pc[e] \in {"enter", "lastin", "turn", "waitdone", "waitcaller"}
           /\ pc[e] = "enter" \/ Out(e) => ComingIn
           /\ pc[e] = "lastin" => Starting
<1>1. GatherInv /\ LastInv
  BY DEF IInv, Control
<1>2. \A f \in Emts : Waits(f) \in {"turn", "waitdone", "waitcaller"}
  BY DEF Waits
<1>3. CASE ComingIn
  BY <1>1, <1>2, <1>3 DEF GatherInv, Out
<1>4. CASE Starting
  BY <1>1, <1>2, <1>4 DEF LastInv, Out, Starting
<1> QED BY <1>3, <1>4

\* An EMT that is about to enter finds a rendezvous that still waits for arrivals.
LEMMA WhoeverEnters ==
    ASSUME IInv, NEW e \in Emts, pc[e] = "enter"
    PROVE  ComingIn
<1>1. ~Out(e)
  BY DEF Out
<1>2. ~AtWork
  BY DEF IInv, Control, WorkInv
<1> QED BY <1>1, <1>2, InSomething, BeforeWork

\* The last to arrive finds a rendezvous that everybody else has entered.
LEMMA WhoeverIsLast ==
    ASSUME IInv, NEW e \in Emts, pc[e] = "lastin"
    PROVE  Starting
<1>1. ~Out(e)
  BY DEF Out
<1>2. ~AtWork
  BY DEF IInv, Control, WorkInv
<1> QED BY <1>1, <1>2, InSomething, BeforeWork

\* Whoever is at its turn or past it is in a rendezvous that has begun, of the one with the lock.
LEMMA WhoeverWorks ==
    ASSUME IInv, NEW e \in Emts, ~Out(e),
           \/ pc[e] \in {"check", "callback", "merge", "done", "signal", "return", "count", "wake", "prio"}
           \/ pc[e] \in {"turn", "waitdone", "waitcaller"} /\ (ordered # {} \/ oneByOne \/ allAtOnce \/ done \/ doneCaller)
    PROVE  /\ AtWork /\ u32RendezvousLock \in Emts /\ arg[e] = u32RendezvousLock
           /\ fFlags \in AllFlags /\ pfn = u32RendezvousLock
           /\ TurnInv /\ ReturnInv /\ RanInv /\ StatusInv /\ AgreeInv
           /\ pc[u32RendezvousLock] \notin {"slate", "raise", "collect", "unlock"} /\ ~Back(u32RendezvousLock)
           /\ \A f \in Emts : pc[f] \notin {"enter", "lastin"}
<1>1. ~Clean \/ pc[e] \notin {"enter", "lastin", "turn", "waitdone", "waitcaller"}
  BY DEF Clean
<1>2. ~ComingIn /\ ~Starting
  BY <1>1, BeforeWork
<1>3. /\ AtWork /\ u32RendezvousLock \in Emts /\ arg[e] = u32RendezvousLock
      /\ fFlags \in AllFlags /\ pfn = u32RendezvousLock
  BY <1>2, InSomething
<1>4. TurnInv /\ ReturnInv /\ \A f \in Emts : pc[f] \notin {"enter", "lastin"}
  BY <1>3 DEF IInv, Control, WorkInv
<1>5. RanInv /\ StatusInv /\ AgreeInv
  BY <1>3 DEF IInv, HistoryInv, Running
<1>6. pc[u32RendezvousLock] \notin {"slate", "raise", "collect", "unlock"} /\ ~Back(u32RendezvousLock)
  <2>1. LocalInv(u32RendezvousLock)
    BY <1>3 DEF IInv, Control
  <2> QED BY <1>3, <2>1 DEF LocalInv, Back, AtWork, Active
<1> QED BY <1>3, <1>4, <1>5, <1>6
-----------------------------------------------------------------------------
(* Types *)

\* What a step does to the shape of the state, when the counters and the events of the
\* CPUs stay within bounds.
LEMMA TypeStep ==
    ASSUME TypeOK, NEW e \in Emts, Act(e),
           cEntered' \in 0 .. cCpus, cDone' \in 0 .. cCpus, cReturned' \in 0 .. cCpus - 1, ordered' \subseteq Emts
    PROVE  TypeOK'
<1>1. /\ 0 \in AllCodes /\ VERR_DEADLOCK \in AllCodes /\ AllCodes \subseteq Int /\ Emts \subseteq Int /\ cCpus \in Nat
      /\ \A f \in Emts : Codes[f] \subseteq AllCodes /\ Flags[f] \subseteq AllFlags
  BY Basics
<1>2. MaxCalls \in Nat /\ MaxPrio \in Nat
  BY BoundsAssumption
<1>3. CASE Call(e)
  BY <1>3, <1>1, <1>2 DEF Call, Go, TypeOK, Labels, eventVars, countVars, globalVars, callVars, prioVars
<1>4. CASE SpinTake(e)
  BY <1>4, <1>1, <1>2 DEF SpinTake, Go, TypeOK, Labels, eventVars, countVars, globalVars, callVars, prioVars
<1>5. CASE NestedCall(e)
  BY <1>5, <1>1, <1>2 DEF NestedCall, Go, TypeOK, Labels, eventVars, countVars, globalVars, callVars, prioVars
<1>6. CASE ClearSlate(e)
  BY <1>6, <1>1, <1>2 DEF ClearSlate, ZeroCounters, Go, TypeOK, Labels, eventVars, countVars, globalVars, callVars, prioVars
<1>7. CASE RaiseFF(e)
  BY <1>7, <1>1, <1>2 DEF RaiseFF, Go, TypeOK, Labels, eventVars, countVars, globalVars, callVars, prioVars
<1>8. CASE CallerWoken(e)
  BY <1>8, <1>1, <1>2 DEF CallerWoken, Go, TypeOK, Labels, eventVars, countVars, globalVars, callVars, prioVars
<1>9. CASE Collect(e)
  BY <1>9, <1>1, <1>2 DEF Collect, Go, TypeOK, Labels, eventVars, countVars, globalVars, callVars, prioVars
<1>10. CASE Unlock(e)
  BY <1>10, <1>1, <1>2 DEF Unlock, Go, TypeOK, Labels, eventVars, countVars, globalVars, callVars, prioVars
<1>11. CASE Finish(e)
  BY <1>11, <1>1, <1>2 DEF Finish, Go, TypeOK, Labels, eventVars, countVars, globalVars, callVars, prioVars
<1>12. CASE ServeFF(e)
  BY <1>12, <1>1, <1>2 DEF ServeFF, Go, TypeOK, Labels, eventVars, countVars, globalVars, callVars, prioVars
<1>13. CASE LeaveFF(e)
  BY <1>13, <1>1, <1>2 DEF LeaveFF, Go, TypeOK, Labels, eventVars, countVars, globalVars, callVars, prioVars
<1>14. CASE Enter(e)
  BY <1>14, <1>1, <1>2 DEF Enter, Waits, Go, TypeOK, Labels, eventVars, countVars, globalVars, callVars, prioVars
<1>15. CASE LastIn(e)
  BY <1>15, <1>1, <1>2 DEF LastIn, StartsNow, Go, TypeOK, Labels, eventVars, countVars, globalVars, callVars, prioVars
<1>16. CASE TakeTurn(e)
  BY <1>16, <1>1, <1>2 DEF TakeTurn, Go, TypeOK, Labels, eventVars, countVars, globalVars, callVars, prioVars
<1>17. CASE Check(e)
  BY <1>17, <1>1, <1>2 DEF Check, Go, TypeOK, Labels, eventVars, countVars, globalVars, callVars, prioVars
<1>18. CASE Callback(e)
  BY <1>18, <1>1, <1>2 DEF Callback, Go, TypeOK, Labels, eventVars, countVars, globalVars, callVars, prioVars
<1>19. CASE Merge(e)
  BY <1>19, <1>1, <1>2 DEF Merge, Merged, Go, TypeOK, Labels, eventVars, countVars, globalVars, callVars, prioVars
<1>20. CASE Done(e)
  BY <1>20, <1>1, <1>2 DEF Done, Go, TypeOK, Labels, eventVars, countVars, globalVars, callVars, prioVars
<1>21. CASE Signal(e)
  <2>1. oneByOne' \in BOOLEAN /\ done' \in BOOLEAN
    <3>1. oneByOne' = (oneByOne \/ (WorkLeft(mine[e]) /\ fFlags.type = "ONE_BY_ONE")) /\ done' = (done \/ ~WorkLeft(mine[e]))
      BY <1>21 DEF Signal
    <3> QED BY <3>1
  <2>2. pc' \in [Emts -> Labels] /\ mine' \in [Emts -> 0 .. cCpus]
    <3>1. /\ mine' = [mine EXCEPT ![e] = 0]
          /\ Go(e, IF IsCaller(e) THEN "waitcaller" ELSE IF WorkLeft(mine[e]) THEN "waitdone" ELSE "return")
      BY <1>21 DEF Signal
    <3> QED BY <3>1, <1>1 DEF TypeOK, Labels, Go
  <2>3. UNCHANGED <<globalVars, countVars, allAtOnce, doneCaller, callVars, prioVars, arg, back, rc>>
    BY <1>21 DEF Signal
  <2> QED BY <2>1, <2>2, <2>3 DEF TypeOK, countVars, globalVars, callVars, prioVars
<1>22. CASE WaitDone(e)
  BY <1>22, <1>1, <1>2 DEF WaitDone, Go, TypeOK, Labels, eventVars, countVars, globalVars, callVars, prioVars
<1>23. CASE ReadStatus(e)
  BY <1>23, <1>1, <1>2 DEF ReadStatus, NonFailure, Go, TypeOK, Labels, eventVars, countVars, globalVars, callVars, prioVars
<1>24. CASE CountReturn(e)
  BY <1>24, <1>1, <1>2 DEF CountReturn, Go, TypeOK, Labels, eventVars, countVars, globalVars, callVars, prioVars
<1>25. CASE WakeCaller(e)
  BY <1>25, <1>1, <1>2 DEF WakeCaller, Go, TypeOK, Labels, eventVars, countVars, globalVars, callVars, prioVars
<1>26. CASE BeginPriority(e)
  BY <1>26, <1>1, <1>2 DEF BeginPriority, Go, TypeOK, Labels, eventVars, countVars, globalVars, callVars, prioVars
<1>27. CASE EndPriority(e)
  BY <1>27, <1>1, <1>2 DEF EndPriority, Restored, Go, TypeOK, Labels, eventVars, countVars, globalVars, callVars, prioVars
<1> QED BY <1>3, <1>4, <1>5, <1>6, <1>7, <1>8, <1>9, <1>10, <1>11, <1>12, <1>13, <1>14, <1>15, <1>16, <1>17, <1>18, <1>19, <1>20, <1>21, <1>22, <1>23, <1>24, <1>25, <1>26, <1>27 DEF Act, Step
-----------------------------------------------------------------------------
(* What keeps the parts of the invariant *)

\* The turns and the counts of those who leave.
LEMMA WorkKeeps ==
    ASSUME NEW e \in Emts, OthersStay(e), TurnInv, ReturnInv,
           UNCHANGED <<fFlags, cDone, cReturned, ordered, oneByOne, done, doneCaller>>,
           mine'[e] = mine[e], HasDone(e)' <=> HasDone(e), Back(e)' <=> Back(e),
           Working(e)' <=> Working(e), InTurn(e)' <=> InTurn(e), pc'[e] = "signal" <=> pc[e] = "signal",
           pc'[e] # "turn", pc'[e] # "wake", pc'[e] \in {"return", "count"} => done
    PROVE  TurnInv' /\ ReturnInv'
<1>1. \A f \in Emts :
         /\ HasDone(f)' <=> HasDone(f)
         /\ Back(f)' <=> Back(f)
         /\ Working(f)' <=> Working(f)
         /\ InTurn(f)' <=> InTurn(f)
         /\ pc'[f] = "signal" <=> pc[f] = "signal"
         /\ mine'[f] = mine[f]
         /\ pc'[f] = "turn" => pc[f] = "turn"
         /\ pc'[f] = "wake" => pc[f] = "wake"
         /\ pc'[f] \in {"return", "count"} => pc[f] \in {"return", "count"} \/ done
  BY OthersKeep
<1>2. Finishers' = Finishers /\ Leavers' = Leavers
  BY <1>1 DEF Finishers, Leavers
<1>3. (Ordered' <=> Ordered) /\ \A n : Turn(n)' = Turn(n)
  BY DEF Ordered, Turn
<1>4. TurnInv'
  <2>1. (\E f \in Emts : InTurn(f)') <=> (\E f \in Emts : InTurn(f))
    BY <1>1
  <2>2. \A f \in Emts : pc'[f] = "signal" => mine'[f] \in 1 .. cDone'
    BY <1>1 DEF TurnInv
  <2>3. (fFlags.type # "ONCE" => cDone = Cardinality(Finishers) /\ (done => cDone = cCpus))'
    BY <1>2 DEF TurnInv
  <2>4. (fFlags.type = "ONCE" => /\ cDone = IF \E f \in Emts : InTurn(f) THEN 0 ELSE 1
                                 /\ \A f \in Emts : pc[f] # "turn")'
    BY <1>1, <2>1 DEF TurnInv
  <2>5. (fFlags.type # "ALL_AT_ONCE" =>
            /\ \A f, g \in Emts : Working(f) /\ Working(g) => f = g
            /\ \A f \in Emts : Working(f) => ordered = {} /\ ~oneByOne /\ ~done
            /\ \A f \in Emts : pc[f] = "signal" => mine[f] = cDone)'
    BY <1>1 DEF TurnInv
  <2>6. /\ (oneByOne => fFlags.type = "ONE_BY_ONE" /\ cDone # cCpus)'
        /\ (ordered # {} => Ordered /\ cDone # cCpus /\ ordered = {Turn(cDone + 1)})'
    BY <1>3 DEF TurnInv
  <2>7. (Ordered => \A f \in Emts : Working(f) => f = Turn(IF pc[f] = "signal" THEN cDone ELSE cDone + 1))'
    BY <1>1, <1>3 DEF TurnInv
  <2> QED BY <2>2, <2>3, <2>4, <2>5, <2>6, <2>7 DEF TurnInv
<1>5. ReturnInv'
  BY <1>1, <1>2 DEF ReturnInv
<1> QED BY <1>4, <1>5

\* What has run, and what has become of the codes.
LEMMA HistoryKeeps ==
    ASSUME NEW e \in Emts, OthersStay(e), RanInv, StatusInv,
           UNCHANGED <<fFlags, status, history>>,
           pc[e] # "merge", pc'[e] # "merge",
           NotRun(e)' => NotRun(e), Did(e)' => Did(e), InCallback(e)' => InCallback(e),
           fFlags.type = "ONCE" => (pc'[e] = "check" \/ InCallback(e)' <=> pc[e] = "check" \/ InCallback(e))
    PROVE  RanInv' /\ StatusInv'
<1>1. \A f \in Emts :
         /\ NotRun(f)' => NotRun(f)
         /\ Did(f)' => Did(f)
         /\ InCallback(f)' => InCallback(f)
         /\ pc'[f] = "merge" <=> pc[f] = "merge"
         /\ pc[f] = "merge" => rc'[f] = rc[f]
         /\ fFlags.type = "ONCE" => (pc'[f] = "check" \/ InCallback(f)' <=> pc[f] = "check" \/ InCallback(f))
  BY OthersKeep
<1>2. ran' = ran /\ cRan' = cRan /\ firstError' = firstError
  BY DEF history
<1>3. Runners' = Runners
  BY <1>2 DEF Runners
<1>4. RanInv'
  BY <1>1, <1>2, <1>3 DEF RanInv
<1>5. \A f \in Emts : IsMerged(f)' <=> IsMerged(f)
  BY <1>1, <1>2 DEF IsMerged
<1>6. StatusInv'
  BY <1>1, <1>2, <1>5 DEF StatusInv
<1> QED BY <1>4, <1>6

\* Nobody who is on its way out changes what the EMTs return.
LEMMA AgreeKeeps ==
    ASSUME NEW e \in Emts, OthersStay(e), AgreeInv, status' = status,
           pc'[e] \in {"count", "wake", "leave"} => rc'[e] = NonFailure(status)
    PROVE  AgreeInv'
BY OthersKeep DEF AgreeInv, NonFailure

\* The stage of a rendezvous changes only with the lock, the flag, the count of those
\* who entered and where the one with the lock is.
LEMMA StageKeeps ==
    ASSUME TypeOK, NEW e \in Emts, OthersStay(e), UNCHANGED <<u32RendezvousLock, ff, cEntered>>, u32RendezvousLock # e
    PROVE  /\ Closed' <=> Closed
           /\ Opening' <=> Opening
           /\ Active' <=> Active
           /\ ComingIn' <=> ComingIn
           /\ Starting' <=> Starting
           /\ AtWork' <=> AtWork
           /\ Running' <=> Running
           /\ u32RendezvousLock # NIL => pc'[u32RendezvousLock] = pc[u32RendezvousLock]
<1>1. u32RendezvousLock # NIL => pc'[u32RendezvousLock] = pc[u32RendezvousLock]
  BY OthersKeep DEF TypeOK
<1>2. (Closed' <=> Closed) /\ (Opening' <=> Opening) /\ (Active' <=> Active)
  BY <1>1 DEF Closed, Opening, Active
<1>3. (ComingIn' <=> ComingIn) /\ (Starting' <=> Starting) /\ (AtWork' <=> AtWork)
  BY <1>2 DEF ComingIn, Starting, AtWork
<1> QED BY <1>1, <1>2, <1>3 DEF Running

\* A step of an EMT that is outside and stays outside.
LEMMA OutStep ==
    ASSUME IInv, NEW e \in Emts, OthersStay(e), Out(e), Out(e)', pc'[e] # "leave",
           UNCHANGED <<u32RendezvousLock, ff, fFlags, pfn, status, countVars, eventVars, history, mine>>,
           TypeOK', LocalInv(e)'
    PROVE  IInv'
<1>1. u32RendezvousLock # e
  BY DEF IInv, Control, LocalInv
<1>2. /\ cEntered' = cEntered /\ cDone' = cDone /\ cReturned' = cReturned
      /\ ordered' = ordered /\ oneByOne' = oneByOne /\ allAtOnce' = allAtOnce /\ done' = done /\ doneCaller' = doneCaller
      /\ ran' = ran /\ cRan' = cRan /\ firstError' = firstError
  BY DEF countVars, eventVars, history
<1>3. /\ Closed' <=> Closed
      /\ Opening' <=> Opening
      /\ Active' <=> Active
      /\ ComingIn' <=> ComingIn
      /\ Starting' <=> Starting
      /\ AtWork' <=> AtWork
      /\ Running' <=> Running
      /\ u32RendezvousLock # NIL => pc'[u32RendezvousLock] = pc[u32RendezvousLock]
  BY <1>1, <1>2, StageKeeps DEF IInv
<1>4. (Clean' <=> Clean) /\ (NoHistory' <=> NoHistory)
  BY <1>2 DEF Clean, NoHistory
<1>5. \A f \in Emts : Out(f)' <=> Out(f)
  BY OthersKeep
<1>6. \A f \in Emts : LocalInv(f)'
  BY OthersLocal DEF IInv, Control
<1>7. ClosedInv'
  BY <1>2, <1>3, <1>4, <1>5 DEF IInv, Control, ClosedInv
<1>8. GatherInv'
  <2>1. \A f \in Emts \ {e} : pc'[f] = pc[f] /\ Waits(f)' = Waits(f)
    BY OthersKeep DEF Waits, IsCaller
  <2>2. \A f \in Emts : Inside(f)' <=> Inside(f)
    BY OthersKeep DEF Inside, Out
  <2>3. Insiders' = Insiders
    BY <2>2 DEF Insiders
  <2> QED BY <1>2, <1>3, <1>4, <1>5, <2>1, <2>3 DEF IInv, Control, GatherInv
<1>9. LastInv'
  BY <1>3, BeforeWork DEF LastInv, Starting, ComingIn
<1>10. WorkInv'
  <2> SUFFICES ASSUME AtWork PROVE WorkInv'
    BY <1>3 DEF WorkInv
  <2>1. TurnInv /\ ReturnInv /\ \A f \in Emts : pc[f] \notin {"enter", "lastin"}
    BY DEF IInv, Control, WorkInv
  <2>2. \A f \in Emts : pc'[f] \notin {"enter", "lastin"}
    BY <2>1, OthersKeep DEF Out
  <2>3. /\ HasDone(e) /\ HasDone(e)' /\ Back(e) /\ Back(e)' /\ ~Working(e) /\ ~Working(e)' /\ ~InTurn(e) /\ ~InTurn(e)'
        /\ pc[e] # "signal" /\ pc'[e] \notin {"signal", "turn", "wake", "return", "count"}
    BY DEF Out, Back, HasDone, Working, InTurn
  <2>4. TurnInv' /\ ReturnInv'
    BY <1>2, <2>1, <2>3, WorkKeeps
  <2> QED BY <2>2, <2>4 DEF WorkInv
<1>11. HistoryInv'
  <2>1. ran' \in [Emts -> AllCodes \cup {NIL}] /\ firstError' \in AllCodes
    BY <1>2 DEF IInv, HistoryInv
  <2> SUFFICES ASSUME Running PROVE RanInv' /\ StatusInv' /\ AgreeInv'
    BY <1>3, <2>1 DEF HistoryInv
  <2>2. RanInv /\ StatusInv /\ AgreeInv
    BY DEF IInv, HistoryInv
  <2>3. /\ ~NotRun(e)' /\ Did(e) /\ ~InCallback(e) /\ ~InCallback(e)'
        /\ pc[e] \notin {"merge", "check"} /\ pc'[e] \notin {"merge", "check", "count", "wake"}
    BY DEF Out, Back, HasDone, NotRun, Did, InCallback
  <2> QED BY <2>2, <2>3, HistoryKeeps, AgreeKeeps
<1> QED BY <1>6, <1>7, <1>8, <1>9, <1>10, <1>11 DEF IInv, Control
-----------------------------------------------------------------------------
(* The steps: outside the rendezvous *)

\* VMMR3EmtRendezvous called while another rendezvous has the lock.
LEMMA CallSpins ==
    ASSUME IInv, NEW e \in Emts, Call(e), u32RendezvousLock # NIL
    PROVE  IInv'
<1> USE DEF Call
<1>1. pc[e] = "run" /\ pc' = [pc EXCEPT ![e] = "spin"] /\ u32RendezvousLock' = u32RendezvousLock
  BY DEF Go
<1>2. pc'[e] = "spin" /\ Out(e) /\ Out(e)'
  BY <1>1 DEF IInv, TypeOK, Out
<1>3. OthersStay(e) /\ TypeOK'
  BY Frame, TypeStep DEF IInv, TypeOK, Act, countVars, eventVars
<1>4. want'[e] \in AllFlags
  BY Basics DEF IInv, TypeOK
<1>5. LocalInv(e)'
  BY <1>1, <1>2, <1>4 DEF IInv, Control, LocalInv, Inside, Out
<1> QED BY <1>1, <1>2, <1>3, <1>5, OutStep

\* An EMT leaves the rendezvous.
LEMMA LeaveKeeps ==
    ASSUME IInv, NEW e \in Emts, LeaveFF(e)
    PROVE  IInv'
<1> USE DEF LeaveFF
<1>1. pc[e] = "leave" /\ pc' = [pc EXCEPT ![e] = back[e]] /\ back[e] \in {"run", "spin"}
  BY DEF Go, IInv, TypeOK
<1>2. pc'[e] = back[e] /\ Out(e) /\ Out(e)'
  BY <1>1 DEF IInv, TypeOK, Out
<1>3. OthersStay(e) /\ TypeOK'
  BY Frame, TypeStep DEF IInv, TypeOK, Act, Step, countVars, eventVars
<1>4. fInRendezvous'[e] = FALSE /\ arg'[e] = NIL /\ back'[e] = "run" /\ want' = want /\ u32RendezvousLock' = u32RendezvousLock
  BY DEF IInv, TypeOK, callVars
<1>5. LocalInv(e)'
  BY <1>1, <1>2, <1>4 DEF IInv, Control, LocalInv, Inside, Out
<1> QED BY <1>1, <1>2, <1>3, <1>5, OutStep

\* A call returns.
LEMMA FinishKeeps ==
    ASSUME IInv, NEW e \in Emts, Finish(e)
    PROVE  IInv'
<1> USE DEF Finish
<1>1. pc[e] = "finish" /\ pc' = [pc EXCEPT ![e] = "run"]
  BY DEF Go
<1>2. pc'[e] = "run" /\ Out(e) /\ Out(e)'
  BY <1>1 DEF IInv, TypeOK, Out
<1>3. OthersStay(e) /\ TypeOK'
  BY Frame, TypeStep DEF IInv, TypeOK, Act, Step, countVars, eventVars
<1>4. fInRendezvous'[e] = FALSE
  BY DEF IInv, TypeOK
<1>5. LocalInv(e)'
  BY <1>1, <1>2, <1>4 DEF IInv, Control, LocalInv, Inside, Out, callVars
<1> QED BY <1>1, <1>2, <1>3, <1>5, OutStep

\* The priority guard entered outside a rendezvous,
LEMMA BeginOutside ==
    ASSUME IInv, NEW e \in Emts, BeginPriority(e), pc[e] = "run"
    PROVE  IInv'
<1> USE DEF BeginPriority
<1>1. pc' = [pc EXCEPT ![e] = "prio"] /\ LocalInv(e)
  BY DEF Go, IInv, Control
<1>2. arg[e] = NIL /\ arg'[e] = NIL
  BY <1>1 DEF LocalInv
<1>3. pc'[e] = "prio" /\ Out(e) /\ Out(e)'
  BY <1>1, <1>2 DEF IInv, TypeOK, Out
<1>4. OthersStay(e) /\ TypeOK'
  BY Frame, TypeStep DEF IInv, TypeOK, Act, countVars, eventVars
<1>5. fInRendezvous'[e] = TRUE /\ fSaved'[e] = FALSE
  <2>1. fInRendezvous[e] = FALSE
    BY <1>1 DEF LocalInv, IInv, TypeOK
  <2> QED BY <2>1 DEF IInv, TypeOK
<1>6. LocalInv(e)'
  BY <1>1, <1>2, <1>3, <1>5 DEF LocalInv, Inside, Out, callVars
<1> QED BY <1>1, <1>3, <1>4, <1>6, OutStep

\* and left there.
LEMMA EndOutside ==
    ASSUME IInv, NEW e \in Emts, EndPriority(e), arg[e] = NIL
    PROVE  IInv'
<1> USE DEF EndPriority
<1>1. pc[e] = "prio" /\ pc' = [pc EXCEPT ![e] = "run"] /\ LocalInv(e) /\ arg'[e] = NIL
  BY DEF Go, IInv, Control
<1>2. pc'[e] = "run" /\ Out(e) /\ Out(e)'
  BY <1>1 DEF IInv, TypeOK, Out
<1>3. OthersStay(e) /\ TypeOK'
  BY Frame, TypeStep DEF IInv, TypeOK, Act, Step, countVars, eventVars
<1>4. fInRendezvous'[e] = FALSE
  <2>1. fSaved[e] = FALSE
    BY <1>1 DEF LocalInv, IInv, TypeOK
  <2> QED BY <2>1 DEF IInv, TypeOK, Restored
<1>5. LocalInv(e)'
  BY <1>1, <1>2, <1>4 DEF LocalInv, Inside, Out, callVars
<1> QED BY <1>1, <1>2, <1>3, <1>5, OutStep

-----------------------------------------------------------------------------
(* The steps: the caller with the lock *)

\* The lock goes to one who calls, at once or after spinning.
LEMMA TakesLock ==
    ASSUME IInv, NEW e \in Emts, Call(e) \/ SpinTake(e), u32RendezvousLock = NIL
    PROVE  IInv'
<1>1. /\ pc[e] \in {"run", "spin"} /\ pc' = [pc EXCEPT ![e] = "slate"] /\ u32RendezvousLock' = e
      /\ UNCHANGED <<ff, fFlags, pfn, status, fInRendezvous, countVars, eventVars, prioVars, arg, back, mine, rc, history>>
      /\ want'[e] \in AllFlags
  <2>1. CASE Call(e)
    BY <2>1, Basics DEF Call, Go, IInv, TypeOK
  <2>2. CASE SpinTake(e)
    BY <2>2 DEF SpinTake, Go, IInv, Control, LocalInv, callVars
  <2> QED BY <2>1, <2>2
<1>2. pc'[e] = "slate" /\ Out(e)
  BY <1>1 DEF IInv, TypeOK, Out
<1>3. OthersStay(e) /\ TypeOK'
  BY <1>1, Frame, TypeStep DEF IInv, TypeOK, Act, Step, countVars, eventVars
<1>4. ClosedInv /\ Closed /\ ~Active
  BY DEF IInv, Control, Closed, Active
<1>5. \A f \in Emts : Out(f)
  BY <1>4, Basics DEF ClosedInv
<1>6. e # NIL
  BY Basics
<1>7. Closed' /\ ~Opening' /\ ~Active' /\ ~Running'
  BY <1>1, <1>2 DEF Closed, Opening, Active, AtWork, Running
<1>8. \A f \in Emts \ {e} : Out(f)' /\ LocalInv(f)'
  <2> TAKE f \in Emts \ {e}
  <2>1. Out(f)' /\ Out(f) /\ LocalInv(f)
    BY <1>3, <1>5, OthersKeep DEF IInv, Control
  <2> QED BY <2>1, <1>1, <1>3 DEF LocalInv, OthersStay, Inside, Out
<1>9. LocalInv(e)'
  BY <1>1, <1>2, <1>6 DEF IInv, Control, LocalInv, Inside, Out
<1>10. ClosedInv'
  BY <1>1, <1>2, <1>4, <1>7, <1>8 DEF ClosedInv, NoHistory, eventVars, history
<1>11. GatherInv' /\ LastInv' /\ WorkInv'
  BY <1>7 DEF GatherInv, LastInv, WorkInv, ComingIn, Starting, AtWork
<1>12. HistoryInv'
  BY <1>1, <1>7 DEF IInv, HistoryInv, history
<1> QED BY <1>3, <1>8, <1>9, <1>10, <1>11, <1>12 DEF IInv, Control

\* The one with the lock resets the events and the counters,
LEMMA ClearSlateKeeps ==
    ASSUME IInv, NEW e \in Emts, ClearSlate(e)
    PROVE  IInv'
<1> USE DEF ClearSlate, ZeroCounters
<1>1. pc[e] = "slate" /\ pc' = [pc EXCEPT ![e] = "raise"] /\ LocalInv(e) /\ ClosedInv
  BY DEF Go, IInv, Control
<1>2. u32RendezvousLock = e /\ u32RendezvousLock' = e /\ pc'[e] = "raise" /\ e # NIL /\ want[e] \in AllFlags
  BY <1>1, Basics DEF LocalInv, IInv, TypeOK
<1>3. OthersStay(e) /\ TypeOK'
  <2>1. cEntered' \in 0 .. cCpus /\ cDone' \in 0 .. cCpus /\ cReturned' \in 0 .. cCpus - 1 /\ ordered' \subseteq Emts
    BY Basics
  <2>2. TypeOK /\ Act(e)
    BY DEF IInv, Act, Step
  <2> QED BY <2>1, <2>2, Frame, TypeStep, Zenon
<1>4. Closed /\ ~Active
  BY <1>1, <1>2 DEF Closed, Active
<1>5. ~Closed' /\ Opening' /\ ~Active' /\ ~Running'
  BY <1>2 DEF Closed, Opening, Active, AtWork, Running
<1>6. \A f \in Emts \ {e} : Out(f)' /\ LocalInv(f)'
  BY <1>1, <1>2, <1>3, <1>4, OthersKeep, OthersLocal DEF IInv, Control, ClosedInv
<1>7. LocalInv(e)'
  <2>1. fInRendezvous'[e] = TRUE /\ arg'[e] = arg[e] /\ back'[e] = back[e]
    BY DEF IInv, TypeOK
  <2> QED BY <1>1, <1>2, <2>1 DEF LocalInv, Inside, Out
<1>8. NoHistory /\ NoHistory'
  BY <1>1, <1>2 DEF ClosedInv, NoHistory, history
<1>9. ~ff /\ ~ff' /\ Clean'
  BY <1>1, <1>4, <1>8 DEF ClosedInv, Clean
<1>10. ClosedInv'
  BY <1>2, <1>5, <1>6, <1>9 DEF ClosedInv
<1>11. GatherInv' /\ LastInv' /\ WorkInv'
  BY <1>5 DEF GatherInv, LastInv, WorkInv, ComingIn, Starting, AtWork
<1>12. HistoryInv'
  BY <1>5 DEF IInv, HistoryInv, history
<1> QED BY <1>3, <1>6, <1>7, <1>10, <1>11, <1>12 DEF IInv, Control

\* raises the force flag,
LEMMA RaiseKeeps ==
    ASSUME IInv, NEW e \in Emts, RaiseFF(e)
    PROVE  IInv'
<1> USE DEF RaiseFF
<1>1. pc[e] = "raise" /\ pc' = [pc EXCEPT ![e] = "enter"] /\ LocalInv(e) /\ ClosedInv
  BY DEF Go, IInv, Control
<1>2. u32RendezvousLock = e /\ u32RendezvousLock' = e /\ pc'[e] = "enter" /\ e # NIL /\ ~Out(e)'
  BY <1>1, Basics DEF LocalInv, IInv, TypeOK, Out
<1>3. OthersStay(e) /\ TypeOK'
  BY Frame, TypeStep, Basics DEF IInv, TypeOK, Act, Step, countVars, eventVars
<1>4. Opening /\ ~Active
  BY <1>1, <1>2 DEF Opening, Active
<1>5. Clean /\ Clean' /\ cEntered = 0 /\ cEntered' = 0 /\ ff'
  BY <1>1, <1>4 DEF ClosedInv, Clean, NoHistory, countVars, eventVars, history
<1>6. ~Closed' /\ ~Opening' /\ Active' /\ ~Running' /\ ~Starting' /\ ~AtWork'
  BY <1>2, <1>5, Basics DEF Closed, Opening, Active, Starting, AtWork, Running
<1>7. \A f \in Emts \ {e} : Out(f)' /\ LocalInv(f)'
  BY <1>1, <1>2, <1>3, <1>4, OthersKeep, OthersLocal DEF IInv, Control, ClosedInv
<1>8. LocalInv(e)'
  <2>1. (fInRendezvous'[e] <=> fInRendezvous[e]) /\ arg'[e] = e /\ back'[e] = back[e] /\ want'[e] = want[e]
    BY DEF IInv, TypeOK, callVars
  <2> QED BY <1>1, <1>2, <2>1 DEF LocalInv, Inside, Out
<1>9. ClosedInv'
  <2>1. fFlags' \in AllFlags /\ pfn' = e
    BY <1>1, <1>2 DEF ClosedInv
  <2> QED BY <1>2, <1>6, <2>1 DEF ClosedInv
<1>10. GatherInv'
  <2>1. \A f \in Emts : ~Inside(f)'
    BY <1>2, <1>7 DEF Inside
  <2>2. Insiders' = {}
    BY <2>1 DEF Insiders
  <2>3. cEntered' = Cardinality(Insiders')
    BY <1>5, <2>2, FS_EmptySet
  <2>4. \A f \in Emts : Out(f)' \/ pc'[f] = "enter"
    BY <1>2, <1>7
  <2> QED BY <1>5, <2>3, <2>4 DEF GatherInv
<1>11. LastInv' /\ WorkInv'
  BY <1>6 DEF LastInv, WorkInv
<1>12. HistoryInv'
  BY <1>6 DEF IInv, HistoryInv, history
<1> QED BY <1>3, <1>7, <1>8, <1>9, <1>10, <1>11, <1>12 DEF IInv, Control

\* collects the status once it is back,
LEMMA CollectKeeps ==
    ASSUME IInv, NEW e \in Emts, Collect(e)
    PROVE  IInv'
<1> USE DEF Collect
<1>1. pc[e] = "collect" /\ pc' = [pc EXCEPT ![e] = "unlock"] /\ LocalInv(e) /\ ClosedInv
  BY DEF Go, IInv, Control
<1>2. u32RendezvousLock = e /\ u32RendezvousLock' = e /\ pc'[e] = "unlock" /\ e # NIL
  BY <1>1, Basics DEF LocalInv, IInv, TypeOK
<1>3. OthersStay(e) /\ TypeOK'
  BY Frame, TypeStep, Basics DEF IInv, TypeOK, Act, Step, countVars, eventVars
<1>4. Closed /\ ~Active
  BY <1>1, <1>2 DEF Closed, Active
<1>5. Closed' /\ ~Opening' /\ ~Active' /\ ~Running'
  BY <1>2 DEF Closed, Opening, Active, AtWork, Running
<1>6. \A f \in Emts \ {e} : Out(f)' /\ LocalInv(f)'
  BY <1>1, <1>2, <1>3, <1>4, OthersKeep, OthersLocal DEF IInv, Control, ClosedInv
<1>7. LocalInv(e)'
  <2>1. (fInRendezvous'[e] <=> fInRendezvous[e]) /\ arg'[e] = NIL /\ back'[e] = back[e] /\ want'[e] = want[e]
    BY DEF IInv, TypeOK, callVars
  <2> QED BY <1>1, <1>2, <2>1 DEF LocalInv, Inside, Out
<1>8. NoHistory'
  BY DEF NoHistory
<1>9. ClosedInv'
  BY <1>1, <1>2, <1>4, <1>5, <1>6, <1>8 DEF ClosedInv, eventVars
<1>10. GatherInv' /\ LastInv' /\ WorkInv'
  BY <1>5 DEF GatherInv, LastInv, WorkInv, ComingIn, Starting, AtWork
<1>11. HistoryInv'
  BY <1>5, Basics DEF IInv, HistoryInv
<1> QED BY <1>3, <1>6, <1>7, <1>9, <1>10, <1>11 DEF IInv, Control

\* and gives up the lock.
LEMMA UnlockKeeps ==
    ASSUME IInv, NEW e \in Emts, Unlock(e)
    PROVE  IInv'
<1> USE DEF Unlock
<1>1. pc[e] = "unlock" /\ pc' = [pc EXCEPT ![e] = "finish"] /\ LocalInv(e) /\ ClosedInv
  BY DEF Go, IInv, Control
<1>2. u32RendezvousLock = e /\ u32RendezvousLock' = NIL /\ pc'[e] = "finish" /\ e # NIL /\ Out(e)'
  BY <1>1, Basics DEF LocalInv, IInv, TypeOK, Out
<1>3. OthersStay(e) /\ TypeOK'
  BY Frame, TypeStep, Basics DEF IInv, TypeOK, Act, Step, countVars, eventVars
<1>4. Closed /\ ~Active /\ NoHistory /\ NoHistory'
  BY <1>1, <1>2 DEF Closed, Active, ClosedInv, NoHistory, history
<1>5. Closed' /\ ~Opening' /\ ~Active' /\ ~Running'
  BY <1>2 DEF Closed, Opening, Active, AtWork, Running
<1>6. \A f \in Emts \ {e} : Out(f)' /\ LocalInv(f)'
  <2> TAKE f \in Emts \ {e}
  <2>1. Out(f) /\ Out(f)' /\ LocalInv(f) /\ f # NIL
    BY <1>1, <1>2, <1>3, <1>4, OthersKeep, Basics DEF IInv, Control, ClosedInv
  <2> QED BY <2>1, <1>2, <1>3 DEF LocalInv, OthersStay, Inside, Out
<1>7. LocalInv(e)'
  <2>1. (fInRendezvous'[e] <=> fInRendezvous[e]) /\ arg'[e] = arg[e] /\ back'[e] = back[e] /\ want'[e] = want[e]
    BY DEF IInv, TypeOK, callVars
  <2> QED BY <1>1, <1>2, <2>1 DEF LocalInv, Inside, Out
<1>8. ClosedInv'
  BY <1>1, <1>2, <1>4, <1>5, <1>6 DEF ClosedInv, eventVars
<1>9. GatherInv' /\ LastInv' /\ WorkInv'
  BY <1>5 DEF GatherInv, LastInv, WorkInv, ComingIn, Starting, AtWork
<1>10. HistoryInv'
  BY <1>5 DEF IInv, HistoryInv, history
<1> QED BY <1>3, <1>6, <1>7, <1>8, <1>9, <1>10 DEF IInv, Control
-----------------------------------------------------------------------------
(* The steps: coming in *)

\* An EMT that sees the flag comes in.
LEMMA ServeKeeps ==
    ASSUME IInv, NEW e \in Emts, ServeFF(e)
    PROVE  IInv'
<1> USE DEF ServeFF
<1>1. /\ pc[e] \in {"run", "spin"} /\ pc' = [pc EXCEPT ![e] = "enter"] /\ LocalInv(e) /\ ClosedInv /\ Out(e)
      /\ u32RendezvousLock' = u32RendezvousLock /\ ff' = ff
  BY DEF Go, IInv, Control, Out
<1>2. pc'[e] = "enter" /\ ~Out(e)' /\ u32RendezvousLock # e
  BY <1>1 DEF LocalInv, IInv, TypeOK, Out
<1>3. OthersStay(e) /\ TypeOK'
  BY Frame, TypeStep, Basics DEF IInv, TypeOK, Act, Step, countVars, eventVars
<1>4. ~Closed /\ ~Opening /\ Active
  BY <1>1 DEF ClosedInv, Closed, Opening, Active
<1>5. ComingIn
  BY <1>1, <1>4, BeforeWork DEF ComingIn, Starting
<1>6. ~Closed' /\ ~Opening' /\ Active' /\ ComingIn' /\ ~Starting' /\ ~AtWork' /\ ~Running'
  <2>1. ~AtWork /\ ~Starting /\ ~Running
    BY <1>4, <1>5 DEF ComingIn, Starting, AtWork, Running, Active
  <2> QED BY <1>1, <1>2, <1>3, <1>4, <1>5, <2>1, StageKeeps DEF IInv, countVars
<1>7. u32RendezvousLock # NIL /\ pfn = u32RendezvousLock /\ fFlags \in AllFlags /\ pc[u32RendezvousLock] \notin {"slate", "unlock"}
  BY <1>1, <1>4 DEF ClosedInv, Active
<1>8. \A f \in Emts \ {e} : LocalInv(f)'
  BY <1>1, <1>3, OthersLocal DEF IInv, Control
<1>9. LocalInv(e)'
  <2>1. fInRendezvous'[e] = TRUE /\ arg'[e] = pfn /\ back'[e] = pc[e] /\ want'[e] = want[e]
    BY DEF IInv, TypeOK, callVars
  <2> QED BY <1>1, <1>2, <1>7, <2>1 DEF LocalInv, Inside, Out
<1>10. ClosedInv'
  BY <1>1, <1>6, <1>7 DEF ClosedInv, Active
<1>11. GatherInv'
  <2>1. /\ Clean /\ cEntered = Cardinality(Insiders)
        /\ \A f \in Emts : Out(f) \/ pc[f] \in {"enter", Waits(f)}
    BY <1>5 DEF GatherInv, IInv, Control
  <2>2. Clean' /\ cEntered' = cEntered
    BY <2>1 DEF Clean, NoHistory, countVars, eventVars, history
  <2>3. \A f \in Emts : Inside(f)' <=> Inside(f)
    BY <1>1, <1>2, <1>3, OthersKeep DEF Inside
  <2>4. Insiders' = Insiders
    BY <2>3 DEF Insiders
  <2>5. \A f \in Emts \ {e} : pc'[f] = pc[f] /\ Waits(f)' = Waits(f) /\ (Out(f)' <=> Out(f))
    BY <1>3, OthersKeep DEF Waits, IsCaller
  <2> QED BY <1>1, <1>2, <2>1, <2>2, <2>4, <2>5 DEF GatherInv
<1>12. LastInv' /\ WorkInv'
  BY <1>6 DEF LastInv, WorkInv
<1>13. HistoryInv'
  BY <1>6 DEF IInv, HistoryInv, history
<1> QED BY <1>3, <1>8, <1>9, <1>10, <1>11, <1>12, <1>13 DEF IInv, Control

\* It counts itself; the last one clears the flag.
LEMMA EnterKeeps ==
    ASSUME IInv, NEW e \in Emts, Enter(e)
    PROVE  IInv'
<1> USE DEF Enter
<1>1. pc[e] = "enter" /\ LocalInv(e) /\ ClosedInv /\ GatherInv /\ ~Out(e)
  BY DEF IInv, Control, Out
<1>2. ComingIn /\ Active /\ u32RendezvousLock \in Emts /\ arg[e] = u32RendezvousLock
  BY <1>1, WhoeverEnters, InSomething
<1>3. /\ ff /\ Clean /\ cEntered = Cardinality(Insiders)
      /\ \A f \in Emts : Out(f) \/ pc[f] \in {"enter", Waits(f)}
  BY <1>1, <1>2 DEF GatherInv
<1>4. /\ UNCHANGED <<u32RendezvousLock, ff, fFlags, pfn, status, fInRendezvous, want, arg, back, ran, firstError>>
      /\ Clean'
  BY <1>3 DEF globalVars, callVars, history, Clean, NoHistory, eventVars
<1>5. \A f \in Emts : Waits(f)' = Waits(f) /\ Waits(f) \in {"turn", "waitdone", "waitcaller"}
  BY <1>4 DEF Waits, IsCaller
<1>6. pc'[e] = (IF cEntered' # cCpus THEN Waits(e) ELSE "lastin") /\ ~Out(e)' /\ Inside(e)'
  BY <1>5 DEF Go, IInv, TypeOK, Inside, Out
<1>7. OthersStay(e)
  BY Frame DEF IInv, Act, Step
<1>8. Insiders' = Insiders \cup {e} /\ e \notin Insiders /\ Insiders \in SUBSET Emts
  <2>1. \A f \in Emts \ {e} : Inside(f)' <=> Inside(f)
    BY <1>7, OthersKeep
  <2>2. ~Inside(e)
    BY <1>1 DEF Inside
  <2> QED BY <1>6, <2>1, <2>2 DEF Insiders
<1>9. cEntered' = Cardinality(Insiders')
  BY <1>3, <1>8, Counts
<1>10. cEntered' \in 0 .. cCpus /\ (cEntered' = cCpus => Insiders' = Emts)
  <2>1. Insiders' \in SUBSET Emts
    BY <1>8
  <2> HIDE DEF Enter
  <2> QED BY <1>9, <2>1, Counts
<1>11. TypeOK'
  BY <1>10, TypeStep DEF IInv, TypeOK, Act, Step, countVars, eventVars
<1>12. \A f \in Emts \ {e} : LocalInv(f)'
  BY <1>4, <1>7, OthersLocal DEF IInv, Control
<1>13. LocalInv(e)'
  BY <1>1, <1>2, <1>4, <1>6, Basics DEF LocalInv, Inside, Out, Waits, IsCaller
<1>14. Active' /\ ~Closed' /\ ~Opening' /\ ~AtWork' /\ ~Running'
  <2>1. pc'[u32RendezvousLock] \notin {"slate", "raise", "collect", "unlock"}
    BY <1>2, <1>5, <1>6, <1>7, OthersKeep DEF Active
  <2> QED BY <1>2, <1>3, <1>4, <2>1 DEF Active, Closed, Opening, AtWork, Running
<1>15. ClosedInv'
  BY <1>1, <1>2, <1>4, <1>14 DEF ClosedInv, Active
<1>16. GatherInv'
  <2> SUFFICES ASSUME ComingIn' PROVE \A f \in Emts : Out(f)' \/ pc'[f] \in {"enter", Waits(f)'}
    BY <1>3, <1>4, <1>9 DEF GatherInv
  <2>1. pc'[e] = Waits(e)'
    BY <1>5, <1>6 DEF ComingIn
  <2> QED BY <2>1, <1>3, <1>5, <1>7, OthersKeep
<1>17. LastInv'
  <2> SUFFICES ASSUME Starting' PROVE pc'[e] = "lastin" /\ \A f \in Emts \ {e} : pc'[f] = Waits(f)'
    BY <1>4 DEF LastInv
  <2>1. cEntered' = cCpus
    BY DEF Starting
  <2>2. \A f \in Emts : Inside(f)'
    BY <2>1, <1>10 DEF Insiders
  <2>3. \A f \in Emts \ {e} : Inside(f) /\ pc'[f] = pc[f]
    BY <2>2, <1>7, OthersKeep
  <2> QED BY <2>1, <2>3, <1>3, <1>5, <1>6 DEF Inside
<1>18. WorkInv'
  BY <1>14 DEF WorkInv
<1>19. HistoryInv'
  BY <1>4, <1>14 DEF IInv, HistoryInv
<1> QED BY <1>11, <1>12, <1>13, <1>15, <1>16, <1>17, <1>18, <1>19 DEF IInv, Control

\* The first callbacks may run.
LEMMA LastInKeeps ==
    ASSUME IInv, NEW e \in Emts, LastIn(e)
    PROVE  IInv'
<1> USE DEF LastIn
<1>1. pc[e] = "lastin" /\ LocalInv(e) /\ ClosedInv /\ LastInv /\ ~Out(e)
  BY DEF IInv, Control, Out
<1>2. Starting /\ Active /\ u32RendezvousLock \in Emts /\ arg[e] = u32RendezvousLock
  BY <1>1, WhoeverIsLast, InSomething
<1>3. \A f \in Emts : Waits(f) \in {"turn", "waitdone", "waitcaller"}
  BY DEF Waits
<1>4. Clean /\ \A f \in Emts \ {e} : pc[f] = Waits(f)
  BY <1>1, <1>2, <1>3 DEF LastInv
<1>5. /\ UNCHANGED <<u32RendezvousLock, fFlags, pfn, status, fInRendezvous, want, arg, back>>
      /\ UNCHANGED <<cEntered, cDone, cReturned, oneByOne, done, doneCaller, ran, cRan, firstError>>
      /\ ~ff'
  BY DEF callVars, history, countVars
<1>6. pc'[e] = (IF StartsNow(e) THEN "check" ELSE "turn") /\ pc'[e] \in {"check", "turn"}
  BY DEF Go, IInv, TypeOK
<1>7. OthersStay(e)
  BY Frame DEF IInv, Act, Step
<1>8. \A f \in Emts \ {e} : pc'[f] = Waits(f)
  BY <1>4, <1>7, OthersKeep
<1>9. ordered' = Kicks(e) /\ First \in Emts
  BY <1>4, Basics DEF Clean, First, Emts
<1>10. TypeOK'
  BY <1>5, <1>9, TypeStep DEF IInv, TypeOK, Act, Step, Kicks
<1>11. \A f \in Emts \ {e} : LocalInv(f)'
  BY <1>5, <1>7, OthersLocal DEF IInv, Control
<1>12. LocalInv(e)'
  BY <1>1, <1>2, <1>5, <1>6 DEF LocalInv, Inside, Out
<1>13. AtWork' /\ Active' /\ ~ComingIn' /\ ~Starting' /\ ~Closed' /\ ~Opening'
  <2>1. pc'[u32RendezvousLock] \notin {"slate", "raise", "collect", "unlock"}
    BY <1>2, <1>3, <1>6, <1>8
  <2> QED BY <1>2, <1>5, <2>1 DEF Active, Closed, Opening, AtWork, ComingIn, Starting
<1>14. ClosedInv'
  BY <1>1, <1>2, <1>5, <1>13 DEF ClosedInv, Active
<1>15. \A f \in Emts :
          /\ ~Back(f)'
          /\ Working(f)' => f = e /\ StartsNow(e) /\ pc'[f] = "check"
          /\ pc'[f] \notin {"enter", "lastin", "signal", "return", "count", "wake", "leave", "merge", "callback", "prio"}
          /\ pc'[f] = "check" => InTurn(f)'
          /\ fFlags.type # "ONCE" => ~HasDone(f)' /\ ~Did(f)'
          /\ fFlags.type = "ONCE" /\ f # e => pc'[f] # "turn"
  <2> TAKE f \in Emts
  <2>1. pc'[f] \in {"check", "turn", "waitdone", "waitcaller"} /\ (f # e => pc'[f] # "check")
    BY <1>3, <1>6, <1>8
  <2>2. fFlags.type # "ONCE" => pc'[f] \in {"check", "turn"}
    BY <1>6, <1>8 DEF Waits
  <2>3. fFlags.type = "ONCE" /\ f # e => pc'[f] # "turn"
    BY <1>8 DEF Waits
  <2> QED BY <2>1, <2>2, <2>3, <1>6 DEF Back, Out, Working, InTurn, HasDone, Did
<1>16. TurnInv'
  <2>1. \A f \in Emts : (pc[f] = "signal" => mine[f] \in 1 .. cDone)'
    BY <1>15
  <2>2. (fFlags.type # "ONCE" => cDone = Cardinality(Finishers) /\ (done => cDone = cCpus))'
    <3> SUFFICES ASSUME fFlags.type # "ONCE" PROVE cDone' = Cardinality(Finishers') /\ ~done'
      BY <1>5
    <3>1. Finishers' = {}
      BY <1>15 DEF Finishers
    <3>2. cDone' = 0 /\ ~done'
      BY <1>4, <1>5 DEF Clean
    <3> QED BY <3>1, <3>2, FS_EmptySet
  <2>3. (fFlags.type = "ONCE" => /\ cDone = IF \E f \in Emts : InTurn(f) THEN 0 ELSE 1
                                 /\ \A f \in Emts : pc[f] # "turn")'
    <3> SUFFICES ASSUME fFlags.type = "ONCE"
                 PROVE  cDone' = 0 /\ InTurn(e)' /\ \A f \in Emts : pc'[f] # "turn"
      BY <1>5
    <3>1. pc'[e] = "check"
      BY <1>6 DEF StartsNow, Ordered
    <3> QED BY <3>1, <1>4, <1>5, <1>15 DEF Clean
  <2>4. (fFlags.type # "ALL_AT_ONCE" =>
            /\ \A f, g \in Emts : Working(f) /\ Working(g) => f = g
            /\ \A f \in Emts : Working(f) => ordered = {} /\ ~oneByOne /\ ~done
            /\ \A f \in Emts : pc[f] = "signal" => mine[f] = cDone)'
    BY <1>4, <1>5, <1>9, <1>15 DEF Clean, Kicks
  <2>5. (oneByOne => fFlags.type = "ONE_BY_ONE" /\ cDone # cCpus)'
    BY <1>4, <1>5 DEF Clean
  <2>6. First = Turn(1)' /\ (Ordered' <=> Ordered)
    BY <1>5, Basics DEF First, Turn, Ordered
  <2>7. (ordered # {} => Ordered /\ cDone # cCpus /\ ordered = {Turn(cDone + 1)})'
    <3> SUFFICES ASSUME ordered' # {} PROVE Ordered /\ cDone' = 0 /\ ordered' = {First}
      BY <2>6, Basics
    <3> QED BY <1>4, <1>5, <1>9 DEF Clean, Kicks, StartsNow
  <2>8. (Ordered => \A f \in Emts : Working(f) => f = Turn(IF pc[f] = "signal" THEN cDone ELSE cDone + 1))'
    <3> SUFFICES ASSUME Ordered, NEW f \in Emts, Working(f)' PROVE cDone' = 0 /\ pc'[f] # "signal" /\ f = First
      BY <2>6
    <3> QED BY <1>4, <1>5, <1>15 DEF Clean, StartsNow
  <2> QED BY <2>1, <2>2, <2>3, <2>4, <2>5, <2>7, <2>8 DEF TurnInv
<1>17. ReturnInv'
  <2>1. Leavers' = {}
    BY <1>15 DEF Leavers
  <2>2. cReturned' = 0 /\ ~doneCaller'
    BY <1>4, <1>5 DEF Clean
  <2>3. cReturned' = Cardinality(Leavers')
    BY <2>1, <2>2, FS_EmptySet
  <2> QED BY <1>15, <2>2, <2>3 DEF ReturnInv
<1>18. GatherInv' /\ LastInv' /\ WorkInv'
  BY <1>13, <1>15, <1>16, <1>17 DEF GatherInv, LastInv, WorkInv
<1>19. HistoryInv'
  <2>1. status' = 0 /\ firstError' = 0 /\ cRan' = 0 /\ \A f \in Emts : ran'[f] = NIL
    BY <1>4, <1>5 DEF Clean, NoHistory
  <2>2. RanInv'
    <3>1. Runners' = {}
      BY <2>1 DEF Runners
    <3>2. cRan' = Cardinality(Runners')
      BY <2>1, <3>1, FS_EmptySet
    <3>3. fFlags.type = "ONCE" => pc'[e] = "check"
      BY <1>6 DEF StartsNow, Ordered
    <3> QED BY <1>5, <1>15, <2>1, <3>2, <3>3 DEF RanInv, InCallback
  <2>3. StatusInv'
    BY <1>15, <2>1 DEF StatusInv, IsMerged
  <2>4. AgreeInv'
    BY <1>15 DEF AgreeInv
  <2> QED BY <1>5, <2>2, <2>3, <2>4 DEF IInv, HistoryInv
<1> QED BY <1>10, <1>11, <1>12, <1>14, <1>18, <1>19 DEF IInv, Control
-----------------------------------------------------------------------------
(* The steps: at work *)

\* What has to be shown of a step while they work.
LEMMA WorkStep ==
    ASSUME IInv, NEW e \in Emts, Act(e), AtWork, UNCHANGED <<u32RendezvousLock, ff, fFlags, pfn, cEntered>>,
           pc'[e] \notin {"slate", "raise", "collect", "unlock", "enter", "lastin"},
           cDone' \in 0 .. cCpus, cReturned' \in 0 .. cCpus - 1, ordered' \subseteq Emts,
           LocalInv(e)', TurnInv', ReturnInv',
           ran' \in [Emts -> AllCodes \cup {NIL}], firstError' \in AllCodes, RanInv', StatusInv', AgreeInv'
    PROVE  IInv'
<1>1. OthersStay(e)
  BY Frame DEF IInv
<1>2. TypeOK'
  <2>1. cEntered' \in 0 .. cCpus
    BY DEF IInv, TypeOK
  <2> QED BY <2>1, TypeStep DEF IInv
<1>3. \A f \in Emts : LocalInv(f)'
  BY <1>1, OthersLocal DEF IInv, Control
<1>4. u32RendezvousLock \in Emts /\ u32RendezvousLock # NIL
  BY DEF AtWork, Active, IInv, TypeOK
<1>5. pc'[u32RendezvousLock] \notin {"slate", "raise", "collect", "unlock"} /\ pc[u32RendezvousLock] \notin {"slate", "raise", "collect", "unlock"}
  BY <1>1, <1>4, OthersKeep DEF AtWork, Active
<1>6. AtWork' /\ ~ComingIn' /\ ~Starting' /\ ~Closed' /\ ~Opening' /\ Active'
  BY <1>4, <1>5 DEF AtWork, ComingIn, Starting, Closed, Opening, Active
<1>7. ClosedInv'
  <2>1. fFlags \in AllFlags /\ pfn = u32RendezvousLock
    BY <1>4, <1>5 DEF IInv, Control, ClosedInv
  <2> QED BY <1>4, <1>5, <1>6, <2>1 DEF ClosedInv
<1>8. GatherInv' /\ LastInv'
  BY <1>6 DEF GatherInv, LastInv
<1>9. WorkInv'
  <2>1. \A f \in Emts : pc[f] \notin {"enter", "lastin"}
    BY DEF IInv, Control, WorkInv
  <2>2. \A f \in Emts : pc'[f] \notin {"enter", "lastin"}
    BY <1>1, <2>1, OthersKeep
  <2> QED BY <2>2 DEF WorkInv
<1>10. HistoryInv'
  BY DEF HistoryInv
<1> QED BY <1>2, <1>3, <1>7, <1>8, <1>9, <1>10 DEF IInv, Control

\* While one is in its turn the work is not over.
LEMMA NotOver ==
    ASSUME IInv, NEW e \in Emts, InTurn(e)
    PROVE  /\ ~done
           /\ fFlags.type # "ONCE" => cDone <= cCpus - 1
           /\ fFlags.type = "ONCE" => cDone = 0
<1>1. ~Out(e) /\ pc[e] \in {"check", "callback", "merge", "done", "prio"} /\ Working(e) /\ ~HasDone(e)
  BY DEF InTurn, Working, Out, HasDone, Back
<1>2. TurnInv
  BY <1>1, WhoeverWorks
<1>3. fFlags.type # "ONCE" => cDone <= cCpus - 1
  <2>1. Finishers \in SUBSET Emts /\ e \in Emts \ Finishers
    BY <1>1 DEF Finishers
  <2> QED BY <1>2, <2>1, Counts DEF TurnInv
<1>4. fFlags.type = "ONCE" => cDone = 0
  BY <1>2 DEF TurnInv
<1>5. ~done
  <2>1. cDone \in Int
    BY DEF IInv, TypeOK
  <2> QED BY <1>1, <1>2, <1>3, <2>1, Basics DEF TurnInv
<1> QED BY <1>3, <1>4, <1>5

\* A step of an EMT in its turn that stays in its turn and leaves the counters, the
\* events and its place in the order alone.
LEMMA TurnMove ==
    ASSUME IInv, NEW e \in Emts, Act(e), InTurn(e), InTurn(e)',
           UNCHANGED <<u32RendezvousLock, ff, fFlags, pfn, countVars, eventVars, arg, back, want, mine>>,
           fInRendezvous'[e], pc'[e] = "prio" => fSaved'[e],
           ran' \in [Emts -> AllCodes \cup {NIL}], firstError' \in AllCodes, RanInv', StatusInv'
    PROVE  IInv'
<1>1. ~Out(e) /\ pc[e] \in {"check", "callback", "merge", "done", "prio"} /\ (pc[e] = "prio" => arg[e] # NIL)
  BY DEF InTurn, Working, Out
<1>2. pc'[e] \in {"check", "callback", "merge", "done", "prio"} /\ (pc'[e] = "prio" => arg[e] # NIL)
  BY DEF InTurn, Working
<1>3. AtWork /\ u32RendezvousLock \in Emts /\ arg[e] = u32RendezvousLock /\ TurnInv /\ ReturnInv /\ AgreeInv
  BY <1>1, WhoeverWorks
<1>4. /\ cEntered' = cEntered /\ cDone' = cDone /\ cReturned' = cReturned
      /\ ordered' = ordered /\ oneByOne' = oneByOne /\ done' = done /\ doneCaller' = doneCaller
  BY DEF countVars, eventVars
<1>5. OthersStay(e)
  BY Frame DEF IInv
<1>6. LocalInv(e)'
  BY <1>1, <1>2, <1>3, Basics DEF IInv, Control, LocalInv, Inside, Out
<1>7. ~HasDone(e) /\ ~HasDone(e)' /\ ~Back(e) /\ ~Back(e)' /\ Working(e) /\ Working(e)' /\ pc[e] # "signal" /\ pc'[e] # "signal"
  BY <1>1, <1>2 DEF HasDone, Back, Out, InTurn
<1>8. TurnInv' /\ ReturnInv'
  BY <1>2, <1>3, <1>4, <1>5, <1>7, WorkKeeps
<1>9. AgreeInv'
  <2>1. \A f \in Emts : pc[f] \notin {"count", "wake", "leave"}
    BY <1>3, NotOver DEF ReturnInv, Back, Out
  <2> QED BY <1>2, <1>5, <2>1, OthersKeep DEF AgreeInv
<1>10. cDone' \in 0 .. cCpus /\ cReturned' \in 0 .. cCpus - 1 /\ ordered' \subseteq Emts
  BY <1>4 DEF IInv, TypeOK
<1> QED BY <1>2, <1>3, <1>4, <1>6, <1>8, <1>9, <1>10, WorkStep

\* It looks whether an earlier callback has failed.
LEMMA CheckKeeps ==
    ASSUME IInv, NEW e \in Emts, Check(e)
    PROVE  IInv'
<1> USE DEF Check
<1>1. pc[e] = "check" /\ pc'[e] = (IF Stopped THEN "done" ELSE "callback")
  BY DEF Go, IInv, TypeOK
<1>2. InTurn(e) /\ InTurn(e)' /\ ~Out(e) /\ Act(e)
  BY <1>1 DEF InTurn, Working, Out, Act, Step
<1>3. RanInv /\ StatusInv /\ fFlags \in AllFlags
  BY <1>1, <1>2, WhoeverWorks
<1>4. /\ UNCHANGED <<u32RendezvousLock, ff, fFlags, pfn, status, countVars, eventVars, arg, back, want, mine, rc, ran, cRan, firstError>>
      /\ (fInRendezvous'[e] <=> fInRendezvous[e]) /\ fInRendezvous[e]
  BY <1>1 DEF globalVars, callVars, history, IInv, Control, LocalInv
<1>5. OthersStay(e)
  BY <1>2, Frame DEF IInv
<1>6. \A f \in Emts :
         /\ NotRun(f)' => NotRun(f)
         /\ Did(f)' => Did(f) \/ Stopped
         /\ InCallback(f)' => InCallback(f) \/ ~Stopped
         /\ pc'[f] = "merge" <=> pc[f] = "merge"
         /\ fFlags.type = "ONCE" => (pc'[f] = "check" \/ InCallback(f)' <=> pc[f] = "check" \/ InCallback(f))
  <2>1. /\ NotRun(e) /\ (Did(e)' => Stopped) /\ (InCallback(e)' <=> ~Stopped)
        /\ pc[e] # "merge" /\ pc'[e] # "merge"
    BY <1>1 DEF NotRun, Did, InCallback, HasDone, Back, Out
  <2>2. fFlags.type = "ONCE" => ~Stopped
    BY <1>3 DEF AllFlags, Stopped
  <2> QED BY <1>1, <1>5, <2>1, <2>2, OthersKeep
<1>7. RanInv'
  <2>1. Runners' = Runners
    BY <1>4 DEF Runners
  <2> QED BY <1>3, <1>4, <1>6, <2>1 DEF RanInv, Stopped
<1>8. StatusInv'
  <2>1. \A f \in Emts : IsMerged(f)' <=> IsMerged(f)
    BY <1>4, <1>6 DEF IsMerged
  <2> QED BY <1>3, <1>4, <1>6, <2>1 DEF StatusInv
<1>9. ran' \in [Emts -> AllCodes \cup {NIL}] /\ firstError' \in AllCodes
  BY <1>4 DEF IInv, HistoryInv
<1> QED BY <1>1, <1>2, <1>4, <1>7, <1>8, <1>9, TurnMove

\* What a callback returned is recorded; it may yet have to be merged.
LEMMA ReturnedKeeps ==
    ASSUME IInv, NEW e \in Emts, pc[e] = "callback", NEW code \in AllCodes, Returned(e, code), OthersStay(e),
           pc'[e] \in {"done", "merge"}, pc'[e] = "done" <=> code = 0, rc'[e] = code, UNCHANGED <<fFlags, status>>
    PROVE  /\ RanInv' /\ StatusInv'
           /\ ran' \in [Emts -> AllCodes \cup {NIL}] /\ firstError' \in AllCodes
<1>1. ~Out(e) /\ Working(e) /\ InCallback(e) /\ NotRun(e)
  BY DEF Out, Working, InCallback, NotRun
<1>2. RanInv /\ StatusInv /\ TurnInv /\ fFlags \in AllFlags
  BY <1>1, WhoeverWorks
<1>3. ran \in [Emts -> AllCodes \cup {NIL}] /\ firstError \in AllCodes /\ status \in AllCodes /\ ran[e] = NIL
  BY <1>1, <1>2 DEF IInv, HistoryInv, TypeOK, RanInv
<1>4. /\ ran' \in [Emts -> AllCodes \cup {NIL}] /\ firstError' \in AllCodes
      /\ ran'[e] = code /\ \A f \in Emts \ {e} : ran'[f] = ran[f]
      /\ cRan' = cRan + 1 /\ firstError' = (IF firstError = 0 /\ code < 0 THEN code ELSE firstError)
  BY <1>3 DEF Returned
<1>5. code \in Int /\ code # NIL /\ firstError \in Int /\ status \in Int /\ \A f \in Emts : ran[f] # NIL => ran[f] \in Int
  BY <1>3, Basics
<1>6. \A f \in Emts \ {e} :
         /\ NotRun(f)' <=> NotRun(f)
         /\ Did(f)' <=> Did(f)
         /\ InCallback(f)' <=> InCallback(f)
         /\ pc'[f] = pc[f] /\ rc'[f] = rc[f]
         /\ Working(f)' <=> Working(f)
  BY OthersKeep
<1>7. ~NotRun(e)' /\ ~InCallback(e)' /\ pc'[e] # "check" /\ pc[e] # "merge"
  BY DEF NotRun, InCallback
<1>8. \A f \in Emts \ {e} : fFlags.type # "ALL_AT_ONCE" => ~Working(f)
  BY <1>1, <1>2 DEF TurnInv
<1>9. \A f \in Emts \ {e} : fFlags.type # "ALL_AT_ONCE" => pc[f] \notin {"check", "merge"} /\ ~InCallback(f)
  BY <1>8 DEF Working, InCallback
<1>10. \A f \in Emts : ran[f] # NIL /\ ran[f] < 0 /\ fFlags.stop => FALSE
  <2> SUFFICES ASSUME NEW f \in Emts, ran[f] # NIL, ran[f] < 0, fFlags.stop PROVE FALSE
    OBVIOUS
  <2>1. fFlags.type # "ALL_AT_ONCE" /\ ~(status < 0) /\ f # e
    BY <1>1, <1>2, <1>3 DEF RanInv, AllFlags
  <2>2. IsMerged(f)
    BY <1>9, <2>1 DEF IsMerged
  <2> QED BY <1>2, <1>5, <2>1, <2>2 DEF StatusInv
<1>11. RanInv'
  <2>1. (cRan = Cardinality(Runners))'
    <3>1. Runners' = Runners \cup {e} /\ e \notin Runners /\ Runners \in SUBSET Emts
      BY <1>3, <1>4, <1>5 DEF Runners
    <3> QED BY <1>2, <1>4, <3>1, Counts DEF RanInv
  <2>2. (\A f \in Emts : NotRun(f) => ran[f] = NIL)'
    BY <1>2, <1>4, <1>6, <1>7 DEF RanInv
  <2>3. (fFlags.type = "ONCE" => cRan = IF \E f \in Emts : pc[f] = "check" \/ InCallback(f) THEN 0 ELSE 1)'
    <3> SUFFICES ASSUME fFlags.type = "ONCE"
                 PROVE  cRan' = 1 /\ ~\E f \in Emts : pc'[f] = "check" \/ InCallback(f)'
      OBVIOUS
    <3>1. cRan = 0
      BY <1>1, <1>2 DEF RanInv
    <3> QED BY <3>1, <1>4, <1>6, <1>7, <1>9
  <2>4. (fFlags.type # "ONCE" => \A f \in Emts : Did(f) => ran[f] # NIL \/ (fFlags.stop /\ status < 0))'
    BY <1>2, <1>4, <1>5, <1>6 DEF RanInv
  <2>5. (fFlags.stop => \A f, g \in Emts : ran[f] # NIL /\ ran[f] < 0 /\ ran[g] # NIL /\ ran[g] < 0 => f = g)'
    BY <1>4, <1>10
  <2>6. (fFlags.stop => \A f \in Emts : InCallback(f) => ~(status < 0))'
    BY <1>2, <1>6, <1>7 DEF RanInv
  <2> QED BY <2>1, <2>2, <2>3, <2>4, <2>5, <2>6 DEF RanInv
<1>12. StatusInv'
  <2>1. \A f \in Emts \ {e} : IsMerged(f)' <=> IsMerged(f)
    BY <1>4, <1>6 DEF IsMerged
  <2>2. ~IsMerged(e) /\ (IsMerged(e)' => code = 0)
    BY <1>3 DEF IsMerged
  <2>3. (\A f \in Emts : pc[f] = "merge" => ran[f] # NIL /\ rc[f] = ran[f] /\ rc[f] # 0)'
    BY <1>2, <1>4, <1>5, <1>6 DEF StatusInv
  <2>4. (firstError = 0 => \A f \in Emts : ran[f] # NIL => ran[f] >= 0)'
    BY <1>2, <1>4, <1>5 DEF StatusInv
  <2>5. (firstError # 0 => firstError < 0 /\ \E f \in Emts : ran[f] # NIL /\ ran[f] = firstError)'
    <3>1. CASE firstError = 0 /\ code < 0
      BY <3>1, <1>4, <1>5
    <3>2. CASE ~(firstError = 0 /\ code < 0)
      <4> SUFFICES ASSUME firstError # 0 PROVE firstError < 0 /\ \E f \in Emts : ran'[f] # NIL /\ ran'[f] = firstError
        BY <3>2, <1>4
      <4>1. PICK f \in Emts : ran[f] # NIL /\ ran[f] = firstError
        BY <1>2 DEF StatusInv
      <4> QED BY <4>1, <1>2, <1>3, <1>4 DEF StatusInv
    <3> QED BY <3>1, <3>2
  <2>6. (status = 0 => \A f \in Emts : IsMerged(f) => ran[f] = 0)'
    BY <1>2, <1>4, <2>1, <2>2 DEF StatusInv
  <2>7. (status # 0 => \E f \in Emts : IsMerged(f) /\ ran[f] = status)'
    <3> SUFFICES ASSUME status # 0 PROVE \E f \in Emts : IsMerged(f)' /\ ran'[f] = status
      OBVIOUS
    <3>1. PICK f \in Emts : IsMerged(f) /\ ran[f] = status
      BY <1>2 DEF StatusInv
    <3> QED BY <3>1, <1>4, <2>1, <2>2
  <2>8. (status > 0 => \A f \in Emts : IsMerged(f) => ran[f] = 0 \/ ran[f] >= status)'
    BY <1>2, <1>4, <2>1, <2>2 DEF StatusInv
  <2>9. (status < 0 /\ fFlags.type # "ALL_AT_ONCE" => status = firstError)'
    BY <1>2, <1>4, <1>5 DEF StatusInv
  <2> QED BY <2>3, <2>4, <2>5, <2>6, <2>7, <2>8, <2>9 DEF StatusInv
<1> QED BY <1>4, <1>11, <1>12

\* It runs the callback.
LEMMA CallbackKeeps ==
    ASSUME IInv, NEW e \in Emts, Callback(e) \/ NestedCall(e)
    PROVE  IInv'
<1>1. PICK code \in AllCodes :
         /\ pc[e] = "callback" /\ Returned(e, code) /\ rc' = [rc EXCEPT ![e] = code]
         /\ Go(e, IF code = 0 THEN "done" ELSE "merge")
         /\ UNCHANGED <<globalVars, countVars, eventVars, callVars, prioVars, arg, back, mine>>
  <2>1. CASE Callback(e)
    BY <2>1, Basics DEF Callback
  <2>2. CASE NestedCall(e)
    <3>1. VERR_DEADLOCK \in AllCodes
      BY Basics
    <3>2. VERR_DEADLOCK # 0
      BY DEF VERR_DEADLOCK
    <3> QED BY <2>2, <3>1, <3>2 DEF NestedCall
  <2> QED BY <2>1, <2>2
<1>2. pc'[e] \in {"done", "merge"} /\ (pc'[e] = "done" <=> code = 0) /\ rc'[e] = code
  BY <1>1 DEF Go, IInv, TypeOK
<1>3. InTurn(e) /\ InTurn(e)' /\ Act(e)
  BY <1>1, <1>2 DEF InTurn, Working, Act, Step
<1>4. /\ UNCHANGED <<u32RendezvousLock, ff, fFlags, pfn, status, countVars, eventVars, arg, back, want, mine>>
      /\ (fInRendezvous'[e] <=> fInRendezvous[e]) /\ fInRendezvous[e]
  BY <1>1 DEF globalVars, callVars, IInv, Control, LocalInv
<1>5. OthersStay(e)
  BY <1>3, Frame DEF IInv
<1>6. /\ RanInv' /\ StatusInv'
      /\ ran' \in [Emts -> AllCodes \cup {NIL}] /\ firstError' \in AllCodes
  BY <1>1, <1>2, <1>4, <1>5, ReturnedKeeps
<1> QED BY <1>2, <1>3, <1>4, <1>6, TurnMove

\* The priority guard entered, or left, in a callback.
LEMMA PriorityInside ==
    ASSUME IInv, NEW e \in Emts, (BeginPriority(e) /\ pc[e] # "run") \/ (EndPriority(e) /\ arg[e] # NIL)
    PROVE  IInv'
<1>1. /\ InCallback(e) /\ InCallback(e)' /\ pc'[e] \in {"callback", "prio"}
      /\ UNCHANGED <<u32RendezvousLock, ff, fFlags, pfn, status, countVars, eventVars, arg, back, want, mine, rc, history>>
      /\ fInRendezvous'[e] /\ (pc'[e] = "prio" => fSaved'[e])
  <2>0. LocalInv(e)
    BY DEF IInv, Control
  <2>1. CASE BeginPriority(e) /\ pc[e] # "run"
    <3>1. pc[e] = "callback" /\ pc'[e] = "prio"
      BY <2>1 DEF BeginPriority, Go, IInv, TypeOK
    <3>2. arg[e] # NIL /\ fInRendezvous[e]
      BY <2>0, <3>1 DEF LocalInv, Inside, Out
    <3> QED BY <2>1, <3>1, <3>2 DEF BeginPriority, InCallback, IInv, TypeOK, callVars
  <2>2. CASE EndPriority(e) /\ arg[e] # NIL
    <3>1. pc[e] = "prio" /\ pc'[e] = "callback"
      BY <2>2 DEF EndPriority, Go, IInv, TypeOK
    <3>2. fSaved[e] /\ fInRendezvous[e]
      BY <2>0, <2>2, <3>1 DEF LocalInv
    <3> QED BY <2>2, <3>1, <3>2 DEF EndPriority, InCallback, Restored, IInv, TypeOK, callVars
  <2> QED BY <2>1, <2>2
<1>2. InTurn(e) /\ InTurn(e)' /\ Act(e) /\ ~Out(e) /\ pc[e] \in {"callback", "prio"}
  BY <1>1 DEF InTurn, Working, Act, Step, InCallback, Out
<1>3. RanInv /\ StatusInv
  BY <1>2, WhoeverWorks
<1>4. OthersStay(e)
  BY <1>2, Frame DEF IInv
<1>5. NotRun(e) /\ ~Did(e)' /\ pc[e] # "merge" /\ pc'[e] # "merge"
  BY <1>1 DEF NotRun, Did, HasDone, Back, Out, InCallback
<1>6. RanInv' /\ StatusInv'
  BY <1>1, <1>3, <1>4, <1>5, HistoryKeeps
<1>7. ran' \in [Emts -> AllCodes \cup {NIL}] /\ firstError' \in AllCodes
  BY <1>1 DEF IInv, HistoryInv, history
<1> QED BY <1>1, <1>2, <1>6, <1>7, TurnMove

\* A code is merged into the status.
LEMMA MergeKeeps ==
    ASSUME IInv, NEW e \in Emts, Merge(e)
    PROVE  IInv'
<1> USE DEF Merge
<1>1. pc[e] = "merge" /\ pc'[e] = "done"
  BY DEF Go, IInv, TypeOK
<1>2. InTurn(e) /\ InTurn(e)' /\ Act(e) /\ ~Out(e) /\ Working(e)
  BY <1>1 DEF InTurn, Working, Act, Step, Out
<1>3. RanInv /\ StatusInv /\ TurnInv /\ fFlags \in AllFlags
  BY <1>1, <1>2, WhoeverWorks
<1>4. /\ UNCHANGED <<u32RendezvousLock, ff, fFlags, pfn, countVars, eventVars, arg, back, want, mine, ran, cRan, firstError>>
      /\ (fInRendezvous'[e] <=> fInRendezvous[e]) /\ fInRendezvous[e]
  BY <1>1 DEF callVars, history, IInv, Control, LocalInv
<1>5. OthersStay(e)
  BY <1>2, Frame DEF IInv
<1>6. \A f \in Emts \ {e} :
         /\ NotRun(f)' <=> NotRun(f)
         /\ Did(f)' <=> Did(f)
         /\ InCallback(f)' <=> InCallback(f)
         /\ pc'[f] = pc[f] /\ rc'[f] = rc[f]
         /\ IsMerged(f)' <=> IsMerged(f)
  BY <1>4, <1>5, OthersKeep DEF IsMerged
<1>7. /\ ~NotRun(e)' /\ ~InCallback(e) /\ ~InCallback(e)' /\ Did(e)
  BY <1>1 DEF NotRun, InCallback, Did
<1>8. \A f \in Emts \ {e} : fFlags.type # "ALL_AT_ONCE" => pc[f] # "merge" /\ ~InCallback(f)
  BY <1>2, <1>3 DEF TurnInv, Working, InCallback
<1>9. /\ ran[e] # NIL /\ rc[e] = ran[e] /\ rc[e] # 0 /\ rc[e] \in Int /\ status \in Int /\ firstError \in Int
      /\ \A f \in Emts : ran[f] # NIL => ran[f] \in Int
  BY <1>1, <1>3, Basics DEF StatusInv, IInv, TypeOK, HistoryInv
<1>10. status' = IF status < 0 \/ (status # 0 /\ rc[e] > status) THEN status ELSE rc[e]
  BY DEF Merged
<1>11. IsMerged(e)' /\ ~IsMerged(e)
  BY <1>1, <1>4, <1>9 DEF IsMerged
<1> HIDE DEF Merge
<1>12. RanInv'
  <2>1. Runners' = Runners
    BY <1>4 DEF Runners
  <2>2. (fFlags.stop => \A f \in Emts : InCallback(f) => ~(status < 0))'
    <3> SUFFICES ASSUME fFlags.stop, NEW f \in Emts, InCallback(f)' PROVE FALSE
      BY <1>4
    <3>1. fFlags.type # "ALL_AT_ONCE"
      BY <1>3 DEF AllFlags
    <3> QED BY <3>1, <1>6, <1>7, <1>8
  <2>3. status < 0 => status' < 0
    BY <1>9, <1>10
  <2>4. (fFlags.type # "ONCE" => \A f \in Emts : Did(f) => ran[f] # NIL \/ (fFlags.stop /\ status < 0))'
    BY <1>3, <1>4, <1>6, <1>7, <2>3 DEF RanInv
  <2>5. (\A f \in Emts : NotRun(f) => ran[f] = NIL)'
    BY <1>3, <1>4, <1>6, <1>7 DEF RanInv
  <2>6. (\E f \in Emts : pc'[f] = "check" \/ InCallback(f)') <=> (\E f \in Emts : pc[f] = "check" \/ InCallback(f))
    BY <1>1, <1>6, <1>7
  <2> QED BY <1>3, <1>4, <2>1, <2>2, <2>4, <2>5, <2>6 DEF RanInv
<1>13. StatusInv'
  <2>1. (\A f \in Emts : pc[f] = "merge" => ran[f] # NIL /\ rc[f] = ran[f] /\ rc[f] # 0)'
    BY <1>1, <1>3, <1>4, <1>6 DEF StatusInv
  <2>2. /\ (firstError = 0 => \A f \in Emts : ran[f] # NIL => ran[f] >= 0)'
        /\ (firstError # 0 => firstError < 0 /\ \E f \in Emts : ran[f] # NIL /\ ran[f] = firstError)'
    BY <1>3, <1>4 DEF StatusInv
  <2>3. status' # 0
    BY <1>9, <1>10
  <2>4. \E f \in Emts : IsMerged(f)' /\ ran'[f] = status'
    <3>1. CASE status' = rc[e]
      BY <3>1, <1>4, <1>9, <1>11
    <3>2. CASE status' = status
      <4>1. PICK f \in Emts : IsMerged(f) /\ ran[f] = status
        BY <3>2, <2>3, <1>3 DEF StatusInv
      <4> QED BY <3>2, <4>1, <1>4, <1>6, <1>11
    <3> QED BY <3>1, <3>2, <1>10
  <2>5. status' > 0 => \A f \in Emts : IsMerged(f)' => ran'[f] = 0 \/ ran'[f] >= status'
    <3> SUFFICES ASSUME status' > 0, NEW f \in Emts, IsMerged(f)' PROVE ran[f] = 0 \/ ran[f] >= status'
      BY <1>4
    <3>1. CASE f = e
      BY <3>1, <1>9, <1>10
    <3>2. CASE f # e
      <4>1. IsMerged(f) /\ ran[f] # NIL
        BY <3>2, <1>6 DEF IsMerged
      <4>2. ran[f] \in Int /\ (status = 0 => ran[f] = 0) /\ (status > 0 => ran[f] = 0 \/ ran[f] >= status)
        BY <4>1, <1>3, <1>9 DEF StatusInv
      <4> QED BY <4>2, <1>9, <1>10
    <3> QED BY <3>1, <3>2
  <2>6. status' < 0 /\ fFlags.type # "ALL_AT_ONCE" => status' = firstError
    <3> SUFFICES ASSUME status' < 0, fFlags.type # "ALL_AT_ONCE" PROVE status' = firstError
      OBVIOUS
    <3>1. CASE status < 0
      BY <3>1, <1>3, <1>9, <1>10 DEF StatusInv
    <3>2. CASE ~(status < 0)
      <4>1. status' = rc[e] /\ ran[e] < 0
        BY <3>2, <1>9, <1>10
      <4>2. firstError # 0
        BY <4>1, <1>3, <1>9 DEF StatusInv
      <4>3. PICK f \in Emts : ran[f] # NIL /\ ran[f] = firstError /\ firstError < 0
        BY <4>2, <1>3 DEF StatusInv
      <4>4. f # e => IsMerged(f)
        BY <4>3, <1>8 DEF IsMerged
      <4>5. ~IsMerged(f)
        BY <4>3, <3>2, <1>3, <1>9 DEF StatusInv
      <4> QED BY <4>1, <4>3, <4>4, <4>5, <1>9
    <3> QED BY <3>1, <3>2
  <2> QED BY <1>4, <2>1, <2>2, <2>3, <2>4, <2>5, <2>6 DEF StatusInv
<1>14. ran' \in [Emts -> AllCodes \cup {NIL}] /\ firstError' \in AllCodes
  BY <1>4 DEF IInv, HistoryInv
<1> QED BY <1>1, <1>2, <1>4, <1>12, <1>13, <1>14, TurnMove

\* It takes the event that says it is its turn.
LEMMA TakeTurnKeeps ==
    ASSUME IInv, NEW e \in Emts, TakeTurn(e)
    PROVE  IInv'
<1> USE DEF TakeTurn
<1>1. pc[e] = "turn" /\ pc'[e] = "check" /\ Act(e) /\ ~Out(e)
  BY DEF Go, IInv, TypeOK, Act, Step, Out
<1>2. ordered # {} \/ oneByOne \/ allAtOnce
  OBVIOUS
<1>3. /\ AtWork /\ u32RendezvousLock \in Emts /\ arg[e] = u32RendezvousLock
      /\ TurnInv /\ ReturnInv /\ RanInv /\ StatusInv /\ AgreeInv
  BY <1>1, <1>2, WhoeverWorks
<1>4. /\ UNCHANGED <<u32RendezvousLock, ff, fFlags, pfn, status, cEntered, cDone, cReturned, done, doneCaller>>
      /\ UNCHANGED <<fInRendezvous, arg, back, want, mine, rc, ran, cRan, firstError>>
  BY DEF globalVars, countVars, callVars, history
<1>5. OthersStay(e)
  BY <1>1, Frame DEF IInv
<1>6. LocalInv(e)'
  BY <1>1, <1>3, <1>4, Basics DEF IInv, Control, LocalInv, Inside, Out
<1>7. \A f \in Emts \ {e} :
         /\ HasDone(f)' <=> HasDone(f)
         /\ Back(f)' <=> Back(f)
         /\ Working(f)' <=> Working(f)
         /\ InTurn(f)' <=> InTurn(f)
         /\ pc'[f] = pc[f] /\ mine'[f] = mine[f]
  BY <1>5, OthersKeep
<1>8. /\ ~HasDone(e) /\ ~HasDone(e)' /\ ~Back(e) /\ ~Back(e)' /\ ~Working(e) /\ Working(e)' /\ InTurn(e)'
      /\ NotRun(e) /\ ~Did(e)' /\ ~InCallback(e)'
  BY <1>1 DEF HasDone, Back, Out, Working, InTurn, NotRun, Did, InCallback
<1>9. Finishers' = Finishers /\ Leavers' = Leavers /\ Finishers \in SUBSET Emts /\ e \in Emts \ Finishers
  BY <1>7, <1>8 DEF Finishers, Leavers
<1>10. fFlags.type # "ONCE" /\ cDone = Cardinality(Finishers) /\ (done => cDone = cCpus)
  BY <1>1, <1>3 DEF TurnInv
<1>11. cDone \in Int /\ cDone <= cCpus - 1
  BY <1>9, <1>10, Counts DEF IInv, TypeOK
<1>12. ~done
  BY <1>10, <1>11, Basics
<1>13. (Ordered' <=> Ordered) /\ \A n : Turn(n)' = Turn(n)
  BY <1>4 DEF Ordered, Turn
<1>14. fFlags.type # "ALL_AT_ONCE" => (\A f \in Emts : ~Working(f)) /\ ordered' = {} /\ ~oneByOne'
  <2> SUFFICES ASSUME fFlags.type # "ALL_AT_ONCE" PROVE (\A f \in Emts : ~Working(f)) /\ ordered' = {} /\ ~oneByOne'
    OBVIOUS
  <2>1. \A f \in Emts : ~Working(f)
    BY <1>3 DEF TurnInv, Ordered
  <2>2. CASE fFlags.type = "ONE_BY_ONE"
    BY <2>1, <2>2, <1>3 DEF TurnInv, Ordered
  <2>3. CASE Ordered
    BY <2>1, <2>3, <1>3 DEF TurnInv, Ordered
  <2> QED BY <2>1, <2>2, <2>3
<1>15. fFlags.type = "ALL_AT_ONCE" => ordered' = {} /\ ~oneByOne'
  BY <1>3 DEF TurnInv, Ordered
<1>16. Ordered => e = Turn(cDone + 1)
  BY <1>3 DEF TurnInv, Ordered
<1> HIDE DEF TakeTurn
<1>17. TurnInv'
  <2>1. (\A f \in Emts : pc[f] = "signal" => mine[f] \in 1 .. cDone)'
    BY <1>1, <1>3, <1>4, <1>7 DEF TurnInv
  <2>2. (fFlags.type # "ONCE" => cDone = Cardinality(Finishers) /\ (done => cDone = cCpus))'
    BY <1>4, <1>9, <1>10
  <2>3. (fFlags.type = "ONCE" => /\ cDone = IF \E f \in Emts : InTurn(f) THEN 0 ELSE 1
                                 /\ \A f \in Emts : pc[f] # "turn")'
    BY <1>4, <1>10
  <2>4. (fFlags.type # "ALL_AT_ONCE" =>
            /\ \A f, g \in Emts : Working(f) /\ Working(g) => f = g
            /\ \A f \in Emts : Working(f) => ordered = {} /\ ~oneByOne /\ ~done
            /\ \A f \in Emts : pc[f] = "signal" => mine[f] = cDone)'
    BY <1>1, <1>3, <1>4, <1>7, <1>12, <1>14 DEF TurnInv
  <2>5. (oneByOne => fFlags.type = "ONE_BY_ONE" /\ cDone # cCpus)'
    BY <1>14, <1>15
  <2>6. (ordered # {} => Ordered /\ cDone # cCpus /\ ordered = {Turn(cDone + 1)})'
    BY <1>14, <1>15
  <2>7. (Ordered => \A f \in Emts : Working(f) => f = Turn(IF pc[f] = "signal" THEN cDone ELSE cDone + 1))'
    <3> SUFFICES ASSUME Ordered, NEW f \in Emts, Working(f)'
                 PROVE  f = Turn(IF pc'[f] = "signal" THEN cDone ELSE cDone + 1)
      BY <1>4, <1>13
    <3>1. f = e
      BY <1>7, <1>14 DEF Ordered
    <3> QED BY <3>1, <1>1, <1>16
  <2> QED BY <2>1, <2>2, <2>3, <2>4, <2>5, <2>6, <2>7 DEF TurnInv
<1>18. ReturnInv'
  BY <1>1, <1>3, <1>4, <1>7, <1>8, <1>9 DEF ReturnInv
<1>19. RanInv' /\ StatusInv'
  <2>1. UNCHANGED history
    BY <1>4 DEF history
  <2> QED BY <1>1, <1>3, <1>4, <1>5, <1>8, <1>10, <2>1, HistoryKeeps
<1>20. AgreeInv'
  BY <1>1, <1>3, <1>4, <1>5, AgreeKeeps
<1>21. cDone' \in 0 .. cCpus /\ cReturned' \in 0 .. cCpus - 1 /\ ordered' \subseteq Emts
  BY <1>4, <1>14, <1>15 DEF IInv, TypeOK
<1>22. ran' \in [Emts -> AllCodes \cup {NIL}] /\ firstError' \in AllCodes
  BY <1>4 DEF IInv, HistoryInv
<1> QED BY <1>1, <1>3, <1>4, <1>6, <1>17, <1>18, <1>19, <1>20, <1>21, <1>22, WorkStep

\* It waits for the others to be done.
LEMMA DoneKeeps ==
    ASSUME IInv, NEW e \in Emts, Done(e)
    PROVE  IInv'
<1> USE DEF Done
<1>1. pc[e] = "done" /\ pc'[e] = "signal" /\ Act(e) /\ ~Out(e) /\ cDone' = cDone + 1 /\ mine'[e] = cDone'
  BY DEF Go, IInv, TypeOK, Act, Step, Out
<1>2. /\ AtWork /\ u32RendezvousLock \in Emts /\ arg[e] = u32RendezvousLock
      /\ TurnInv /\ ReturnInv /\ RanInv /\ StatusInv /\ AgreeInv
  BY <1>1, WhoeverWorks
<1>3. /\ UNCHANGED <<u32RendezvousLock, ff, fFlags, pfn, status, cEntered, cReturned, ordered, oneByOne, done, doneCaller>>
      /\ UNCHANGED <<fInRendezvous, arg, back, want, rc, ran, cRan, firstError>>
  BY DEF globalVars, eventVars, callVars, history
<1> HIDE DEF Done
<1>4. OthersStay(e)
  BY <1>1, Frame DEF IInv
<1>5. LocalInv(e)'
  BY <1>1, <1>2, <1>3, Basics DEF IInv, Control, LocalInv, Inside, Out
<1>6. \A f \in Emts \ {e} :
         /\ HasDone(f)' <=> HasDone(f)
         /\ Back(f)' <=> Back(f)
         /\ Working(f)' <=> Working(f)
         /\ InTurn(f)' <=> InTurn(f)
         /\ pc'[f] = pc[f] /\ mine'[f] = mine[f]
  BY <1>4, OthersKeep
<1>7. /\ ~HasDone(e) /\ HasDone(e)' /\ ~Back(e) /\ ~Back(e)' /\ Working(e) /\ Working(e)' /\ InTurn(e) /\ ~InTurn(e)'
      /\ ~NotRun(e)' /\ Did(e) /\ ~InCallback(e) /\ ~InCallback(e)'
  BY <1>1 DEF HasDone, Back, Out, Working, InTurn, NotRun, Did, InCallback
<1>8. Finishers' = Finishers \cup {e} /\ Leavers' = Leavers /\ Finishers \in SUBSET Emts /\ e \in Emts \ Finishers
  BY <1>6, <1>7 DEF Finishers, Leavers
<1>9. /\ ~done /\ (fFlags.type # "ONCE" => cDone <= cCpus - 1) /\ (fFlags.type = "ONCE" => cDone = 0)
      /\ cDone \in Nat
  BY <1>7, NotOver DEF IInv, TypeOK
<1>10. cDone' \in 1 .. cCpus
  BY <1>1, <1>9, Basics
<1>11. (Ordered' <=> Ordered) /\ \A n : Turn(n)' = Turn(n)
  BY <1>3 DEF Ordered, Turn
<1>12. ordered = {} /\ ~oneByOne
  BY <1>2, <1>7 DEF TurnInv, Ordered
<1>13. fFlags.type # "ALL_AT_ONCE" => \A f \in Emts \ {e} : ~Working(f) /\ pc[f] # "signal"
  <2>1. fFlags.type # "ALL_AT_ONCE" => \A f \in Emts \ {e} : ~Working(f)
    BY <1>2, <1>7 DEF TurnInv
  <2> QED BY <2>1 DEF Working
<1>14. TurnInv'
  <2>1. (\A f \in Emts : pc[f] = "signal" => mine[f] \in 1 .. cDone)'
    <3> SUFFICES ASSUME NEW f \in Emts, pc'[f] = "signal" PROVE mine'[f] \in 1 .. cDone'
      OBVIOUS
    <3>1. CASE f = e
      BY <3>1, <1>1, <1>10
    <3>2. CASE f # e
      <4>1. mine[f] \in 1 .. cDone
        BY <3>2, <1>2, <1>6 DEF TurnInv
      <4> QED BY <3>2, <4>1, <1>1, <1>6, <1>9
    <3> QED BY <3>1, <3>2
  <2>2. (fFlags.type # "ONCE" => cDone = Cardinality(Finishers) /\ (done => cDone = cCpus))'
    <3>1. fFlags.type # "ONCE" => cDone' = Cardinality(Finishers')
      BY <1>1, <1>2, <1>8, Counts DEF TurnInv
    <3> QED BY <1>3, <1>9, <3>1
  <2>3. (fFlags.type = "ONCE" => /\ cDone = IF \E f \in Emts : InTurn(f) THEN 0 ELSE 1
                                 /\ \A f \in Emts : pc[f] # "turn")'
    <3> SUFFICES ASSUME fFlags.type = "ONCE"
                 PROVE  cDone' = 1 /\ \A f \in Emts : ~InTurn(f)' /\ pc'[f] # "turn"
      BY <1>3
    <3>1. \A f \in Emts \ {e} : ~InTurn(f)
      BY <1>13 DEF InTurn
    <3> QED BY <3>1, <1>1, <1>2, <1>6, <1>7, <1>9 DEF TurnInv
  <2>4. (fFlags.type # "ALL_AT_ONCE" =>
            /\ \A f, g \in Emts : Working(f) /\ Working(g) => f = g
            /\ \A f \in Emts : Working(f) => ordered = {} /\ ~oneByOne /\ ~done
            /\ \A f \in Emts : pc[f] = "signal" => mine[f] = cDone)'
    BY <1>1, <1>3, <1>6, <1>9, <1>12, <1>13
  <2>5. (oneByOne => fFlags.type = "ONE_BY_ONE" /\ cDone # cCpus)'
    BY <1>3, <1>12
  <2>6. (ordered # {} => Ordered /\ cDone # cCpus /\ ordered = {Turn(cDone + 1)})'
    BY <1>3, <1>12
  <2>7. (Ordered => \A f \in Emts : Working(f) => f = Turn(IF pc[f] = "signal" THEN cDone ELSE cDone + 1))'
    <3> SUFFICES ASSUME Ordered, NEW f \in Emts, Working(f)'
                 PROVE  f = Turn(IF pc'[f] = "signal" THEN cDone' ELSE cDone' + 1)
      BY <1>11
    <3>1. f = e
      BY <1>6, <1>13 DEF Ordered
    <3>2. e = Turn(cDone + 1)
      BY <1>1, <1>2, <1>7 DEF TurnInv
    <3> QED BY <3>1, <3>2, <1>1
  <2> QED BY <2>1, <2>2, <2>3, <2>4, <2>5, <2>6, <2>7 DEF TurnInv
<1>15. ReturnInv'
  BY <1>1, <1>2, <1>3, <1>6, <1>7, <1>8 DEF ReturnInv
<1>16. RanInv' /\ StatusInv'
  <2>1. UNCHANGED history
    BY <1>3 DEF history
  <2> QED BY <1>1, <1>2, <1>3, <1>4, <1>7, <2>1, HistoryKeeps
<1>17. AgreeInv'
  BY <1>1, <1>2, <1>3, <1>4, AgreeKeeps
<1>18. cDone' \in 0 .. cCpus /\ cReturned' \in 0 .. cCpus - 1 /\ ordered' \subseteq Emts
  BY <1>3, <1>10 DEF IInv, TypeOK
<1>19. ran' \in [Emts -> AllCodes \cup {NIL}] /\ firstError' \in AllCodes
  BY <1>3 DEF IInv, HistoryInv
<1> QED BY <1>1, <1>2, <1>3, <1>5, <1>14, <1>15, <1>16, <1>17, <1>18, <1>19, WorkStep

\* The turn is handed on, or the work is over.
LEMMA SignalKeeps ==
    ASSUME IInv, NEW e \in Emts, Signal(e)
    PROVE  IInv'
<1> DEFINE more == WorkLeft(mine[e])
           next == CASE fFlags.type = "ASCENDING" -> {e + 1}
                     [] fFlags.type = "DESCENDING" -> {cCpus - mine[e] - 1}
                     [] OTHER -> {}
<1>1. /\ pc[e] = "signal" /\ Act(e) /\ ~Out(e)
      /\ pc'[e] = IF IsCaller(e) THEN "waitcaller" ELSE IF more THEN "waitdone" ELSE "return"
  BY DEF Signal, Go, IInv, TypeOK, Act, Step, Out
<1>2. /\ AtWork /\ u32RendezvousLock \in Emts /\ arg[e] = u32RendezvousLock
      /\ TurnInv /\ ReturnInv /\ RanInv /\ StatusInv /\ AgreeInv
  BY <1>1, WhoeverWorks
<1>3. /\ UNCHANGED <<u32RendezvousLock, ff, fFlags, pfn, status, cEntered, cReturned, cDone, doneCaller>>
      /\ UNCHANGED <<fInRendezvous, arg, back, want, rc, ran, cRan, firstError>>
  BY DEF Signal, globalVars, countVars, callVars, history
<1>4. /\ oneByOne' = (oneByOne \/ (more /\ fFlags.type = "ONE_BY_ONE"))
      /\ ordered' = IF more THEN ordered \cup next ELSE ordered
      /\ done' = (done \/ ~more)
  BY DEF Signal
<1>5. more <=> mine[e] # cCpus /\ fFlags.type # "ONCE"
  BY DEF WorkLeft
<1>6. OthersStay(e)
  BY <1>1, Frame DEF IInv
<1>7. LocalInv(e)'
  BY <1>1, <1>2, <1>3, Basics DEF IInv, Control, LocalInv, Inside, Out, IsCaller
<1>8. \A f \in Emts \ {e} :
         /\ HasDone(f)' <=> HasDone(f)
         /\ Back(f)' <=> Back(f)
         /\ Working(f)' <=> Working(f)
         /\ InTurn(f)' <=> InTurn(f)
         /\ pc'[f] = pc[f] /\ mine'[f] = mine[f]
  BY <1>6, OthersKeep
<1>9. pc'[e] \in {"waitcaller", "waitdone", "return"} /\ (pc'[e] = "return" => ~more)
  BY <1>1
<1> HIDE DEF more
<1>10. /\ HasDone(e) /\ HasDone(e)' /\ ~Back(e) /\ ~Back(e)' /\ Working(e) /\ ~Working(e)' /\ ~InTurn(e) /\ ~InTurn(e)'
       /\ ~NotRun(e)' /\ Did(e) /\ ~InCallback(e) /\ ~InCallback(e)'
  BY <1>1, <1>9 DEF HasDone, Back, Out, Working, InTurn, NotRun, Did, InCallback
<1>11. Finishers' = Finishers /\ Leavers' = Leavers
  BY <1>8, <1>10 DEF Finishers, Leavers
<1>12. mine[e] \in 1 .. cDone /\ cDone \in 1 .. cCpus
  <2>1. mine[e] \in 1 .. cDone /\ cDone \in 0 .. cCpus
    BY <1>1, <1>2 DEF TurnInv, IInv, TypeOK
  <2> QED BY <2>1, Basics
<1>13. (Ordered' <=> Ordered) /\ \A n : Turn(n)' = Turn(n)
  BY <1>3 DEF Ordered, Turn
<1>14. ordered = {} /\ ~oneByOne
  BY <1>2, <1>10 DEF TurnInv, Ordered
<1>15. fFlags.type # "ALL_AT_ONCE" => mine[e] = cDone /\ \A f \in Emts : ~Working(f)' /\ pc'[f] # "signal"
  <2> SUFFICES ASSUME fFlags.type # "ALL_AT_ONCE" PROVE mine[e] = cDone /\ \A f \in Emts : ~Working(f)' /\ pc'[f] # "signal"
    OBVIOUS
  <2>1. mine[e] = cDone
    BY <1>1, <1>2 DEF TurnInv
  <2>2. \A f \in Emts : ~Working(f)'
    BY <1>2, <1>8, <1>10 DEF TurnInv
  <2>3. \A f \in Emts : pc'[f] # "signal"
    BY <2>2 DEF Working
  <2> QED BY <2>1, <2>2, <2>3
<1>16. ordered' # {} => Ordered /\ cDone # cCpus /\ ordered' = {Turn(cDone + 1)}
  <2> SUFFICES ASSUME ordered' # {} PROVE Ordered /\ cDone # cCpus /\ ordered' = {Turn(cDone + 1)}
    OBVIOUS
  <2>1. more /\ ordered' = next /\ next # {}
    BY <1>4, <1>14
  <2>2. Ordered
    BY <2>1 DEF Ordered
  <2>3. mine[e] = cDone /\ cDone # cCpus
    BY <2>1, <2>2, <1>5, <1>15 DEF Ordered
  <2>4. CASE fFlags.type = "ASCENDING"
    <3>1. e = Turn(cDone)
      BY <2>2, <1>1, <1>2, <1>10 DEF TurnInv
    <3>2. e + 1 = Turn(cDone + 1)
      BY <3>1, <2>4, <1>12, Basics DEF Turn
    <3> QED BY <2>1, <2>2, <2>3, <2>4, <3>2
  <2>5. CASE fFlags.type = "DESCENDING"
    <3>1. next = {cCpus - mine[e] - 1}
      BY <2>5
    <3>2. cCpus - mine[e] - 1 = Turn(cDone + 1)
      BY <2>3, <2>5, <1>12, Basics DEF Turn
    <3> QED BY <2>1, <2>2, <2>3, <3>1, <3>2
  <2> QED BY <2>2, <2>4, <2>5 DEF Ordered
<1> HIDE DEF next
<1>17. TurnInv'
  <2>1. (\A f \in Emts : pc[f] = "signal" => mine[f] \in 1 .. cDone)'
    BY <1>2, <1>3, <1>8, <1>9 DEF TurnInv
  <2>2. (fFlags.type # "ONCE" => cDone = Cardinality(Finishers) /\ (done => cDone = cCpus))'
    <3> SUFFICES ASSUME fFlags.type # "ONCE", done' PROVE cDone = cCpus
      BY <1>2, <1>3, <1>11 DEF TurnInv
    <3>1. CASE done
      BY <3>1, <1>2 DEF TurnInv
    <3>2. CASE ~done
      <4>1. ~more
        BY <3>2, <1>4
      <4> QED BY <4>1, <1>5, <1>12, Basics
    <3> QED BY <3>1, <3>2
  <2>3. (fFlags.type = "ONCE" => /\ cDone = IF \E f \in Emts : InTurn(f) THEN 0 ELSE 1
                                 /\ \A f \in Emts : pc[f] # "turn")'
    <3>1. (\E f \in Emts : InTurn(f)') <=> (\E f \in Emts : InTurn(f))
      BY <1>8, <1>10
    <3> QED BY <3>1, <1>2, <1>3, <1>8, <1>9 DEF TurnInv
  <2>4. (fFlags.type # "ALL_AT_ONCE" =>
            /\ \A f, g \in Emts : Working(f) /\ Working(g) => f = g
            /\ \A f \in Emts : Working(f) => ordered = {} /\ ~oneByOne /\ ~done
            /\ \A f \in Emts : pc[f] = "signal" => mine[f] = cDone)'
    BY <1>3, <1>15
  <2>5. (oneByOne => fFlags.type = "ONE_BY_ONE" /\ cDone # cCpus)'
    <3> SUFFICES ASSUME oneByOne' PROVE fFlags.type = "ONE_BY_ONE" /\ cDone # cCpus
      BY <1>3
    <3>1. more /\ fFlags.type = "ONE_BY_ONE"
      BY <1>4, <1>14
    <3> QED BY <3>1, <1>5, <1>15
  <2>6. (ordered # {} => Ordered /\ cDone # cCpus /\ ordered = {Turn(cDone + 1)})'
    BY <1>3, <1>13, <1>16
  <2>7. (Ordered => \A f \in Emts : Working(f) => f = Turn(IF pc[f] = "signal" THEN cDone ELSE cDone + 1))'
    BY <1>3, <1>13, <1>15 DEF Ordered
  <2> QED BY <2>1, <2>2, <2>3, <2>4, <2>5, <2>6, <2>7 DEF TurnInv
<1>18. ReturnInv'
  <2>1. done => done'
    BY <1>4
  <2>2. pc'[e] = "return" => done'
    BY <1>4, <1>9
  <2> QED BY <1>2, <1>3, <1>8, <1>9, <1>10, <1>11, <2>1, <2>2 DEF ReturnInv
<1>19. RanInv' /\ StatusInv'
  <2>1. UNCHANGED history
    BY <1>3 DEF history
  <2> QED BY <1>1, <1>2, <1>3, <1>6, <1>9, <1>10, <2>1, HistoryKeeps
<1>20. AgreeInv'
  BY <1>2, <1>3, <1>6, <1>9, AgreeKeeps
<1>21. cDone' \in 0 .. cCpus /\ cReturned' \in 0 .. cCpus - 1
  BY <1>3 DEF IInv, TypeOK
<1>22. ordered' \subseteq Emts
  <2> SUFFICES ASSUME ordered' # {} PROVE Turn(cDone + 1) \in Emts
    BY <1>16
  <2> QED BY <1>12, <1>16, Basics DEF Turn, Emts
<1>23. ran' \in [Emts -> AllCodes \cup {NIL}] /\ firstError' \in AllCodes
  BY <1>3 DEF IInv, HistoryInv
<1> QED BY <1>1, <1>2, <1>3, <1>7, <1>9, <1>17, <1>18, <1>19, <1>20, <1>21, <1>22, <1>23, WorkStep

\* On the way out.
LEMMA ReturnsKeep ==
    ASSUME IInv, NEW e \in Emts, WaitDone(e) \/ ReadStatus(e)
    PROVE  IInv'
<1>1. /\ pc[e] \in {"waitdone", "return"} /\ (pc[e] = "waitdone" => done) /\ Act(e) /\ ~Out(e)
      /\ pc'[e] \in {"return", "count"} /\ (pc'[e] = "count" => rc'[e] = NonFailure(status))
      /\ UNCHANGED <<u32RendezvousLock, ff, fFlags, pfn, status, fInRendezvous, countVars, eventVars, want, arg, back, mine, history>>
  BY DEF WaitDone, ReadStatus, Go, IInv, TypeOK, Act, Step, Out, globalVars, callVars
<1>2. /\ AtWork /\ u32RendezvousLock \in Emts /\ arg[e] = u32RendezvousLock
      /\ TurnInv /\ ReturnInv /\ RanInv /\ StatusInv /\ AgreeInv
  BY <1>1, WhoeverWorks
<1>3. /\ UNCHANGED <<cEntered, cReturned, cDone, ordered, oneByOne, done, doneCaller, ran, firstError>>
  BY <1>1 DEF countVars, eventVars, history
<1>4. OthersStay(e)
  BY <1>1, Frame DEF IInv
<1>5. LocalInv(e)'
  BY <1>1, <1>2, <1>3, Basics DEF IInv, Control, LocalInv, Inside, Out
<1>6. /\ HasDone(e) /\ HasDone(e)' /\ ~Back(e) /\ ~Back(e)' /\ ~Working(e) /\ ~Working(e)' /\ ~InTurn(e) /\ ~InTurn(e)'
      /\ ~NotRun(e)' /\ Did(e) /\ ~InCallback(e) /\ ~InCallback(e)'
  BY <1>1 DEF HasDone, Back, Out, Working, InTurn, NotRun, Did, InCallback
<1>7. done
  BY <1>1, <1>2 DEF ReturnInv
<1>8. TurnInv' /\ ReturnInv'
  BY <1>1, <1>2, <1>3, <1>4, <1>6, <1>7, WorkKeeps
<1>9. RanInv' /\ StatusInv'
  BY <1>1, <1>2, <1>4, <1>6, HistoryKeeps
<1>10. AgreeInv'
  BY <1>1, <1>2, <1>4, AgreeKeeps
<1>11. cDone' \in 0 .. cCpus /\ cReturned' \in 0 .. cCpus - 1 /\ ordered' \subseteq Emts
  BY <1>3 DEF IInv, TypeOK
<1>12. ran' \in [Emts -> AllCodes \cup {NIL}] /\ firstError' \in AllCodes
  BY <1>3 DEF IInv, HistoryInv
<1> QED BY <1>1, <1>2, <1>3, <1>5, <1>8, <1>9, <1>10, <1>11, <1>12, WorkStep

\* TurnInv when only those who have handed on their turn move.
LEMMA TurnStays ==
    ASSUME NEW e \in Emts, OthersStay(e), TurnInv, UNCHANGED <<fFlags, cDone, ordered, oneByOne, done>>,
           HasDone(e), HasDone(e)', pc[e] # "signal", pc'[e] # "signal"
    PROVE  TurnInv'
<1>1. \A f \in Emts :
         /\ HasDone(f)' <=> HasDone(f)
         /\ Working(f)' <=> Working(f)
         /\ InTurn(f)' <=> InTurn(f)
         /\ pc'[f] = "signal" <=> pc[f] = "signal"
         /\ pc'[f] = "signal" => mine'[f] = mine[f]
         /\ pc'[f] = "turn" => pc[f] = "turn"
  <2>1. ~Working(e) /\ ~Working(e)' /\ ~InTurn(e) /\ ~InTurn(e)' /\ pc'[e] # "turn"
    BY DEF HasDone, Back, Out, Working, InTurn
  <2> QED BY <2>1, OthersKeep
<1>2. Finishers' = Finishers
  BY <1>1 DEF Finishers
<1>3. (Ordered' <=> Ordered) /\ \A n : Turn(n)' = Turn(n)
  BY DEF Ordered, Turn
<1>4. (\E f \in Emts : InTurn(f)') <=> (\E f \in Emts : InTurn(f))
  BY <1>1
<1>5. (\A f \in Emts : pc[f] = "signal" => mine[f] \in 1 .. cDone)'
  BY <1>1 DEF TurnInv
<1>6. (fFlags.type # "ONCE" => cDone = Cardinality(Finishers) /\ (done => cDone = cCpus))'
  BY <1>2 DEF TurnInv
<1>7. (fFlags.type = "ONCE" => /\ cDone = IF \E f \in Emts : InTurn(f) THEN 0 ELSE 1
                               /\ \A f \in Emts : pc[f] # "turn")'
  BY <1>1, <1>4 DEF TurnInv
<1>8. (fFlags.type # "ALL_AT_ONCE" =>
            /\ \A f, g \in Emts : Working(f) /\ Working(g) => f = g
            /\ \A f \in Emts : Working(f) => ordered = {} /\ ~oneByOne /\ ~done
            /\ \A f \in Emts : pc[f] = "signal" => mine[f] = cDone)'
  BY <1>1 DEF TurnInv
<1>9. (oneByOne => fFlags.type = "ONE_BY_ONE" /\ cDone # cCpus)'
  BY DEF TurnInv
<1>10. (ordered # {} => Ordered /\ cDone # cCpus /\ ordered = {Turn(cDone + 1)})'
  BY <1>3 DEF TurnInv
<1>11. (Ordered => \A f \in Emts : Working(f) => f = Turn(IF pc[f] = "signal" THEN cDone ELSE cDone + 1))'
  BY <1>1, <1>3 DEF TurnInv
<1> QED BY <1>5, <1>6, <1>7, <1>8, <1>9, <1>10, <1>11 DEF TurnInv

\* It counts itself out.
LEMMA CountReturnKeeps ==
    ASSUME IInv, NEW e \in Emts, CountReturn(e)
    PROVE  IInv'
<1> USE DEF CountReturn
<1>1. /\ pc[e] = "count" /\ Act(e) /\ ~Out(e) /\ cReturned' = cReturned + 1
      /\ pc'[e] = (IF LastOut(cReturned') THEN "wake" ELSE "leave") /\ pc'[e] \in {"wake", "leave"}
  BY DEF Go, IInv, TypeOK, Act, Step, Out
<1>2. /\ AtWork /\ u32RendezvousLock \in Emts /\ arg[e] = u32RendezvousLock /\ ~Back(u32RendezvousLock)
      /\ TurnInv /\ ReturnInv /\ RanInv /\ StatusInv /\ AgreeInv
  BY <1>1, WhoeverWorks
<1>3. /\ UNCHANGED <<u32RendezvousLock, ff, fFlags, pfn, status, cEntered, cDone, ordered, oneByOne, done, doneCaller>>
      /\ UNCHANGED <<fInRendezvous, arg, back, want, rc, ran, firstError, history>>
  BY DEF globalVars, eventVars, callVars, history
<1> HIDE DEF CountReturn
<1>4. OthersStay(e)
  BY <1>1, Frame DEF IInv
<1>5. u32RendezvousLock # e
  BY <1>1 DEF IInv, Control, LocalInv
<1>6. LocalInv(e)'
  BY <1>1, <1>2, <1>3, <1>5, Basics DEF IInv, Control, LocalInv, Inside, Out
<1>7. /\ HasDone(e) /\ HasDone(e)' /\ ~Back(e) /\ Back(e)' /\ pc'[e] # "signal"
      /\ ~NotRun(e)' /\ Did(e) /\ ~InCallback(e) /\ ~InCallback(e)'
  BY <1>1 DEF HasDone, Back, Out, NotRun, Did, InCallback
<1>8. \A f \in Emts \ {e} : (Back(f)' <=> Back(f)) /\ pc'[f] = pc[f]
  BY <1>4, OthersKeep
<1>9. /\ Leavers' = Leavers \cup {e} /\ Leavers \in SUBSET Emts /\ e \in Emts \ Leavers
      /\ Leavers' \in SUBSET Emts /\ u32RendezvousLock \in Emts \ Leavers'
  BY <1>2, <1>5, <1>7, <1>8 DEF Leavers
<1>10. cReturned' = Cardinality(Leavers')
  BY <1>1, <1>2, <1>9, Counts DEF ReturnInv
<1>11. cReturned' \in 0 .. cCpus - 1 /\ cReturned # cCpus - 1
  <2>1. Cardinality(Leavers') \in 0 .. cCpus /\ Cardinality(Leavers') <= cCpus - 1
    BY <1>9, Counts
  <2>2. cReturned \in 0 .. cCpus - 1
    BY DEF IInv, TypeOK
  <2> QED BY <1>1, <1>10, <2>1, <2>2, Basics
<1>12. TurnInv'
  BY <1>1, <1>2, <1>3, <1>4, <1>7, TurnStays
<1>13. ReturnInv'
  <2>1. ~doneCaller /\ done /\ \A f \in Emts : pc[f] # "wake"
    BY <1>1, <1>2, <1>11 DEF ReturnInv
  <2>2. \A f \in Emts \ {e} : Back(f)' \/ pc'[f] \in {"return", "count"} => done
    BY <1>2, <1>8 DEF ReturnInv
  <2> QED BY <1>1, <1>3, <1>8, <1>10, <2>1, <2>2 DEF ReturnInv, LastOut
<1>14. RanInv' /\ StatusInv'
  BY <1>1, <1>2, <1>3, <1>4, <1>7, HistoryKeeps
<1>15. AgreeInv'
  <2>1. rc'[e] = NonFailure(status)
    BY <1>1, <1>2, <1>3 DEF AgreeInv
  <2> QED BY <2>1, <1>2, <1>3, <1>4, AgreeKeeps
<1>16. cDone' \in 0 .. cCpus /\ ordered' \subseteq Emts
  BY <1>3 DEF IInv, TypeOK
<1>17. ran' \in [Emts -> AllCodes \cup {NIL}] /\ firstError' \in AllCodes
  BY <1>3 DEF IInv, HistoryInv
<1> QED BY <1>1, <1>2, <1>3, <1>6, <1>11, <1>12, <1>13, <1>14, <1>15, <1>16, <1>17, WorkStep

\* The last one out wakes the caller,
LEMMA WakeCallerKeeps ==
    ASSUME IInv, NEW e \in Emts, WakeCaller(e)
    PROVE  IInv'
<1> USE DEF WakeCaller
<1>1. pc[e] = "wake" /\ Act(e) /\ ~Out(e) /\ pc'[e] = "leave" /\ doneCaller'
  BY DEF Go, IInv, TypeOK, Act, Step, Out
<1>2. /\ AtWork /\ u32RendezvousLock \in Emts /\ arg[e] = u32RendezvousLock
      /\ TurnInv /\ ReturnInv /\ RanInv /\ StatusInv /\ AgreeInv
  BY <1>1, WhoeverWorks
<1>3. /\ UNCHANGED <<u32RendezvousLock, ff, fFlags, pfn, status, cEntered, cDone, cReturned, ordered, oneByOne, done>>
      /\ UNCHANGED <<fInRendezvous, arg, back, want, rc, ran, firstError, history>>
  BY DEF globalVars, countVars, callVars, history
<1> HIDE DEF WakeCaller
<1>4. OthersStay(e)
  BY <1>1, Frame DEF IInv
<1>5. u32RendezvousLock # e
  BY <1>1 DEF IInv, Control, LocalInv
<1>6. LocalInv(e)'
  BY <1>1, <1>2, <1>3, <1>5, Basics DEF IInv, Control, LocalInv, Inside, Out
<1>7. /\ HasDone(e) /\ HasDone(e)' /\ Back(e) /\ Back(e)' /\ pc'[e] # "signal"
      /\ ~NotRun(e)' /\ Did(e) /\ ~InCallback(e) /\ ~InCallback(e)'
  BY <1>1 DEF HasDone, Back, Out, NotRun, Did, InCallback
<1>8. \A f \in Emts \ {e} : (Back(f)' <=> Back(f)) /\ pc'[f] = pc[f]
  BY <1>4, OthersKeep
<1>9. Leavers' = Leavers
  BY <1>7, <1>8 DEF Leavers
<1>10. TurnInv'
  BY <1>1, <1>2, <1>3, <1>4, <1>7, TurnStays
<1>11. ReturnInv'
  <2>1. cReturned = cCpus - 1 /\ done /\ \A f \in Emts \ {e} : pc[f] # "wake"
    BY <1>1, <1>2, <1>7 DEF ReturnInv
  <2> QED BY <1>1, <1>2, <1>3, <1>8, <1>9, <2>1 DEF ReturnInv
<1>12. RanInv' /\ StatusInv'
  BY <1>1, <1>2, <1>3, <1>4, <1>7, HistoryKeeps
<1>13. AgreeInv'
  <2>1. rc'[e] = NonFailure(status)
    BY <1>1, <1>2, <1>3 DEF AgreeInv
  <2> QED BY <2>1, <1>2, <1>3, <1>4, AgreeKeeps
<1>14. cDone' \in 0 .. cCpus /\ cReturned' \in 0 .. cCpus - 1 /\ ordered' \subseteq Emts
  BY <1>3 DEF IInv, TypeOK
<1>15. ran' \in [Emts -> AllCodes \cup {NIL}] /\ firstError' \in AllCodes
  BY <1>3 DEF IInv, HistoryInv
<1> QED BY <1>1, <1>2, <1>3, <1>6, <1>10, <1>11, <1>12, <1>13, <1>14, <1>15, WorkStep

\* When the caller is woken, everybody else has left and nothing is signalled.
LEMMA AllLeft ==
    ASSUME IInv, NEW e \in Emts, pc[e] = "waitcaller", doneCaller
    PROVE  /\ \A f \in Emts \ {e} : Out(f)
           /\ u32RendezvousLock = e /\ AtWork /\ done /\ ordered = {} /\ ~oneByOne
<1>1. ~Out(e)
  BY DEF Out
<1>2. /\ AtWork /\ u32RendezvousLock \in Emts /\ arg[e] = u32RendezvousLock /\ ~Back(u32RendezvousLock)
      /\ TurnInv /\ ReturnInv
  BY <1>1, WhoeverWorks
<1>3. u32RendezvousLock = e
  BY DEF IInv, Control, LocalInv
<1>4. Leavers = Emts \ {e}
  <2>1. Leavers \in SUBSET Emts /\ e \in Emts \ Leavers
    BY <1>2, <1>3 DEF Leavers
  <2>2. Cardinality(Leavers) = cCpus - 1
    BY <1>2 DEF ReturnInv
  <2> QED BY <2>1, <2>2, Counts
<1>5. \A f \in Emts \ {e} : Out(f)
  <2> TAKE f \in Emts \ {e}
  <2>1. Back(f) /\ pc[f] # "wake"
    BY <1>2, <1>4 DEF Leavers, ReturnInv
  <2> QED BY <2>1 DEF Back
<1>6. done
  <2>1. PICK f \in Emts : f # e
    <3>1. 0 \in Emts /\ 1 \in Emts /\ 0 # 1
      BY Basics DEF Emts
    <3> QED BY <3>1
  <2> QED BY <2>1, <1>2, <1>5 DEF ReturnInv, Back
<1>7. ordered = {} /\ ~oneByOne
  <2>1. fFlags.type # "ONCE" => cDone = cCpus
    BY <1>2, <1>6 DEF TurnInv
  <2> QED BY <2>1, <1>2 DEF TurnInv, Ordered
<1> QED BY <1>2, <1>3, <1>5, <1>6, <1>7

\* who takes that event.
LEMMA CallerWokenKeeps ==
    ASSUME IInv, NEW e \in Emts, CallerWoken(e)
    PROVE  IInv'
<1> USE DEF CallerWoken
<1>1. pc[e] = "waitcaller" /\ doneCaller /\ Act(e) /\ ~Out(e) /\ pc'[e] = "collect" /\ ~doneCaller'
  BY DEF Go, IInv, TypeOK, Act, Step, Out
<1>2. /\ \A f \in Emts \ {e} : Out(f)
      /\ u32RendezvousLock = e /\ AtWork /\ done /\ ordered = {} /\ ~oneByOne
  BY <1>1, AllLeft
<1>3. arg[e] = e /\ fFlags \in AllFlags /\ pfn = e /\ RanInv /\ StatusInv /\ AgreeInv /\ e # NIL
  BY <1>1, <1>2, WhoeverWorks, Basics
<1>4. /\ UNCHANGED <<u32RendezvousLock, ff, fFlags, pfn, status, cEntered, cDone, cReturned, ordered, oneByOne, done>>
      /\ UNCHANGED <<fInRendezvous, arg, back, want, rc, ran, firstError, history>>
  BY DEF globalVars, countVars, callVars, history
<1> HIDE DEF CallerWoken
<1>5. OthersStay(e)
  BY <1>1, Frame DEF IInv
<1>6. TypeOK'
  <2>1. cEntered' \in 0 .. cCpus /\ cDone' \in 0 .. cCpus /\ cReturned' \in 0 .. cCpus - 1 /\ ordered' \subseteq Emts
    BY <1>4 DEF IInv, TypeOK
  <2> QED BY <2>1, <1>1, TypeStep DEF IInv
<1>7. \A f \in Emts \ {e} : Out(f)' /\ LocalInv(f)'
  BY <1>2, <1>4, <1>5, OthersKeep, OthersLocal DEF IInv, Control
<1>8. LocalInv(e)'
  BY <1>1, <1>2, <1>3, <1>4 DEF IInv, Control, LocalInv, Inside, Out
<1>9. Closed' /\ ~Opening' /\ ~Active'
  BY <1>1, <1>2, <1>4 DEF Closed, Opening, Active
<1>10. ClosedInv'
  BY <1>1, <1>2, <1>3, <1>4, <1>7, <1>9 DEF ClosedInv, AtWork
<1>11. GatherInv' /\ LastInv' /\ WorkInv'
  BY <1>9 DEF GatherInv, LastInv, WorkInv, ComingIn, Starting, AtWork
<1>12. HistoryInv'
  <2>1. ~NotRun(e)' /\ Did(e) /\ ~InCallback(e) /\ ~InCallback(e)'
    BY <1>1 DEF HasDone, Back, Out, NotRun, Did, InCallback
  <2>2. RanInv' /\ StatusInv'
    BY <1>1, <1>3, <1>4, <1>5, <2>1, HistoryKeeps
  <2>3. AgreeInv'
    BY <1>1, <1>3, <1>4, <1>5, AgreeKeeps
  <2> QED BY <1>4, <2>2, <2>3 DEF IInv, HistoryInv
<1> QED BY <1>6, <1>7, <1>8, <1>10, <1>11, <1>12 DEF IInv, Control
-----------------------------------------------------------------------------
(* The invariant is inductive *)

\* No rendezvous is under way at first.
LEMMA InitHolds == Init => IInv
<1> SUFFICES ASSUME Init PROVE IInv
  OBVIOUS
<1> USE DEF Init
<1>1. TypeOK
  <2>1. /\ cEntered \in 0 .. cCpus /\ cDone \in 0 .. cCpus /\ cReturned \in 0 .. cCpus - 1
        /\ cCalls \in 0 .. MaxCalls /\ cPrio \in 0 .. MaxPrio /\ mine \in [Emts -> 0 .. cCpus]
    BY Basics, BoundsAssumption
  <2>2. /\ u32RendezvousLock \in Emts \cup {NIL} /\ pfn \in Emts \cup {NIL} /\ ff \in BOOLEAN
        /\ fFlags \in AllFlags \cup {NoFlags} /\ status \in AllCodes /\ ordered \subseteq Emts
        /\ <<oneByOne, allAtOnce, done, doneCaller>> \in BOOLEAN \X BOOLEAN \X BOOLEAN \X BOOLEAN
    BY Basics
  <2>3. /\ fInRendezvous \in [Emts -> BOOLEAN] /\ fSaved \in [Emts -> BOOLEAN]
        /\ pc \in [Emts -> Labels] /\ back \in [Emts -> {"run", "spin"}]
        /\ want \in [Emts -> AllFlags \cup {NoFlags}] /\ arg \in [Emts -> Emts \cup {NIL}]
        /\ rc \in [Emts -> AllCodes]
    BY Basics DEF Labels
  <2> QED BY <2>1, <2>2, <2>3 DEF TypeOK
<1>2. \A e \in Emts : Out(e) /\ LocalInv(e)
  BY Basics DEF Out, Inside, LocalInv
<1>3. ~Active /\ ~Opening /\ ~ComingIn /\ ~Starting /\ ~AtWork /\ ~Running
  BY DEF Active, Opening, ComingIn, Starting, AtWork, Running
<1>4. NoHistory
  BY DEF NoHistory
<1>5. ClosedInv
  BY <1>2, <1>3, <1>4 DEF ClosedInv, Closed
<1>6. GatherInv /\ LastInv /\ WorkInv
  BY <1>3 DEF GatherInv, LastInv, WorkInv
<1>7. HistoryInv
  BY <1>3, Basics DEF HistoryInv
<1> QED BY <1>1, <1>2, <1>5, <1>6, <1>7 DEF IInv, Control

\* The invariant survives a step that changes nothing,
LEMMA StutterHolds ==
    ASSUME IInv, UNCHANGED vars
    PROVE  IInv'
<1>1. /\ UNCHANGED <<u32RendezvousLock, ff, fFlags, pfn, status, fInRendezvous, cEntered, cDone, cReturned>>
      /\ UNCHANGED <<ordered, oneByOne, allAtOnce, done, doneCaller, want, cCalls, fSaved, cPrio>>
      /\ UNCHANGED <<pc, arg, back, mine, rc, ran, cRan, firstError>>
  BY DEF vars, globalVars, countVars, eventVars, callVars, prioVars, history
<1>2. TypeOK'
  BY <1>1 DEF IInv, TypeOK
<1>3. \A e \in Emts : (Out(e)' <=> Out(e)) /\ (Working(e)' <=> Working(e)) /\ (InCallback(e)' <=> InCallback(e)) /\ Waits(e)' = Waits(e)
  BY <1>1 DEF Out, Working, InCallback, Waits, IsCaller
<1>4. \A e \in Emts : (Back(e)' <=> Back(e)) /\ (Inside(e)' <=> Inside(e)) /\ (InTurn(e)' <=> InTurn(e)) /\ (NotRun(e)' <=> NotRun(e))
  BY <1>1, <1>3 DEF Back, Inside, InTurn, NotRun
<1>5. \A e \in Emts : (HasDone(e)' <=> HasDone(e)) /\ (IsMerged(e)' <=> IsMerged(e))
  BY <1>1, <1>4 DEF HasDone, IsMerged
<1>6. \A e \in Emts : Did(e)' <=> Did(e)
  BY <1>1, <1>5 DEF Did
<1>7. Insiders' = Insiders /\ Finishers' = Finishers /\ Leavers' = Leavers /\ Runners' = Runners
  BY <1>1, <1>4, <1>5 DEF Insiders, Finishers, Leavers, Runners
<1>8. (Closed' <=> Closed) /\ (Opening' <=> Opening) /\ (Active' <=> Active)
  BY <1>1 DEF Closed, Opening, Active
<1>9. (ComingIn' <=> ComingIn) /\ (Starting' <=> Starting) /\ (AtWork' <=> AtWork) /\ (Running' <=> Running)
  BY <1>1, <1>8 DEF ComingIn, Starting, AtWork, Running
<1>10. (Clean' <=> Clean) /\ (NoHistory' <=> NoHistory)
  BY <1>1 DEF Clean, NoHistory
<1>11. \A e \in Emts : LocalInv(e)'
  BY <1>1, <1>3, <1>4 DEF IInv, Control, LocalInv
<1>12. ClosedInv'
  BY <1>1, <1>3, <1>8, <1>10 DEF IInv, Control, ClosedInv
<1>13. GatherInv' /\ LastInv'
  BY <1>1, <1>3, <1>7, <1>9, <1>10 DEF IInv, Control, GatherInv, LastInv
<1>14. WorkInv'
  <2> SUFFICES ASSUME AtWork PROVE TurnInv' /\ ReturnInv' /\ \A e \in Emts : pc'[e] \notin {"enter", "lastin"}
    BY <1>9 DEF WorkInv
  <2>1. TurnInv /\ ReturnInv /\ \A e \in Emts : pc[e] \notin {"enter", "lastin"}
    BY DEF IInv, Control, WorkInv
  <2>2. (Ordered' <=> Ordered) /\ \A n : Turn(n)' = Turn(n)
    BY <1>1 DEF Ordered, Turn
  <2>3. TurnInv'
    BY <1>1, <1>3, <1>4, <1>7, <2>1, <2>2 DEF TurnInv
  <2>4. ReturnInv'
    BY <1>1, <1>4, <1>7, <2>1 DEF ReturnInv
  <2> QED BY <1>1, <2>1, <2>3, <2>4
<1>15. HistoryInv'
  <2> SUFFICES ASSUME Running PROVE RanInv' /\ StatusInv' /\ AgreeInv'
    BY <1>1, <1>9 DEF IInv, HistoryInv
  <2>1. RanInv /\ StatusInv /\ AgreeInv
    BY DEF IInv, HistoryInv
  <2>2. RanInv'
    BY <1>1, <1>3, <1>4, <1>6, <1>7, <2>1 DEF RanInv
  <2>3. StatusInv' /\ AgreeInv'
    BY <1>1, <1>5, <2>1 DEF StatusInv, AgreeInv, NonFailure
  <2> QED BY <2>2, <2>3
<1> QED BY <1>2, <1>11, <1>12, <1>13, <1>14, <1>15 DEF IInv, Control

\* and every step of every EMT.
LEMMA ActHolds ==
    ASSUME IInv, NEW e \in Emts, Act(e)
    PROVE  IInv'
<1>1. CASE Call(e)
  BY <1>1, CallSpins, TakesLock
<1>2. CASE BeginPriority(e)
  BY <1>2, BeginOutside, PriorityInside
<1>3. CASE Step(e)
  <2>1. CASE SpinTake(e)
    <3>1. u32RendezvousLock = NIL
      BY <2>1 DEF SpinTake
    <3> QED BY <2>1, <3>1, TakesLock
  <2>2. CASE ClearSlate(e) \/ RaiseFF(e) \/ CallerWoken(e) \/ Collect(e) \/ Unlock(e) \/ Finish(e)
    BY <2>2, ClearSlateKeeps, RaiseKeeps, CallerWokenKeeps, CollectKeeps, UnlockKeeps, FinishKeeps
  <2>3. CASE ServeFF(e) \/ LeaveFF(e) \/ Enter(e) \/ LastIn(e) \/ TakeTurn(e) \/ Check(e)
    BY <2>3, ServeKeeps, LeaveKeeps, EnterKeeps, LastInKeeps, TakeTurnKeeps, CheckKeeps
  <2>4. CASE Callback(e) \/ NestedCall(e) \/ Merge(e) \/ Done(e) \/ Signal(e)
    BY <2>4, CallbackKeeps, MergeKeeps, DoneKeeps, SignalKeeps
  <2>5. CASE WaitDone(e) \/ ReadStatus(e) \/ CountReturn(e) \/ WakeCaller(e)
    BY <2>5, ReturnsKeep, CountReturnKeeps, WakeCallerKeeps
  <2>6. CASE EndPriority(e)
    BY <2>6, EndOutside, PriorityInside
  <2> QED BY <1>3, <2>1, <2>2, <2>3, <2>4, <2>5, <2>6 DEF Step
<1> QED BY <1>1, <1>2, <1>3 DEF Act

\* The invariant is inductive.
LEMMA NextHolds == IInv /\ [Next]_vars => IInv'
<1> SUFFICES ASSUME IInv, [Next]_vars PROVE IInv'
  OBVIOUS
<1>1. CASE Next
  BY <1>1, ActHolds DEF Next, Act
<1>2. CASE UNCHANGED vars
  BY <1>2, StutterHolds
<1> QED BY <1>1, <1>2

\* The control of the rendezvous and the account of what has run and been merged hold
\* in every state (VMM.cpp).
THEOREM Inductive == Spec => []IInv
<1> QED BY InitHolds, NextHolds, PTL DEF Spec

-----------------------------------------------------------------------------
(* What follows *)

\* The shape of the state; the counters of a rendezvous never run past the number of CPUs.
THEOREM TypeCorrect == Spec => []TypeOK
<1>1. IInv => TypeOK
  BY DEF IInv
<1> QED BY <1>1, Inductive, PTL

\* A call from within a callback is refused, whatever requests the callback processes;
\* one from outside is never refused, and finds the flag clear when it has the lock.
THEOREM NestedAlwaysRefused == Spec => []NestedCallsRefused
<1>1. IInv => NestedCallsRefused
  <2> SUFFICES ASSUME IInv, NEW e \in Emts
               PROVE  /\ pc[e] = "callback" => u32RendezvousLock # NIL /\ fInRendezvous[e]
                      /\ pc[e] \in {"run", "spin", "slate"} => ~fInRendezvous[e]
                      /\ pc[e] = "slate" => ~ff
    BY DEF NestedCallsRefused
  <2>1. LocalInv(e) /\ ClosedInv
    BY DEF IInv, Control
  <2>2. pc[e] = "callback" => u32RendezvousLock # NIL /\ fInRendezvous[e]
    BY <2>1 DEF LocalInv, Inside, Out
  <2>3. pc[e] \in {"run", "spin", "slate"} => ~fInRendezvous[e]
    BY <2>1 DEF LocalInv
  <2>4. pc[e] = "slate" => ~ff
    BY <2>1 DEF LocalInv, ClosedInv, Closed
  <2> QED BY <2>2, <2>3, <2>4
<1> QED BY <1>1, Inductive, PTL

\* When the caller collects, and when the next one clears the slate, every signal has
\* been taken by the one it was for.
THEOREM SignalsAlwaysTaken == Spec => []EverySignalTaken
<1>1. IInv => EverySignalTaken
  BY DEF IInv, Control, LocalInv, ClosedInv, Closed, EverySignalTaken
<1> QED BY <1>1, Inductive, PTL

\* Except all at once the EMTs take turns, in the order asked for.
LEMMA TurnsTaken == IInv => TakeTurns
<1> SUFFICES ASSUME IInv PROVE TakeTurns
  OBVIOUS
<1>1. \A e \in Emts : Working(e) => TurnInv
  BY WhoeverWorks DEF Working, Out
<1>2. \A e \in Emts : pc[e] = "signal" => Working(e)
  BY DEF Working
<1>3. fFlags.type # "ALL_AT_ONCE" => \A e, f \in Emts : Working(e) /\ Working(f) => e = f
  BY <1>1 DEF TurnInv
<1>4. Ordered => \A e \in Emts : pc[e] = "signal" => e = Turn(mine[e])
  BY <1>1, <1>2 DEF TurnInv, Ordered
<1> QED BY <1>3, <1>4 DEF TakeTurns

\* When the caller collects.
LEMMA Collecting ==
    ASSUME IInv, NEW e \in Emts, pc[e] = "collect"
    PROVE  /\ u32RendezvousLock = e /\ fFlags \in AllFlags /\ RanInv /\ StatusInv /\ AgreeInv
           /\ \A f \in Emts : Did(f) /\ pc[f] # "merge" /\ pc[f] # "check" /\ ~InCallback(f)
           /\ \A f \in Emts \ {e} : Out(f)
           /\ status \in Int /\ firstError \in Int /\ \A f \in Emts : ran[f] # NIL => ran[f] \in Int
<1>1. u32RendezvousLock = e /\ e # NIL
  BY Basics DEF IInv, Control, LocalInv
<1>2. Running /\ ~Active
  BY <1>1 DEF Running, Active
<1>3. \A f \in Emts \ {e} : Out(f)
  BY <1>1, <1>2 DEF IInv, Control, ClosedInv
<1>4. fFlags \in AllFlags /\ RanInv /\ StatusInv /\ AgreeInv
  BY <1>1, <1>2 DEF IInv, Control, ClosedInv, HistoryInv
<1>5. \A f \in Emts : Did(f) /\ pc[f] # "merge" /\ pc[f] # "check" /\ ~InCallback(f)
  BY <1>3 DEF Did, HasDone, Back, Out, InCallback
<1>6. status \in Int /\ firstError \in Int /\ \A f \in Emts : ran[f] # NIL => ran[f] \in Int
  BY Basics DEF IInv, TypeOK, HistoryInv
<1> QED BY <1>1, <1>3, <1>4, <1>5, <1>6

\* The invariant implies that a rendezvous runs as often as it was asked to,
LEMMA OnceOnEveryEmt == IInv => EveryEmtOnce
<1> SUFFICES ASSUME IInv, NEW e \in Emts, pc[e] = "collect"
             PROVE  LET who == {f \in Emts : ran[f] # NIL}
                        failed == {f \in who : ran[f] < 0}
                    IN
                    /\ cRan = Cardinality(who)
                    /\ CASE fFlags.type = "ONCE" -> cRan = 1
                         [] fFlags.stop -> (who = Emts /\ failed = {}) \/ Cardinality(failed) = 1
                         [] OTHER -> who = Emts
  BY DEF EveryEmtOnce
<1> DEFINE who == {f \in Emts : ran[f] # NIL}
           failed == {f \in who : ran[f] < 0}
<1>1. /\ fFlags \in AllFlags /\ RanInv /\ StatusInv
      /\ \A f \in Emts : Did(f) /\ pc[f] # "merge" /\ pc[f] # "check" /\ ~InCallback(f)
      /\ status \in Int /\ \A f \in Emts : ran[f] # NIL => ran[f] \in Int
  BY Collecting
<1>2. cRan = Cardinality(who)
  BY <1>1 DEF RanInv, Runners
<1>3. fFlags.type = "ONCE" => cRan = 1
  BY <1>1 DEF RanInv
<1>4. fFlags.type # "ONCE" /\ ~fFlags.stop => who = Emts
  BY <1>1 DEF RanInv
<1>5. fFlags.type # "ONCE" /\ fFlags.stop => (who = Emts /\ failed = {}) \/ Cardinality(failed) = 1
  <2> SUFFICES ASSUME fFlags.type # "ONCE", fFlags.stop, ~(who = Emts /\ failed = {})
               PROVE  Cardinality(failed) = 1
    OBVIOUS
  <2>1. \E f \in Emts : ran[f] # NIL /\ ran[f] < 0
    <3>1. CASE status < 0
      BY <3>1, <1>1 DEF StatusInv, IsMerged
    <3>2. CASE ~(status < 0)
      <4>1. who = Emts
        BY <3>2, <1>1 DEF RanInv
      <4> QED BY <4>1
    <3> QED BY <3>1, <3>2
  <2>2. PICK f \in Emts : ran[f] # NIL /\ ran[f] < 0
    BY <2>1
  <2>3. failed = {f}
    BY <2>2, <1>1 DEF RanInv
  <2> QED BY <2>3, FS_Singleton, Zenon
<1>6. fFlags.stop => fFlags.type # "ONCE"
  BY <1>1 DEF AllFlags
<1> HIDE DEF who, failed
<1>7. /\ cRan = Cardinality(who)
      /\ CASE fFlags.type = "ONCE" -> cRan = 1
           [] fFlags.stop -> (who = Emts /\ failed = {}) \/ Cardinality(failed) = 1
           [] OTHER -> who = Emts
  BY <1>2, <1>3, <1>4, <1>5, <1>6
<1> QED BY <1>7 DEF who, failed

\* The callback runs as the flags ask: taking turns and in order, once on everybody, on
\* one EMT, or up to the first failure.
THEOREM AlwaysRunsAsAsked == Spec => []RunsAsAsked
<1>1. IInv => RunsAsAsked
  BY TurnsTaken, OnceOnEveryEmt DEF RunsAsAsked
<1> QED BY <1>1, Inductive, PTL

\* and that its status is that of the callbacks.
LEMMA StatusIsRight == IInv => StatusIsTheFirstError
<1> DEFINE codes == {ran[f] : f \in {g \in Emts : ran[g] # NIL}} \ {0}
           right == IF firstError # 0
                    THEN status = firstError \/ (fFlags.type = "ALL_AT_ONCE" /\ status < 0 /\ status \in codes)
                    ELSE status = IF codes = {} THEN 0 ELSE Min(codes)
<1> SUFFICES ASSUME IInv, NEW e \in Emts, pc[e] = "collect" PROVE right
  BY DEF StatusIsTheFirstError
<1>1. /\ StatusInv /\ status \in Int /\ firstError \in Int /\ \A f \in Emts : ran[f] # NIL => ran[f] \in Int
      /\ \A f \in Emts : IsMerged(f) <=> ran[f] # NIL
  BY Collecting DEF IsMerged
<1>2. /\ \A c \in codes : c # 0 /\ \E f \in Emts : ran[f] # NIL /\ ran[f] = c
      /\ \A f \in Emts : ran[f] # NIL /\ ran[f] # 0 => ran[f] \in codes
  OBVIOUS
<1> HIDE DEF codes
<1>3. status # 0 => status \in codes
  BY <1>1, <1>2 DEF StatusInv
<1>4. CASE firstError # 0
  <2>1. PICK f \in Emts : ran[f] # NIL /\ ran[f] = firstError /\ firstError < 0
    BY <1>1, <1>4 DEF StatusInv
  <2>2. status < 0
    BY <1>1, <2>1 DEF StatusInv
  <2>3. fFlags.type # "ALL_AT_ONCE" => status = firstError
    BY <1>1, <2>2 DEF StatusInv
  <2> QED BY <1>3, <1>4, <2>2, <2>3, <1>1
<1>5. CASE firstError = 0
  <2>1. \A f \in Emts : ran[f] # NIL => ran[f] >= 0
    BY <1>1, <1>5 DEF StatusInv
  <2>2. status >= 0
    BY <1>1, <2>1 DEF StatusInv
  <2>3. CASE codes = {}
    BY <1>3, <1>5, <2>3
  <2>4. CASE codes # {}
    <3>1. status # 0
      BY <1>1, <1>2, <2>4 DEF StatusInv
    <3>2. status > 0
      BY <1>1, <2>2, <3>1
    <3>3. \A c \in codes : c \in Int /\ status <= c
      BY <1>1, <1>2, <3>2 DEF StatusInv
    <3>4. status = Min(codes)
      <4>1. status \in codes /\ \A c \in codes : status <= c
        BY <1>3, <3>1, <3>3
      <4>2. PICK m \in codes : m = Min(codes) /\ \A c \in codes : m <= c
        BY <4>1 DEF Min
      <4>3. m \in Int /\ status <= m /\ m <= status
        BY <4>1, <4>2, <3>3
      <4>4. m = status
        BY <4>3, <1>1
      <4> QED BY <4>2, <4>4
    <3> QED BY <1>5, <2>4, <3>4
  <2> QED BY <2>3, <2>4
<1> QED BY <1>4, <1>5

\* The caller collects the first failure or the most important code, and everybody
\* else has taken the same code along before.
THEOREM StatusAlwaysReachesAll == Spec => []StatusReachesAll
<1>1. IInv => CodesAgree
  <2> SUFFICES ASSUME IInv, NEW e \in Emts, pc[e] = "collect", NEW f \in Emts \ {e}, arg[f] = e
               PROVE  pc[f] \in {"wake", "leave"} /\ rc[f] = NonFailure(status)
    BY DEF CodesAgree
  <2>1. Out(f) /\ AgreeInv /\ LocalInv(f) /\ e # NIL
    BY Collecting, Basics DEF IInv, Control
  <2>2. pc[f] = "leave"
    BY <2>1 DEF Out, LocalInv
  <2> QED BY <2>1, <2>2 DEF AgreeInv
<1>2. IInv => StatusReachesAll
  BY <1>1, StatusIsRight DEF StatusReachesAll
<1> QED BY <1>2, Inductive, PTL
-----------------------------------------------------------------------------
(* The rendezvous is a gathering *)

at == [e \in Emts |-> At(e)]

\* Where the gathering has an EMT, by its label.
LEMMA Places ==
    ASSUME TypeOK, NEW e \in Emts
    PROVE  /\ at[e] = At(e) /\ At(e) \in {"out", "in", "working"}
           /\ At(e) = "working" <=> InCallback(e)
           /\ At(e) = "out" <=> Back(e) \/ pc[e] \in {"slate", "raise", "enter", "collect", "unlock"}
<1>1. pc[e] \in Labels
  BY DEF TypeOK
<1> QED BY <1>1 DEF at, At, Held, Labels, InCallback, Back, Out

\* The phase, by the stage of the rendezvous.
LEMMA Phases ==
    ASSUME IInv
    PROVE  /\ ~Active \/ ComingIn => Phase = "gather"
           /\ Starting => Phase = "work"
           /\ AtWork => Phase = (IF done THEN "disperse" ELSE "work") /\ at[u32RendezvousLock] # "out"
           /\ ComingIn \/ Starting => ~done
<1>1. ComingIn \/ Starting => ~done
  <2>1. 0 \in Emts
    BY Basics DEF Emts
  <2> QED BY <2>1, BeforeWork DEF Clean
<1>2. ~Active => Phase = "gather"
  <2> SUFFICES ASSUME ~Active PROVE \A e \in Emts : At(e) = "out"
    BY DEF Phase
  <2> TAKE e \in Emts
  <2>1. Out(e) \/ e = u32RendezvousLock
    BY DEF IInv, Control, ClosedInv
  <2>2. e = u32RendezvousLock => pc[e] \in {"slate", "raise", "collect", "unlock"}
    BY Basics DEF Active
  <2> QED BY <2>1, <2>2, Places DEF IInv, Back
<1>3. ComingIn => Phase = "gather"
  BY <1>1 DEF Phase, ComingIn
<1>4. Starting => Phase = "work"
  <2> SUFFICES ASSUME Starting PROVE Phase = "work"
    OBVIOUS
  <2>1. PICK e \in Emts : pc[e] = "lastin"
    BY DEF IInv, Control, LastInv
  <2>2. At(e) # "out"
    BY <2>1 DEF At, Held
  <2> QED BY <1>1, <2>2 DEF Phase, Starting
<1>5. AtWork => Phase = (IF done THEN "disperse" ELSE "work") /\ at[u32RendezvousLock] # "out"
  <2> SUFFICES ASSUME AtWork PROVE Phase = (IF done THEN "disperse" ELSE "work") /\ at[u32RendezvousLock] # "out"
    OBVIOUS
  <2>1. u32RendezvousLock \in Emts /\ pc[u32RendezvousLock] \notin {"slate", "raise", "collect", "unlock"}
    BY DEF AtWork, Active, IInv, TypeOK
  <2>2. LocalInv(u32RendezvousLock) /\ pc[u32RendezvousLock] # "enter"
    BY <2>1 DEF IInv, Control, WorkInv
  <2>3. ~Back(u32RendezvousLock)
    BY <2>2 DEF LocalInv, Back
  <2>4. At(u32RendezvousLock) # "out" /\ at[u32RendezvousLock] # "out"
    BY <2>1, <2>2, <2>3, Places DEF IInv
  <2> QED BY <2>1, <2>4 DEF Phase, AtWork
<1> QED BY <1>1, <1>2, <1>3, <1>4, <1>5

\* Only the EMT that takes the step can change its place.
LEMMA PlacesKeep ==
    ASSUME NEW e \in Emts, OthersStay(e)
    PROVE  at' = [at EXCEPT ![e] = At(e)']
<1>1. \A f \in Emts \ {e} : At(f)' = At(f)
  BY OthersKeep DEF At
<1> QED BY <1>1 DEF at

\* A step that moves nobody and ends nothing is no step of the gathering.
LEMMA Stutters ==
    ASSUME NEW e \in Emts, OthersStay(e), At(e)' = At(e), done' = done, cEntered' = cEntered
    PROVE  at' = at /\ Phase' = Phase
<1>1. \A f \in Emts : At(f)' = At(f)
  BY OthersKeep DEF At
<1> QED BY <1>1 DEF at, Phase

\* Most steps are none of the gathering's.
LEMMA StutterSteps ==
    ASSUME IInv, NEW e \in Emts,
           \/ Call(e) \/ SpinTake(e) \/ RaiseFF(e) \/ Collect(e) \/ Unlock(e) \/ Finish(e) \/ ServeFF(e) \/ LeaveFF(e)
           \/ LastIn(e) \/ TakeTurn(e) \/ Merge(e) \/ Done(e) \/ WaitDone(e) \/ ReadStatus(e) \/ WakeCaller(e)
           \/ BeginPriority(e) \/ EndPriority(e)
    PROVE  at' = at /\ Phase' = Phase
<1>1. Act(e)
  BY DEF Act, Step
<1>2. OthersStay(e) /\ TypeOK
  BY <1>1, Frame DEF IInv
<1>3. done' = done /\ cEntered' = cEntered
  BY DEF Call, SpinTake, RaiseFF, Collect, Unlock, Finish, ServeFF, LeaveFF, LastIn, TakeTurn, Merge, Done, WaitDone,
         ReadStatus, WakeCaller, BeginPriority, EndPriority, countVars, eventVars
<1>4. LocalInv(e) /\ pc \in [Emts -> Labels] /\ back[e] \in {"run", "spin"}
  BY DEF IInv, Control, TypeOK
<1>5. At(e)' = At(e)
  <2>1. CASE Call(e) \/ SpinTake(e) \/ RaiseFF(e) \/ Collect(e) \/ Unlock(e) \/ Finish(e) \/ ServeFF(e) \/ LeaveFF(e)
    BY <2>1, <1>4 DEF At, Held, Go, Call, SpinTake, RaiseFF, Collect, Unlock, Finish, ServeFF, LeaveFF
  <2>2. CASE LastIn(e) \/ TakeTurn(e) \/ Merge(e) \/ Done(e) \/ WaitDone(e) \/ ReadStatus(e) \/ WakeCaller(e)
    BY <2>2, <1>4 DEF At, Held, Go, LastIn, TakeTurn, Merge, Done, WaitDone, ReadStatus, WakeCaller
  <2>3. CASE BeginPriority(e)
    <3>1. pc[e] = "run" => arg[e] = NIL
      BY <1>4 DEF LocalInv
    <3>2. pc[e] = "callback" => arg[e] # NIL
      BY <1>4 DEF LocalInv, Inside, Out
    <3>3. pc[e] \in {"run", "callback"} /\ pc'[e] = "prio" /\ arg' = arg
      BY <2>3, <1>4 DEF BeginPriority, Go
    <3> QED BY <3>1, <3>2, <3>3 DEF At, Held
  <2>4. CASE EndPriority(e)
    BY <2>4, <1>4 DEF EndPriority, Go, At, Held
  <2> QED BY <2>1, <2>2, <2>3, <2>4
<1> QED BY <1>2, <1>3, <1>5, Stutters

\* The others arrive, work, rest, close the work and depart.
LEMMA Simulates ==
    ASSUME IInv, IInv', NEW e \in Emts, Act(e)
    PROVE  \/ at' = at /\ Phase' = Phase
           \/ G!Next
<1>1. OthersStay(e) /\ TypeOK /\ TypeOK'
  BY Frame DEF IInv
<1>2. at' = [at EXCEPT ![e] = At(e)'] /\ at'[e] = At(e)' /\ at[e] = At(e)
  BY <1>1, PlacesKeep DEF at
<1>3. \A f \in Emts : at'[f] = At(f)'
  BY DEF at
<1>4. CASE ClearSlate(e)
  <2>1. u32RendezvousLock = e /\ u32RendezvousLock' = e /\ pc[e] = "slate" /\ pc'[e] = "raise"
    BY <1>4 DEF ClearSlate, Go, IInv, Control, LocalInv, TypeOK
  <2>2. ~Active /\ ~Active'
    BY <2>1 DEF Active
  <2>3. Phase = "gather"
    BY <2>2, Phases
  <2>4. At(e) = "out" /\ At(e)' = "out"
    BY <2>1 DEF At, Held
  <2>5. Phase' = "gather"
    <3>1. \A f \in Emts : At(f) = "out"
      BY <2>1, <2>2, Places, Basics DEF IInv, Control, ClosedInv, Back
    <3>2. \A f \in Emts : At(f)' = "out"
      BY <3>1, <2>4, <1>1, OthersKeep DEF At
    <3> QED BY <3>2 DEF Phase
  <2>6. at' = at
    BY <2>4, <1>2 DEF at
  <2> QED BY <2>3, <2>5, <2>6
<1>5. CASE Enter(e)
  <2>1. pc[e] = "enter"
    BY <1>5 DEF Enter
  <2>2. ComingIn /\ Phase = "gather" /\ at[e] = "out"
    BY <2>1, <1>1, <1>2, WhoeverEnters, Phases, Places
  <2>3. pc'[e] \in {"turn", "waitdone", "waitcaller", "lastin"}
    BY <1>5 DEF Enter, Go, Waits, IInv, TypeOK
  <2>4. at' = [at EXCEPT ![e] = "in"]
    BY <2>3, <1>2 DEF At, Held
  <2>5. u32RendezvousLock' = u32RendezvousLock /\ ff' = ff /\ done' = done /\ cEntered' = cEntered + 1
    BY <1>5 DEF Enter, globalVars, eventVars
  <2>6. ff /\ ~done
    BY <2>2, BeforeWork, Phases
  <2>7. ~Out(e)' /\ pc'[e] \notin {"slate", "raise", "collect", "unlock", "enter"}
    BY <2>3 DEF Out
  <2>8. ComingIn' \/ Starting'
    <3>1. Active'
      BY <2>1, <2>2, <2>5, <2>7, <1>1, OthersKeep DEF ComingIn, Active, IInv, TypeOK
    <3> QED BY <3>1, <2>5, <2>6 DEF ComingIn, Starting
  <2>9. CASE ComingIn'
    <3>1. Phase' = "gather"
      BY <2>9, <2>5, <2>6 DEF Phase, ComingIn
    <3>2. \E f \in Emts : at'[f] = "out"
      <4> SUFFICES ASSUME \A f \in Emts : at'[f] # "out" PROVE FALSE
        OBVIOUS
      <4>1. \A f \in Emts : Inside(f)'
        <5> TAKE f \in Emts
        <5>1. ~Back(f)' /\ pc'[f] # "enter"
          <6>1. At(f)' # "out"
            BY <1>3
          <6>2. pc'[f] \in Labels
            BY <1>1 DEF TypeOK
          <6> QED BY <6>1, <6>2 DEF At, Held, Labels, Back, Out
        <5> QED BY <5>1 DEF Inside, Back
      <4>2. Insiders' = Emts
        BY <4>1 DEF Insiders
      <4>3. cEntered' = cCpus
        BY <2>9, <4>2, Basics DEF IInv, Control, GatherInv
      <4> QED BY <4>3, <2>9 DEF ComingIn
    <3>3. G!Arrive(e)
      BY <2>2, <2>4, <3>1, <3>2 DEF G!Arrive, at
    <3> QED BY <3>3 DEF G!Next
  <2>10. CASE Starting'
    <3>1. PICK g \in Emts : pc'[g] = "lastin" /\ \A f \in Emts \ {g} : pc'[f] = Waits(f)'
      BY <2>10 DEF IInv, Control, LastInv
    <3>2. \A f \in Emts : at'[f] # "out"
      BY <3>1, <1>3 DEF At, Held, Waits
    <3>3. Phase' = "work"
      BY <2>5, <2>6, <2>10, <1>3, <3>2 DEF Phase, Starting
    <3>4. G!Arrive(e)
      BY <2>2, <2>4, <3>2, <3>3 DEF G!Arrive, at
    <3> QED BY <3>4 DEF G!Next
  <2> QED BY <2>8, <2>9, <2>10
<1>6. CASE Check(e)
  <2>1. pc[e] = "check" /\ pc'[e] \in {"done", "callback"} /\ done' = done /\ cEntered' = cEntered
    BY <1>6 DEF Check, Go, IInv, TypeOK, countVars, eventVars
  <2>2. CASE pc'[e] = "done"
    BY <2>1, <2>2, <1>1, Stutters DEF At, Held
  <2>3. CASE pc'[e] = "callback"
    <3>1. InTurn(e) /\ ~Out(e)
      BY <2>1 DEF InTurn, Working, Out
    <3>2. AtWork /\ ~done
      BY <2>1, <3>1, WhoeverWorks, NotOver
    <3>3. Phase = "work" /\ at[e] = "in" /\ at' = [at EXCEPT ![e] = "working"]
      BY <2>1, <2>3, <3>2, <1>2, Phases DEF At, Held
    <3>4. Phase' = "work"
      BY <2>1, <2>3, <3>2 DEF Phase, AtWork, At
    <3>5. G!Work(e)
      BY <3>3, <3>4 DEF G!Work, at
    <3> QED BY <3>5 DEF G!Next
  <2> QED BY <2>1, <2>2, <2>3
<1>7. CASE Callback(e) \/ NestedCall(e)
  <2>1. pc[e] = "callback" /\ pc'[e] \in {"done", "merge"} /\ done' = done /\ cEntered' = cEntered
    BY <1>7 DEF Callback, NestedCall, Go, IInv, TypeOK, countVars, eventVars
  <2>2. InTurn(e) /\ ~Out(e)
    BY <2>1 DEF InTurn, Working, Out
  <2>3. AtWork /\ ~done
    BY <2>1, <2>2, WhoeverWorks, NotOver
  <2>4. Phase = "work" /\ at[e] = "working" /\ at' = [at EXCEPT ![e] = "in"]
    BY <2>1, <2>3, <1>2, Phases DEF At, Held
  <2>5. Phase' = "work"
    BY <2>1, <2>3 DEF Phase, AtWork, At, Held
  <2>6. G!Rest(e)
    BY <2>4, <2>5 DEF G!Rest, at
  <2> QED BY <2>6 DEF G!Next
<1>8. CASE Signal(e)
  <2>1. /\ pc[e] = "signal" /\ pc'[e] \in {"waitcaller", "waitdone", "return"} /\ cEntered' = cEntered
        /\ done' = (done \/ ~WorkLeft(mine[e]))
    BY <1>8 DEF Signal, Go, IInv, TypeOK, countVars
  <2>2. At(e)' = At(e) /\ At(e) = "in" /\ ~Out(e)
    BY <2>1 DEF At, Held, Out
  <2>3. CASE done \/ WorkLeft(mine[e])
    <3>1. done' = done
      <4>1. done \in BOOLEAN
        BY <1>1 DEF TypeOK
      <4> QED BY <2>1, <2>3, <4>1
    <3> QED BY <2>1, <2>2, <3>1, <1>1, Stutters
  <2>4. CASE ~done /\ ~WorkLeft(mine[e])
    <3>1. AtWork /\ TurnInv
      BY <2>1, <2>2, WhoeverWorks
    <3>2. Phase = "work" /\ done'
      BY <2>1, <2>4, <3>1, Phases
    <3>3. at' = at
      BY <2>2, <1>2 DEF at
    <3>4. Phase' = "disperse"
      BY <2>2, <3>2 DEF Phase
    <3>5. \A f \in Emts : ~InCallback(f)
      <4>1. CASE fFlags.type = "ONCE"
        BY <4>1, <2>1, <3>1 DEF TurnInv, Working, InCallback
      <4>2. CASE fFlags.type # "ONCE"
        <5>1. mine[e] = cCpus /\ mine[e] \in 1 .. cDone /\ cDone \in 0 .. cCpus
          BY <4>2, <2>1, <2>4, <3>1, <1>1 DEF WorkLeft, TurnInv, TypeOK
        <5>2. cDone = cCpus
          BY <5>1, Basics
        <5>3. Finishers = Emts
          <6>1. Finishers \in SUBSET Emts /\ Cardinality(Finishers) = cCpus
            BY <4>2, <5>2, <3>1 DEF TurnInv, Finishers
          <6> QED BY <6>1, Counts
        <5>4. \A f \in Emts : HasDone(f)
          BY <5>3 DEF Finishers
        <5> QED BY <5>4 DEF HasDone, Back, Out, InCallback
      <4> QED BY <4>1, <4>2
    <3>6. \A f \in Emts : at[f] # "working"
      BY <3>5, <1>1, Places
    <3>7. G!Close
      BY <3>2, <3>3, <3>4, <3>6 DEF G!Close, at
    <3> QED BY <3>7 DEF G!Next
  <2> QED BY <2>3, <2>4
<1>9. CASE CountReturn(e)
  <2>1. /\ pc[e] = "count" /\ pc'[e] \in {"wake", "leave"} /\ cEntered' = cEntered /\ done' = done
        /\ u32RendezvousLock' = u32RendezvousLock
    BY <1>9 DEF CountReturn, Go, IInv, TypeOK, eventVars, globalVars
  <2>2. At(e) = "in" /\ At(e)' = "out" /\ ~Out(e)
    BY <2>1 DEF At, Held, Out
  <2>3. AtWork /\ ReturnInv /\ u32RendezvousLock \in Emts
    BY <2>1, <2>2, WhoeverWorks
  <2>4. Phase = "disperse" /\ done /\ at[u32RendezvousLock] # "out"
    BY <2>1, <2>3, Phases DEF ReturnInv
  <2>5. u32RendezvousLock # e
    BY <2>1 DEF IInv, Control, LocalInv
  <2>6. at' = [at EXCEPT ![e] = "out"] /\ at'[u32RendezvousLock] # "out"
    BY <2>2, <2>3, <2>4, <2>5, <1>2 DEF at
  <2>7. Phase' = "disperse"
    BY <2>1, <2>3, <2>4, <2>6, <1>3 DEF Phase
  <2>8. G!Depart(e)
    BY <2>2, <2>3, <2>4, <2>6, <2>7, <1>2 DEF G!Depart, at
  <2> QED BY <2>8 DEF G!Next
<1>10. CASE CallerWoken(e)
  <2>1. pc[e] = "waitcaller" /\ doneCaller /\ pc'[e] = "collect"
    BY <1>10 DEF CallerWoken, Go, IInv, TypeOK
  <2>2. /\ \A f \in Emts \ {e} : Out(f)
        /\ u32RendezvousLock = e /\ AtWork /\ done
    BY <2>1, AllLeft
  <2>3. Phase = "disperse" /\ at[e] = "in" /\ at' = [at EXCEPT ![e] = "out"]
    BY <2>1, <2>2, <1>2, Phases DEF At, Held
  <2>4. \A f \in Emts : at'[f] = "out"
    <3>1. \A f \in Emts \ {e} : at'[f] = "out"
      BY <2>2, <2>3, <1>1, Places DEF Back, at
    <3>2. at'[e] = "out"
      BY <2>3 DEF at
    <3> QED BY <3>1, <3>2
  <2>5. Phase' = "gather"
    BY <2>4, <1>3 DEF Phase
  <2>6. G!Depart(e)
    BY <2>3, <2>4, <2>5 DEF G!Depart, at
  <2> QED BY <2>6 DEF G!Next
<1>11. CASE \/ Call(e) \/ SpinTake(e) \/ RaiseFF(e) \/ Collect(e) \/ Unlock(e) \/ Finish(e) \/ ServeFF(e) \/ LeaveFF(e)
            \/ LastIn(e) \/ TakeTurn(e) \/ Merge(e) \/ Done(e) \/ WaitDone(e) \/ ReadStatus(e) \/ WakeCaller(e)
            \/ BeginPriority(e) \/ EndPriority(e)
  BY <1>11, StutterSteps
<1> QED BY <1>4, <1>5, <1>6, <1>7, <1>8, <1>9, <1>10, <1>11 DEF Act, Step

\* The rendezvous implements a gathering: no callback before all EMTs are held, nobody
\* let go before the work is over, nobody taken for the next one before all have left.
THEOREM ImplementsGathering == Spec => IsGathering
<1>1. Init => G!Init
  <2> SUFFICES ASSUME Init PROVE G!Init
    OBVIOUS
  <2>1. \A e \in Emts : At(e) = "out"
    BY DEF Init, At, Held
  <2> QED BY <2>1 DEF G!Init, Phase
<1>2. IInv /\ IInv' /\ [Next]_vars => [G!Next]_(G!gvars)
  <2> SUFFICES ASSUME IInv, IInv', [Next]_vars PROVE G!Next \/ (at' = at /\ Phase' = Phase)
    BY DEF G!gvars, at
  <2>1. CASE Next
    BY <2>1, Simulates DEF Next, Act
  <2>2. CASE UNCHANGED vars
    <3>1. \A e \in Emts : At(e)' = At(e)
      BY <2>2 DEF vars, At
    <3>2. done' = done /\ cEntered' = cEntered
      BY <2>2 DEF vars, countVars, eventVars
    <3> QED BY <3>1, <3>2 DEF at, Phase
  <2> QED BY <2>1, <2>2
<1> QED BY <1>1, <1>2, Inductive, PTL DEF Spec, IsGathering, G!Spec
=============================================================================
