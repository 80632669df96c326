-------------------------- MODULE PDMThreadProofs ---------------------------
(* Proofs about PDMThread: for any set of threads, any number of calls and of faults. *)
EXTENDS PDMThread, SequenceTheorems, TLAPS

-----------------------------------------------------------------------------
(* The inductive invariant.  The state of a thread that has had no fault tells
   where the EMT is with it, and the other way round: it is SUSPENDING,
   RESUMING or TERMINATING only while the call that made it so is running.
   From that follows that nobody turns a suspended thread's BlockEvent on but
   the resume that lets it go, and that the signal the EMT waits for is the one
   of this call unless an older one was still to come at the reset. *)

\* The states a thread can be in at each of its instructions.
StateInv(t) ==
    /\ pc[t] = "none" => enmState[t] = "INVALID"
    /\ pc[t] \in {"function", "sleepReset", "sleepCheck", "sleepWait", "exit"} =>
           enmState[t] \in {"INITIALIZING", "RUNNING", "SUSPENDING", "TERMINATING"}
    /\ pc[t] \in {"main", "iAmSuspending", "suspendXchg"} =>
           enmState[t] \in {"INITIALIZING", "SUSPENDING", "TERMINATING"}
    /\ pc[t] \in {"signalSuspended", "blocked", "unblocked", "bailMeOut"} =>
           enmState[t] \in {"SUSPENDED", "RESUMING", "TERMINATING"}
    /\ pc[t] \in {"mainResumed", "runXchg"} => enmState[t] \in {"RESUMING", "TERMINATING"}
    /\ pc[t] = "signalRunning" => enmState[t] \in {"RUNNING", "SUSPENDING", "TERMINATING"}
    /\ pc[t] = "terminated" => enmState[t] = "TERMINATING"
    /\ pc[t] = "signalTerminated" => enmState[t] = "TERMINATED"
    /\ pc[t] = "exited" => enmState[t] \in {"TERMINATED", "INVALID"}
    /\ enmState[t] = "INITIALIZING" => cur = t /\ epc = "initWait" /\ t \notin user
    /\ pc[t] = "suspendXchg" =>
           /\ seen[t] \in {"INITIALIZING", "SUSPENDING", "TERMINATING"}
           /\ enmState[t] # seen[t] => enmState[t] = "TERMINATING"

\* A thread that a call has left suspended.
QuietInv(t) ==
    /\ enmState[t] \in {"SUSPENDED", "TERMINATING", "TERMINATED"}
    /\ pc[t] \in {"signalSuspended", "blocked", "unblocked", "bailMeOut", "mainResumed",
                  "exit", "terminated", "signalTerminated", "exited"}

\* A thread without a fault: which call goes with its state ...
CallInv(t) ==
    /\ enmState[t] = "RUNNING" =>
           cur # t \/ epc \in {"suspend", "suspending", "destroy", "resumeSignal", "resumeWait",
                               "resumeCheck", "bail"}
    /\ enmState[t] = "SUSPENDED" =>
           cur # t \/ epc \in {"initWait", "suspend", "resume", "resuming", "destroy", "suspendWake",
                               "suspendLook", "suspendWait", "suspendCheck", "bail"}
    /\ enmState[t] = "SUSPENDING" =>
           cur = t /\ epc \in {"suspendWake", "suspendLook", "suspendWait", "suspendCheck", "bail"}
    /\ enmState[t] = "RESUMING" =>
           cur = t /\ epc \in {"resumeSignal", "resumeWait", "resumeCheck", "bail"}
    /\ enmState[t] \in {"TERMINATING", "TERMINATED"} =>
           cur = t /\ epc \in {"destroyWake", "destroySignal", "destroyWait"}

\* ... what its BlockEvent says ...
BlockInv(t) ==
    /\ pc[t] \in {"iAmSuspending", "suspendXchg"} => enmState[t] # "TERMINATING"
    /\ pc[t] = "unblocked" => enmState[t] # "SUSPENDED"
    /\ pc[t] \in {"bailMeOut", "exit"} => enmState[t] = "TERMINATING"
    /\ t \in block => enmState[t] \notin {"INITIALIZING", "SUSPENDING", "SUSPENDED"}
    /\ cur = t /\ epc = "suspending" => t \notin block

\* ... and what its user event says, if no older signal was to come at the reset.
AnswerInv(t) ==
    cur = t /\ ~late =>
        /\ epc # "bail"
        /\ epc \in {"suspending", "suspendWake", "suspendLook", "suspendWait", "suspendCheck"} =>
               pc[t] # "signalRunning" /\ (t \in user => enmState[t] = "SUSPENDED")
        /\ epc \in {"resuming", "resumeSignal", "resumeWait", "resumeCheck"} =>
               pc[t] # "signalSuspended" /\ (t \in user => enmState[t] = "RUNNING")
        /\ epc = "suspendCheck" => enmState[t] = "SUSPENDED"
        /\ epc = "resumeCheck" => enmState[t] = "RUNNING"

\* The EMT: the thread at hand is on the list, except while it is created, and is not
\* met again on the walk.
EmtInv ==
    /\ list \in Seq(Threads) /\ todo \in Seq(Threads)
    /\ epc \in {"idle", "walk"} <=> cur = NIL
    /\ epc = "idle" => todo = <<>> /\ walk = "none"
    /\ epc \in {"initWait", "initBail"} => cur \notin ToSet(list)
    /\ epc \notin {"idle", "walk", "initWait", "initBail"} => cur \in ToSet(list)
    /\ IsInjective(todo) /\ cur \notin ToSet(todo)
    /\ epc \in {"initBail", "bailSignal"} => cur \in faulty

ThreadInv(t) ==
    /\ StateInv(t)
    /\ t \in quiet => QuietInv(t)
    /\ t \notin faulty => CallInv(t) /\ BlockInv(t) /\ AnswerInv(t)

IInv ==
    /\ TypeOK
    /\ EmtInv
    /\ \A t \in Threads : ThreadInv(t)
-----------------------------------------------------------------------------
(* Lists *)

\* Linking a thread in at the tail.
LEMMA AppendKeeps ==
    ASSUME NEW S, NEW s \in Seq(S), NEW x \in S, x \notin ToSet(s), IsInjective(s)
    PROVE  /\ Append(s, x) \in Seq(S)
           /\ ToSet(Append(s, x)) = ToSet(s) \cup {x}
           /\ IsInjective(Append(s, x))
<1>1. Append(s, x) \in Seq(S)
  OBVIOUS
<1>2. Len(Append(s, x)) = Len(s) + 1 /\ DOMAIN s = 1 .. Len(s) /\ DOMAIN Append(s, x) = 1 .. Len(s) + 1
  OBVIOUS
<1>3. /\ \A i \in 1 .. Len(s) : Append(s, x)[i] = s[i]
      /\ Append(s, x)[Len(s) + 1] = x
      /\ Len(s) \in Nat
  OBVIOUS
<1>4. ToSet(Append(s, x)) = ToSet(s) \cup {x}
  <2>1. ASSUME NEW y \in ToSet(Append(s, x)) PROVE y \in ToSet(s) \cup {x}
    BY <1>2, <1>3 DEF ToSet
  <2>2. ASSUME NEW y \in ToSet(s) PROVE y \in ToSet(Append(s, x))
    <3>1. PICK i \in 1 .. Len(s) : y = s[i]
      BY <1>2 DEF ToSet
    <3>2. i \in 1 .. Len(s) + 1 /\ y = Append(s, x)[i]
      BY <3>1, <1>3
    <3> QED BY <3>2, <1>2 DEF ToSet
  <2>3. x \in ToSet(Append(s, x))
    <3>1. Len(s) + 1 \in 1 .. Len(s) + 1
      BY <1>3
    <3> QED BY <3>1, <1>2, <1>3 DEF ToSet
  <2> QED BY <2>1, <2>2, <2>3
<1>5. IsInjective(Append(s, x))
  <2>1. \A i, j \in 1 .. Len(s) : s[i] = s[j] => i = j
    BY <1>2 DEF IsInjective
  <2>2. \A i \in 1 .. Len(s) : s[i] # x
    BY <1>2 DEF ToSet
  <2>3. ASSUME NEW i \in 1 .. Len(s) + 1, NEW j \in 1 .. Len(s) + 1, Append(s, x)[i] = Append(s, x)[j]
        PROVE  i = j
    BY <2>1, <2>2, <2>3, <1>3
  <2> QED BY <2>3, <1>2 DEF IsInjective
<1> QED BY <1>1, <1>4, <1>5

\* Taking the next one of the walk.
LEMMA TailKeeps ==
    ASSUME NEW S, NEW s \in Seq(S), s # <<>>, IsInjective(s)
    PROVE  /\ Head(s) \in S /\ Tail(s) \in Seq(S)
           /\ Head(s) \in ToSet(s)
           /\ ToSet(Tail(s)) \subseteq ToSet(s)
           /\ Head(s) \notin ToSet(Tail(s))
           /\ IsInjective(Tail(s))
<1>1. Head(s) \in S /\ Tail(s) \in Seq(S) /\ Len(s) \in Nat /\ Len(s) >= 1
  OBVIOUS
<1>2. DOMAIN s = 1 .. Len(s) /\ DOMAIN Tail(s) = 1 .. Len(s) - 1 /\ Head(s) = s[1]
  OBVIOUS
<1>3. \A i \in 1 .. Len(s) - 1 : Tail(s)[i] = s[i + 1] /\ i + 1 \in 1 .. Len(s)
  OBVIOUS
<1>4. \A i, j \in 1 .. Len(s) : s[i] = s[j] => i = j
  BY <1>2 DEF IsInjective
<1>5. Head(s) \in ToSet(s)
  BY <1>1, <1>2 DEF ToSet
<1>6. ToSet(Tail(s)) \subseteq ToSet(s)
  BY <1>2, <1>3 DEF ToSet
<1>7. Head(s) \notin ToSet(Tail(s))
  <2>1. \A i \in 1 .. Len(s) - 1 : Tail(s)[i] # Head(s)
    BY <1>1, <1>2, <1>3, <1>4
  <2> QED BY <2>1, <1>2 DEF ToSet
<1>8. IsInjective(Tail(s))
  <2>1. \A i, j \in 1 .. Len(s) - 1 : Tail(s)[i] = Tail(s)[j] => i = j
    BY <1>1, <1>3, <1>4
  <2> QED BY <2>1, <1>2 DEF IsInjective
<1> QED BY <1>1, <1>5, <1>6, <1>7, <1>8

\* Unlinking a thread.
LEMMA RemoveAtKeeps ==
    ASSUME NEW S, NEW s \in Seq(S), IsInjective(s), NEW k \in DOMAIN s
    PROVE  /\ RemoveAt(s, k) \in Seq(S)
           /\ ToSet(RemoveAt(s, k)) = ToSet(s) \ {s[k]}
           /\ IsInjective(RemoveAt(s, k))
<1> DEFINE r == RemoveAt(s, k)
           a == SubSeq(s, 1, k - 1)
           b == SubSeq(s, k + 1, Len(s))
<1>1. Len(s) \in Nat /\ DOMAIN s = 1 .. Len(s) /\ k \in 1 .. Len(s)
  OBVIOUS
<1>2. a \in Seq(S) /\ Len(a) = k - 1 /\ \A i \in 1 .. k - 1 : a[i] = s[i]
  BY <1>1
<1>3. b \in Seq(S) /\ Len(b) = Len(s) - k /\ \A i \in 1 .. Len(s) - k : b[i] = s[k + i]
  BY <1>1
<1>4. /\ r \in Seq(S) /\ Len(r) = Len(s) - 1
      /\ \A i \in 1 .. Len(s) - 1 : r[i] = IF i < k THEN s[i] ELSE s[i + 1]
  <2> HIDE DEF a, b
  <2>1. r = a \o b
    BY DEF RemoveAt, a, b
  <2>0. a \in Seq(S) /\ b \in Seq(S)
    BY <1>2, <1>3
  <2>2. a \o b \in Seq(S) /\ Len(a \o b) = Len(s) - 1
    <3>1. a \o b \in Seq(S) /\ Len(a \o b) = Len(a) + Len(b)
      BY <2>0, ConcatProperties
    <3>2. Len(a) + Len(b) = Len(s) - 1
      BY <1>1, <1>2, <1>3
    <3> QED BY <3>1, <3>2
  <2>3. ASSUME NEW i \in 1 .. Len(s) - 1 PROVE (a \o b)[i] = IF i < k THEN s[i] ELSE s[i + 1]
    <3>1. (a \o b)[i] = IF i <= Len(a) THEN a[i] ELSE b[i - Len(a)]
      BY <2>0, <2>2, <1>1, <1>2, <1>3, ConcatProperties
    <3>2. CASE i < k
      BY <3>1, <3>2, <1>1, <1>2
    <3>3. CASE ~(i < k)
      <4>1. i - Len(a) \in 1 .. Len(s) - k /\ k + (i - Len(a)) = i + 1
        BY <3>3, <1>1, <1>2
      <4>2. b[i - Len(a)] = s[k + (i - Len(a))]
        BY <4>1, <1>3
      <4> QED BY <4>1, <4>2, <3>1, <3>3, <1>1, <1>2
    <3> QED BY <3>2, <3>3
  <2> QED BY <2>1, <2>2, <2>3
<1> HIDE DEF r
<1>5. DOMAIN r = 1 .. Len(s) - 1
  BY <1>4
<1>6. \A i, j \in 1 .. Len(s) : s[i] = s[j] => i = j
  BY <1>1 DEF IsInjective
<1>7. ToSet(r) = ToSet(s) \ {s[k]}
  <2>1. ASSUME NEW y \in ToSet(r) PROVE y \in ToSet(s) \ {s[k]}
    <3>1. PICK i \in 1 .. Len(s) - 1 : y = r[i]
      BY <1>5 DEF ToSet
    <3>2. PICK j \in 1 .. Len(s) : y = s[j] /\ j # k
      BY <3>1, <1>1, <1>4
    <3> QED BY <3>2, <1>1, <1>6 DEF ToSet
  <2>2. ASSUME NEW y \in ToSet(s), y # s[k] PROVE y \in ToSet(r)
    <3>1. PICK j \in 1 .. Len(s) : y = s[j] /\ j # k
      BY <2>2, <1>1 DEF ToSet
    <3>2. PICK i \in 1 .. Len(s) - 1 : y = r[i]
      <4>1. CASE j < k
        BY <4>1, <3>1, <1>1, <1>4
      <4>2. CASE j > k
        <5>1. j - 1 \in 1 .. Len(s) - 1 /\ ~(j - 1 < k) /\ (j - 1) + 1 = j
          BY <4>2, <1>1
        <5>2. r[j - 1] = s[(j - 1) + 1]
          BY <5>1, <1>4
        <5> QED BY <5>1, <5>2, <3>1
      <4> QED BY <4>1, <4>2, <3>1, <1>1
    <3> QED BY <3>2, <1>5 DEF ToSet
  <2> QED BY <2>1, <2>2
<1>8. IsInjective(r)
  <2>1. ASSUME NEW i \in 1 .. Len(s) - 1, NEW j \in 1 .. Len(s) - 1, r[i] = r[j] PROVE i = j
    <3> DEFINE up(n) == IF n < k THEN n ELSE n + 1
    <3>1. up(i) \in 1 .. Len(s) /\ up(j) \in 1 .. Len(s) /\ s[up(i)] = s[up(j)]
      BY <2>1, <1>1, <1>4
    <3>2. up(i) = up(j)
      BY <3>1, <1>6
    <3> QED BY <3>2, <1>1
  <2> QED BY <2>1, <1>5 DEF IsInjective
<1> QED BY <1>4, <1>7, <1>8 DEF r

-----------------------------------------------------------------------------
(* The steps *)

\* What the EMT leaves behind when a call is done.
Returns ==
    /\ epc' \in {"idle", "walk"} /\ cur' = NIL /\ was' = "INVALID"
    /\ walk' \in {"none", "suspendAll", "resumeAll", "destroyAll", "destroyMine"}
    /\ todo' \in Seq(Threads) /\ IsInjective(todo') /\ ToSet(todo') \subseteq ToSet(todo)
    /\ epc' = "idle" => todo' = <<>> /\ walk' = "none"

\* A call that is over, or a walk that goes on, leaves nothing of the call behind.
LEMMA ReturnReturns ==
    ASSUME TypeOK, EmtInv, NEW ok \in BOOLEAN, Return(ok) PROVE Returns
<1>1. epc' \in {"idle", "walk"} /\ cur' = NIL /\ was' = "INVALID"
  BY DEF Return
<1>2. <<>> \in Seq(Threads) /\ IsInjective(<<>>) /\ ToSet(<<>>) = {}
  BY DEF IsInjective, ToSet
<1>3. CASE epc' = "idle"
  <2>1. walk' = "none" /\ todo' = <<>>
    BY <1>3 DEF Return
  <2> QED BY <2>1, <1>1, <1>2, <1>3 DEF Returns
<1>4. CASE epc' = "walk"
  <2>1. walk' = walk /\ todo' = todo
    BY <1>4 DEF Return
  <2> QED BY <2>1, <1>1, <1>4 DEF Returns, TypeOK, EmtInv
<1> QED BY <1>1, <1>3, <1>4


\* Every step of a thread preserves the inductive invariant.
LEMMA ThreadStepPreserves ==
    ASSUME IInv, NEW t \in Threads, ThreadStep(t) PROVE IInv'
<1> USE NilAssumption, BoundsAssumption DEF Go, SetState, events, emtVars, history
<1>1. CASE RunFunction(t)
  <2> USE <1>1 DEF RunFunction
  <2>1. TypeOK'
    BY DEF IInv, ThreadInv, StateInv, TypeOK, EmtInv, States, Labels, EmtLabels
  <2>2. EmtInv'
    BY DEF IInv, TypeOK, EmtInv
  <2>3. ASSUME NEW u \in Threads PROVE ThreadInv(u)'
    <3>1. StateInv(u)'
      BY DEF IInv, TypeOK, EmtInv, Labels, ThreadInv, StateInv
    <3>2. ASSUME u \in quiet' PROVE QuietInv(u)'
      BY <3>2 DEF IInv, TypeOK, EmtInv, ThreadInv, StateInv, QuietInv
    <3>3. ASSUME u \notin faulty' PROVE CallInv(u)'
      BY <3>3 DEF IInv, TypeOK, EmtInv, ThreadInv, StateInv, CallInv, BlockInv
    <3>4. ASSUME u \notin faulty' PROVE BlockInv(u)'
      BY <3>4 DEF IInv, TypeOK, EmtInv, ThreadInv, StateInv, CallInv, BlockInv
    <3>5. ASSUME u \notin faulty' PROVE AnswerInv(u)'
      BY <3>5 DEF IInv, TypeOK, EmtInv, ThreadInv, StateInv, CallInv, BlockInv, AnswerInv
    <3> QED BY <3>1, <3>2, <3>3, <3>4, <3>5 DEF ThreadInv
  <2> QED BY <2>1, <2>2, <2>3 DEF IInv
<1>2. CASE SleepReset(t)
  <2> USE <1>2 DEF SleepReset
  <2>1. TypeOK'
    BY DEF IInv, ThreadInv, StateInv, TypeOK, EmtInv, States, Labels, EmtLabels
  <2>2. EmtInv'
    BY DEF IInv, TypeOK, EmtInv
  <2>3. ASSUME NEW u \in Threads PROVE ThreadInv(u)'
    <3>1. StateInv(u)'
      BY DEF IInv, TypeOK, EmtInv, Labels, ThreadInv, StateInv
    <3>2. ASSUME u \in quiet' PROVE QuietInv(u)'
      BY <3>2 DEF IInv, TypeOK, EmtInv, ThreadInv, StateInv, QuietInv
    <3>3. ASSUME u \notin faulty' PROVE CallInv(u)'
      BY <3>3 DEF IInv, TypeOK, EmtInv, ThreadInv, StateInv, CallInv, BlockInv
    <3>4. ASSUME u \notin faulty' PROVE BlockInv(u)'
      BY <3>4 DEF IInv, TypeOK, EmtInv, ThreadInv, StateInv, CallInv, BlockInv
    <3>5. ASSUME u \notin faulty' PROVE AnswerInv(u)'
      BY <3>5 DEF IInv, TypeOK, EmtInv, ThreadInv, StateInv, CallInv, BlockInv, AnswerInv
    <3> QED BY <3>1, <3>2, <3>3, <3>4, <3>5 DEF ThreadInv
  <2> QED BY <2>1, <2>2, <2>3 DEF IInv
<1>3. CASE SleepCheck(t)
  <2> USE <1>3 DEF SleepCheck, MaySleep
  <2>1. TypeOK'
    BY DEF IInv, ThreadInv, StateInv, TypeOK, EmtInv, States, Labels, EmtLabels
  <2>2. EmtInv'
    BY DEF IInv, TypeOK, EmtInv
  <2>3. ASSUME NEW u \in Threads PROVE ThreadInv(u)'
    <3>1. StateInv(u)'
      BY DEF IInv, TypeOK, EmtInv, Labels, ThreadInv, StateInv
    <3>2. ASSUME u \in quiet' PROVE QuietInv(u)'
      BY <3>2 DEF IInv, TypeOK, EmtInv, ThreadInv, StateInv, QuietInv
    <3>3. ASSUME u \notin faulty' PROVE CallInv(u)'
      BY <3>3 DEF IInv, TypeOK, EmtInv, ThreadInv, StateInv, CallInv, BlockInv
    <3>4. ASSUME u \notin faulty' PROVE BlockInv(u)'
      BY <3>4 DEF IInv, TypeOK, EmtInv, ThreadInv, StateInv, CallInv, BlockInv
    <3>5. ASSUME u \notin faulty' PROVE AnswerInv(u)'
      BY <3>5 DEF IInv, TypeOK, EmtInv, ThreadInv, StateInv, CallInv, BlockInv, AnswerInv
    <3> QED BY <3>1, <3>2, <3>3, <3>4, <3>5 DEF ThreadInv
  <2> QED BY <2>1, <2>2, <2>3 DEF IInv
<1>4. CASE SleepWait(t)
  <2> USE <1>4 DEF SleepWait
  <2>1. TypeOK'
    BY DEF IInv, ThreadInv, StateInv, TypeOK, EmtInv, States, Labels, EmtLabels
  <2>2. EmtInv'
    BY DEF IInv, TypeOK, EmtInv
  <2>3. ASSUME NEW u \in Threads PROVE ThreadInv(u)'
    <3>1. StateInv(u)'
      BY DEF IInv, TypeOK, EmtInv, Labels, ThreadInv, StateInv
    <3>2. ASSUME u \in quiet' PROVE QuietInv(u)'
      BY <3>2 DEF IInv, TypeOK, EmtInv, ThreadInv, StateInv, QuietInv
    <3>3. ASSUME u \notin faulty' PROVE CallInv(u)'
      BY <3>3 DEF IInv, TypeOK, EmtInv, ThreadInv, StateInv, CallInv, BlockInv
    <3>4. ASSUME u \notin faulty' PROVE BlockInv(u)'
      BY <3>4 DEF IInv, TypeOK, EmtInv, ThreadInv, StateInv, CallInv, BlockInv
    <3>5. ASSUME u \notin faulty' PROVE AnswerInv(u)'
      BY <3>5 DEF IInv, TypeOK, EmtInv, ThreadInv, StateInv, CallInv, BlockInv, AnswerInv
    <3> QED BY <3>1, <3>2, <3>3, <3>4, <3>5 DEF ThreadInv
  <2> QED BY <2>1, <2>2, <2>3 DEF IInv
<1>5. CASE MainCheck(t)
  <2> USE <1>5 DEF MainCheck
  <2>1. TypeOK'
    BY DEF IInv, ThreadInv, StateInv, TypeOK, EmtInv, States, Labels, EmtLabels
  <2>2. EmtInv'
    BY DEF IInv, TypeOK, EmtInv
  <2>3. ASSUME NEW u \in Threads PROVE ThreadInv(u)'
    <3>1. StateInv(u)'
      BY DEF IInv, TypeOK, EmtInv, Labels, ThreadInv, StateInv
    <3>2. ASSUME u \in quiet' PROVE QuietInv(u)'
      BY <3>2 DEF IInv, TypeOK, EmtInv, ThreadInv, StateInv, QuietInv
    <3>3. ASSUME u \notin faulty' PROVE CallInv(u)'
      BY <3>3 DEF IInv, TypeOK, EmtInv, ThreadInv, StateInv, CallInv, BlockInv
    <3>4. ASSUME u \notin faulty' PROVE BlockInv(u)'
      BY <3>4 DEF IInv, TypeOK, EmtInv, ThreadInv, StateInv, CallInv, BlockInv
    <3>5. ASSUME u \notin faulty' PROVE AnswerInv(u)'
      BY <3>5 DEF IInv, TypeOK, EmtInv, ThreadInv, StateInv, CallInv, BlockInv, AnswerInv
    <3> QED BY <3>1, <3>2, <3>3, <3>4, <3>5 DEF ThreadInv
  <2> QED BY <2>1, <2>2, <2>3 DEF IInv
<1>6. CASE IAmSuspending(t)
  <2> USE <1>6 DEF IAmSuspending
  <2>1. TypeOK'
    <3>1. seen' \in [Threads -> States]
      BY DEF IInv, TypeOK
    <3>2. pc' \in [Threads -> Labels]
      BY DEF IInv, TypeOK, Labels
    <3> QED BY <3>1, <3>2 DEF IInv, TypeOK
  <2>2. EmtInv'
    BY DEF IInv, TypeOK, EmtInv
  <2>3. ASSUME NEW u \in Threads PROVE ThreadInv(u)'
    <3>1. StateInv(u)'
      BY DEF IInv, TypeOK, EmtInv, Labels, ThreadInv, StateInv
    <3>2. ASSUME u \in quiet' PROVE QuietInv(u)'
      BY <3>2 DEF IInv, TypeOK, EmtInv, ThreadInv, StateInv, QuietInv
    <3>3. ASSUME u \notin faulty' PROVE CallInv(u)'
      BY <3>3 DEF IInv, TypeOK, EmtInv, ThreadInv, StateInv, CallInv, BlockInv
    <3>4. ASSUME u \notin faulty' PROVE BlockInv(u)'
      BY <3>4 DEF IInv, TypeOK, EmtInv, ThreadInv, StateInv, CallInv, BlockInv
    <3>5. ASSUME u \notin faulty' PROVE AnswerInv(u)'
      BY <3>5 DEF IInv, TypeOK, EmtInv, ThreadInv, StateInv, CallInv, BlockInv, AnswerInv
    <3> QED BY <3>1, <3>2, <3>3, <3>4, <3>5 DEF ThreadInv
  <2> QED BY <2>1, <2>2, <2>3 DEF IInv
<1>7. CASE SuspendXchg(t)
  <2> USE <1>7 DEF SuspendXchg
  <2>1. TypeOK'
    <3>1. CASE enmState[t] = seen[t]
      <4>1. seen' \in [Threads -> States] /\ pc' \in [Threads -> Labels] /\ enmState' \in [Threads -> States]
        BY <3>1 DEF IInv, TypeOK, States, Labels
      <4>2. alive = {u \in Threads : enmState'[u] # "INVALID"}
        BY <3>1 DEF IInv, TypeOK, ThreadInv, StateInv
      <4> QED BY <4>1, <4>2 DEF IInv, TypeOK
    <3>2. CASE enmState[t] # seen[t]
      <4>1. seen' \in [Threads -> States] /\ pc' \in [Threads -> Labels]
        BY <3>2 DEF IInv, TypeOK, States, Labels
      <4> QED BY <4>1, <3>2 DEF IInv, TypeOK
    <3> QED BY <3>1, <3>2
  <2>2. EmtInv'
    BY DEF IInv, TypeOK, EmtInv
  <2>3. ASSUME NEW u \in Threads PROVE ThreadInv(u)'
    <3>1. StateInv(u)'
      BY DEF IInv, TypeOK, EmtInv, Labels, ThreadInv, StateInv
    <3>2. ASSUME u \in quiet' PROVE QuietInv(u)'
      BY <3>2 DEF IInv, TypeOK, EmtInv, ThreadInv, StateInv, QuietInv
    <3>3. ASSUME u \notin faulty' PROVE CallInv(u)'
      BY <3>3 DEF IInv, TypeOK, EmtInv, ThreadInv, StateInv, CallInv, BlockInv
    <3>4. ASSUME u \notin faulty' PROVE BlockInv(u)'
      BY <3>4 DEF IInv, TypeOK, EmtInv, ThreadInv, StateInv, CallInv, BlockInv
    <3>5. ASSUME u \notin faulty' PROVE AnswerInv(u)'
      BY <3>5 DEF IInv, TypeOK, EmtInv, ThreadInv, StateInv, CallInv, BlockInv, AnswerInv
    <3> QED BY <3>1, <3>2, <3>3, <3>4, <3>5 DEF ThreadInv
  <2> QED BY <2>1, <2>2, <2>3 DEF IInv
<1>8. CASE SignalSuspended(t)
  <2> USE <1>8 DEF SignalSuspended
  <2>1. TypeOK'
    BY DEF IInv, ThreadInv, StateInv, TypeOK, EmtInv, States, Labels, EmtLabels
  <2>2. EmtInv'
    BY DEF IInv, TypeOK, EmtInv
  <2>3. ASSUME NEW u \in Threads PROVE ThreadInv(u)'
    <3>1. StateInv(u)'
      BY DEF IInv, TypeOK, EmtInv, Labels, ThreadInv, StateInv
    <3>2. ASSUME u \in quiet' PROVE QuietInv(u)'
      BY <3>2 DEF IInv, TypeOK, EmtInv, ThreadInv, StateInv, QuietInv
    <3>3. ASSUME u \notin faulty' PROVE CallInv(u)'
      BY <3>3 DEF IInv, TypeOK, EmtInv, ThreadInv, StateInv, CallInv, BlockInv
    <3>4. ASSUME u \notin faulty' PROVE BlockInv(u)'
      BY <3>4 DEF IInv, TypeOK, EmtInv, ThreadInv, StateInv, CallInv, BlockInv
    <3>5. ASSUME u \notin faulty' PROVE AnswerInv(u)'
      BY <3>5 DEF IInv, TypeOK, EmtInv, ThreadInv, StateInv, CallInv, BlockInv, AnswerInv
    <3> QED BY <3>1, <3>2, <3>3, <3>4, <3>5 DEF ThreadInv
  <2> QED BY <2>1, <2>2, <2>3 DEF IInv
<1>9. CASE Blocked(t)
  <2> USE <1>9 DEF Blocked
  <2>1. TypeOK'
    BY DEF IInv, ThreadInv, StateInv, TypeOK, EmtInv, States, Labels, EmtLabels
  <2>2. EmtInv'
    BY DEF IInv, TypeOK, EmtInv
  <2>3. ASSUME NEW u \in Threads PROVE ThreadInv(u)'
    <3>1. StateInv(u)'
      BY DEF IInv, TypeOK, EmtInv, Labels, ThreadInv, StateInv
    <3>2. ASSUME u \in quiet' PROVE QuietInv(u)'
      BY <3>2 DEF IInv, TypeOK, EmtInv, ThreadInv, StateInv, QuietInv
    <3>3. ASSUME u \notin faulty' PROVE CallInv(u)'
      BY <3>3 DEF IInv, TypeOK, EmtInv, ThreadInv, StateInv, CallInv, BlockInv
    <3>4. ASSUME u \notin faulty' PROVE BlockInv(u)'
      BY <3>4 DEF IInv, TypeOK, EmtInv, ThreadInv, StateInv, CallInv, BlockInv
    <3>5. ASSUME u \notin faulty' PROVE AnswerInv(u)'
      BY <3>5 DEF IInv, TypeOK, EmtInv, ThreadInv, StateInv, CallInv, BlockInv, AnswerInv
    <3> QED BY <3>1, <3>2, <3>3, <3>4, <3>5 DEF ThreadInv
  <2> QED BY <2>1, <2>2, <2>3 DEF IInv
<1>10. CASE Unblocked(t)
  <2> USE <1>10 DEF Unblocked
  <2>1. TypeOK'
    BY DEF IInv, ThreadInv, StateInv, TypeOK, EmtInv, States, Labels, EmtLabels
  <2>2. EmtInv'
    BY DEF IInv, TypeOK, EmtInv
  <2>3. ASSUME NEW u \in Threads PROVE ThreadInv(u)'
    <3>1. StateInv(u)'
      BY DEF IInv, TypeOK, EmtInv, Labels, ThreadInv, StateInv
    <3>2. ASSUME u \in quiet' PROVE QuietInv(u)'
      BY <3>2 DEF IInv, TypeOK, EmtInv, ThreadInv, StateInv, QuietInv
    <3>3. ASSUME u \notin faulty' PROVE CallInv(u)'
      BY <3>3 DEF IInv, TypeOK, EmtInv, ThreadInv, StateInv, CallInv, BlockInv
    <3>4. ASSUME u \notin faulty' PROVE BlockInv(u)'
      BY <3>4 DEF IInv, TypeOK, EmtInv, ThreadInv, StateInv, CallInv, BlockInv
    <3>5. ASSUME u \notin faulty' PROVE AnswerInv(u)'
      BY <3>5 DEF IInv, TypeOK, EmtInv, ThreadInv, StateInv, CallInv, BlockInv, AnswerInv
    <3> QED BY <3>1, <3>2, <3>3, <3>4, <3>5 DEF ThreadInv
  <2> QED BY <2>1, <2>2, <2>3 DEF IInv
<1>11. CASE MainResumed(t)
  <2> USE <1>11 DEF MainResumed
  <2>1. TypeOK'
    BY DEF IInv, ThreadInv, StateInv, TypeOK, EmtInv, States, Labels, EmtLabels
  <2>2. EmtInv'
    BY DEF IInv, TypeOK, EmtInv
  <2>3. ASSUME NEW u \in Threads PROVE ThreadInv(u)'
    <3>1. StateInv(u)'
      BY DEF IInv, TypeOK, EmtInv, Labels, ThreadInv, StateInv
    <3>2. ASSUME u \in quiet' PROVE QuietInv(u)'
      BY <3>2 DEF IInv, TypeOK, EmtInv, ThreadInv, StateInv, QuietInv
    <3>3. ASSUME u \notin faulty' PROVE CallInv(u)'
      BY <3>3 DEF IInv, TypeOK, EmtInv, ThreadInv, StateInv, CallInv, BlockInv
    <3>4. ASSUME u \notin faulty' PROVE BlockInv(u)'
      BY <3>4 DEF IInv, TypeOK, EmtInv, ThreadInv, StateInv, CallInv, BlockInv
    <3>5. ASSUME u \notin faulty' PROVE AnswerInv(u)'
      BY <3>5 DEF IInv, TypeOK, EmtInv, ThreadInv, StateInv, CallInv, BlockInv, AnswerInv
    <3> QED BY <3>1, <3>2, <3>3, <3>4, <3>5 DEF ThreadInv
  <2> QED BY <2>1, <2>2, <2>3 DEF IInv
<1>12. CASE RunXchg(t)
  <2> USE <1>12 DEF RunXchg
  <2>1. TypeOK'
    <3>1. CASE enmState[t] = "RESUMING"
      BY <3>1 DEF IInv, ThreadInv, StateInv, TypeOK, States, Labels
    <3>2. CASE enmState[t] # "RESUMING"
      BY <3>2 DEF IInv, ThreadInv, StateInv, TypeOK, States, Labels
    <3> QED BY <3>1, <3>2
  <2>2. EmtInv'
    BY DEF IInv, TypeOK, EmtInv
  <2>3. ASSUME NEW u \in Threads PROVE ThreadInv(u)'
    <3>1. StateInv(u)'
      BY DEF IInv, TypeOK, EmtInv, Labels, ThreadInv, StateInv
    <3>2. ASSUME u \in quiet' PROVE QuietInv(u)'
      BY <3>2 DEF IInv, TypeOK, EmtInv, ThreadInv, StateInv, QuietInv
    <3>3. ASSUME u \notin faulty' PROVE CallInv(u)'
      BY <3>3 DEF IInv, TypeOK, EmtInv, ThreadInv, StateInv, CallInv, BlockInv
    <3>4. ASSUME u \notin faulty' PROVE BlockInv(u)'
      BY <3>4 DEF IInv, TypeOK, EmtInv, ThreadInv, StateInv, CallInv, BlockInv
    <3>5. ASSUME u \notin faulty' PROVE AnswerInv(u)'
      BY <3>5 DEF IInv, TypeOK, EmtInv, ThreadInv, StateInv, CallInv, BlockInv, AnswerInv
    <3> QED BY <3>1, <3>2, <3>3, <3>4, <3>5 DEF ThreadInv
  <2> QED BY <2>1, <2>2, <2>3 DEF IInv
<1>13. CASE SignalRunning(t)
  <2> USE <1>13 DEF SignalRunning
  <2>1. TypeOK'
    BY DEF IInv, ThreadInv, StateInv, TypeOK, EmtInv, States, Labels, EmtLabels
  <2>2. EmtInv'
    BY DEF IInv, TypeOK, EmtInv
  <2>3. ASSUME NEW u \in Threads PROVE ThreadInv(u)'
    <3>1. StateInv(u)'
      BY DEF IInv, TypeOK, EmtInv, Labels, ThreadInv, StateInv
    <3>2. ASSUME u \in quiet' PROVE QuietInv(u)'
      BY <3>2 DEF IInv, TypeOK, EmtInv, ThreadInv, StateInv, QuietInv
    <3>3. ASSUME u \notin faulty' PROVE CallInv(u)'
      BY <3>3 DEF IInv, TypeOK, EmtInv, ThreadInv, StateInv, CallInv, BlockInv
    <3>4. ASSUME u \notin faulty' PROVE BlockInv(u)'
      BY <3>4 DEF IInv, TypeOK, EmtInv, ThreadInv, StateInv, CallInv, BlockInv
    <3>5. ASSUME u \notin faulty' PROVE AnswerInv(u)'
      BY <3>5 DEF IInv, TypeOK, EmtInv, ThreadInv, StateInv, CallInv, BlockInv, AnswerInv
    <3> QED BY <3>1, <3>2, <3>3, <3>4, <3>5 DEF ThreadInv
  <2> QED BY <2>1, <2>2, <2>3 DEF IInv
<1>14. CASE BailMeOut(t)
  <2> USE <1>14 DEF BailMeOut
  <2>1. TypeOK'
    <3>1. CASE enmState[t] \in {"SUSPENDING", "SUSPENDED", "RESUMING", "RUNNING"}
      BY <3>1 DEF IInv, ThreadInv, StateInv, TypeOK, States, Labels
    <3>2. CASE enmState[t] \notin {"SUSPENDING", "SUSPENDED", "RESUMING", "RUNNING"}
      BY <3>2 DEF IInv, ThreadInv, StateInv, TypeOK, States, Labels
    <3> QED BY <3>1, <3>2
  <2>2. EmtInv'
    BY DEF IInv, TypeOK, EmtInv
  <2>3. ASSUME NEW u \in Threads PROVE ThreadInv(u)'
    <3>1. StateInv(u)'
      BY DEF IInv, TypeOK, EmtInv, Labels, ThreadInv, StateInv
    <3>2. ASSUME u \in quiet' PROVE QuietInv(u)'
      BY <3>2 DEF IInv, TypeOK, EmtInv, ThreadInv, StateInv, QuietInv
    <3>3. ASSUME u \notin faulty' PROVE CallInv(u)'
      <4>1. t \notin faulty => enmState' = enmState
        BY DEF IInv, TypeOK, ThreadInv, BlockInv
      <4>2. CASE u = t
        BY <4>1, <4>2, <3>3 DEF IInv, TypeOK, ThreadInv, CallInv
      <4>3. CASE u # t
        <5>1. enmState'[u] = enmState[u]
          BY <4>3 DEF IInv, TypeOK
        <5> QED BY <5>1, <3>3 DEF IInv, TypeOK, ThreadInv, CallInv
      <4> QED BY <4>2, <4>3
    <3>4. ASSUME u \notin faulty' PROVE BlockInv(u)'
      BY <3>4 DEF IInv, TypeOK, EmtInv, ThreadInv, StateInv, CallInv, BlockInv
    <3>5. ASSUME u \notin faulty' PROVE AnswerInv(u)'
      BY <3>5 DEF IInv, TypeOK, EmtInv, ThreadInv, StateInv, CallInv, BlockInv, AnswerInv
    <3> QED BY <3>1, <3>2, <3>3, <3>4, <3>5 DEF ThreadInv
  <2> QED BY <2>1, <2>2, <2>3 DEF IInv
<1>15. CASE Exit(t)
  <2> USE <1>15 DEF Exit
  <2>1. TypeOK'
    BY DEF IInv, ThreadInv, StateInv, TypeOK, EmtInv, States, Labels, EmtLabels
  <2>2. EmtInv'
    BY DEF IInv, TypeOK, EmtInv
  <2>3. ASSUME NEW u \in Threads PROVE ThreadInv(u)'
    <3>1. StateInv(u)'
      BY DEF IInv, TypeOK, EmtInv, Labels, ThreadInv, StateInv
    <3>2. ASSUME u \in quiet' PROVE QuietInv(u)'
      BY <3>2 DEF IInv, TypeOK, EmtInv, ThreadInv, StateInv, QuietInv
    <3>3. ASSUME u \notin faulty' PROVE CallInv(u)'
      BY <3>3 DEF IInv, TypeOK, EmtInv, ThreadInv, StateInv, CallInv, BlockInv
    <3>4. ASSUME u \notin faulty' PROVE BlockInv(u)'
      BY <3>4 DEF IInv, TypeOK, EmtInv, ThreadInv, StateInv, CallInv, BlockInv
    <3>5. ASSUME u \notin faulty' PROVE AnswerInv(u)'
      BY <3>5 DEF IInv, TypeOK, EmtInv, ThreadInv, StateInv, CallInv, BlockInv, AnswerInv
    <3> QED BY <3>1, <3>2, <3>3, <3>4, <3>5 DEF ThreadInv
  <2> QED BY <2>1, <2>2, <2>3 DEF IInv
<1>16. CASE Terminated(t)
  <2> USE <1>16 DEF Terminated
  <2>1. TypeOK'
    BY DEF IInv, ThreadInv, StateInv, TypeOK, EmtInv, States, Labels, EmtLabels
  <2>2. EmtInv'
    BY DEF IInv, TypeOK, EmtInv
  <2>3. ASSUME NEW u \in Threads PROVE ThreadInv(u)'
    <3>1. StateInv(u)'
      BY DEF IInv, TypeOK, EmtInv, Labels, ThreadInv, StateInv
    <3>2. ASSUME u \in quiet' PROVE QuietInv(u)'
      BY <3>2 DEF IInv, TypeOK, EmtInv, ThreadInv, StateInv, QuietInv
    <3>3. ASSUME u \notin faulty' PROVE CallInv(u)'
      BY <3>3 DEF IInv, TypeOK, EmtInv, ThreadInv, StateInv, CallInv, BlockInv
    <3>4. ASSUME u \notin faulty' PROVE BlockInv(u)'
      BY <3>4 DEF IInv, TypeOK, EmtInv, ThreadInv, StateInv, CallInv, BlockInv
    <3>5. ASSUME u \notin faulty' PROVE AnswerInv(u)'
      BY <3>5 DEF IInv, TypeOK, EmtInv, ThreadInv, StateInv, CallInv, BlockInv, AnswerInv
    <3> QED BY <3>1, <3>2, <3>3, <3>4, <3>5 DEF ThreadInv
  <2> QED BY <2>1, <2>2, <2>3 DEF IInv
<1>17. CASE SignalTerminated(t)
  <2> USE <1>17 DEF SignalTerminated
  <2>1. TypeOK'
    BY DEF IInv, ThreadInv, StateInv, TypeOK, EmtInv, States, Labels, EmtLabels
  <2>2. EmtInv'
    BY DEF IInv, TypeOK, EmtInv
  <2>3. ASSUME NEW u \in Threads PROVE ThreadInv(u)'
    <3>1. StateInv(u)'
      BY DEF IInv, TypeOK, EmtInv, Labels, ThreadInv, StateInv
    <3>2. ASSUME u \in quiet' PROVE QuietInv(u)'
      BY <3>2 DEF IInv, TypeOK, EmtInv, ThreadInv, StateInv, QuietInv
    <3>3. ASSUME u \notin faulty' PROVE CallInv(u)'
      BY <3>3 DEF IInv, TypeOK, EmtInv, ThreadInv, StateInv, CallInv, BlockInv
    <3>4. ASSUME u \notin faulty' PROVE BlockInv(u)'
      BY <3>4 DEF IInv, TypeOK, EmtInv, ThreadInv, StateInv, CallInv, BlockInv
    <3>5. ASSUME u \notin faulty' PROVE AnswerInv(u)'
      BY <3>5 DEF IInv, TypeOK, EmtInv, ThreadInv, StateInv, CallInv, BlockInv, AnswerInv
    <3> QED BY <3>1, <3>2, <3>3, <3>4, <3>5 DEF ThreadInv
  <2> QED BY <2>1, <2>2, <2>3 DEF IInv
<1> QED BY <1>1, <1>2, <1>3, <1>4, <1>5, <1>6, <1>7, <1>8, <1>9, <1>10, <1>11, <1>12, <1>13, <1>14, <1>15, <1>16, <1>17 DEF ThreadStep

\* So does a thread whose function fails or whose sleep ends by itself.
LEMMA QuitPreserves ==
    ASSUME IInv, NEW t \in Threads, Quit(t) \/ SleepTimeout(t) PROVE IInv'
<1> USE NilAssumption, BoundsAssumption DEF Go, SetState, events, emtVars, history
<1>1. CASE Quit(t)
  <2> USE <1>1 DEF Quit, Fault
  <2>1. TypeOK'
    BY DEF IInv, ThreadInv, StateInv, TypeOK, EmtInv, States, Labels, EmtLabels
  <2>2. EmtInv'
    BY DEF IInv, TypeOK, EmtInv
  <2>3. ASSUME NEW u \in Threads PROVE ThreadInv(u)'
    <3>1. StateInv(u)'
      BY DEF IInv, TypeOK, EmtInv, Labels, ThreadInv, StateInv
    <3>2. ASSUME u \in quiet' PROVE QuietInv(u)'
      BY <3>2 DEF IInv, TypeOK, EmtInv, ThreadInv, StateInv, QuietInv
    <3>3. ASSUME u \notin faulty' PROVE CallInv(u)'
      BY <3>3 DEF IInv, TypeOK, EmtInv, ThreadInv, StateInv, CallInv, BlockInv
    <3>4. ASSUME u \notin faulty' PROVE BlockInv(u)'
      BY <3>4 DEF IInv, TypeOK, EmtInv, ThreadInv, StateInv, CallInv, BlockInv
    <3>5. ASSUME u \notin faulty' PROVE AnswerInv(u)'
      BY <3>5 DEF IInv, TypeOK, EmtInv, ThreadInv, StateInv, CallInv, BlockInv, AnswerInv
    <3> QED BY <3>1, <3>2, <3>3, <3>4, <3>5 DEF ThreadInv
  <2> QED BY <2>1, <2>2, <2>3 DEF IInv
<1>2. CASE SleepTimeout(t)
  <2> USE <1>2 DEF SleepTimeout
  <2>1. TypeOK'
    BY DEF IInv, ThreadInv, StateInv, TypeOK, EmtInv, States, Labels, EmtLabels
  <2>2. EmtInv'
    BY DEF IInv, TypeOK, EmtInv
  <2>3. ASSUME NEW u \in Threads PROVE ThreadInv(u)'
    <3>1. StateInv(u)'
      BY DEF IInv, TypeOK, EmtInv, Labels, ThreadInv, StateInv
    <3>2. ASSUME u \in quiet' PROVE QuietInv(u)'
      BY <3>2 DEF IInv, TypeOK, EmtInv, ThreadInv, StateInv, QuietInv
    <3>3. ASSUME u \notin faulty' PROVE CallInv(u)'
      BY <3>3 DEF IInv, TypeOK, EmtInv, ThreadInv, StateInv, CallInv, BlockInv
    <3>4. ASSUME u \notin faulty' PROVE BlockInv(u)'
      BY <3>4 DEF IInv, TypeOK, EmtInv, ThreadInv, StateInv, CallInv, BlockInv
    <3>5. ASSUME u \notin faulty' PROVE AnswerInv(u)'
      BY <3>5 DEF IInv, TypeOK, EmtInv, ThreadInv, StateInv, CallInv, BlockInv, AnswerInv
    <3> QED BY <3>1, <3>2, <3>3, <3>4, <3>5 DEF ThreadInv
  <2> QED BY <2>1, <2>2, <2>3 DEF IInv
<1> QED BY <1>1, <1>2

\* Every control call begins well: creation, ...
LEMMA CallPreserves ==
    ASSUME IInv, NEW t \in Threads, Create(t) \/ Call(t) PROVE IInv'
<1> USE NilAssumption, BoundsAssumption DEF Go, SetState, events, emtVars, threadVars, history
<1>1. CASE Create(t)
  <2> USE <1>1 DEF Create
  <2>1. TypeOK'
    BY DEF IInv, ThreadInv, StateInv, TypeOK, EmtInv, States, Labels, EmtLabels
  <2>2. EmtInv'
    BY DEF IInv, TypeOK, EmtInv
  <2>3. ASSUME NEW u \in Threads PROVE ThreadInv(u)'
    <3>1. StateInv(u)'
      BY DEF IInv, TypeOK, EmtInv, Labels, ThreadInv, StateInv
    <3>2. ASSUME u \in quiet' PROVE QuietInv(u)'
      BY <3>2 DEF IInv, TypeOK, EmtInv, ThreadInv, StateInv, QuietInv
    <3>3. ASSUME u \notin faulty' PROVE CallInv(u)'
      BY <3>3 DEF IInv, TypeOK, EmtInv, ThreadInv, StateInv, CallInv, BlockInv
    <3>4. ASSUME u \notin faulty' PROVE BlockInv(u)'
      BY <3>4 DEF IInv, TypeOK, EmtInv, ThreadInv, StateInv, CallInv, BlockInv
    <3>5. ASSUME u \notin faulty' PROVE AnswerInv(u)'
      BY <3>5 DEF IInv, TypeOK, EmtInv, ThreadInv, StateInv, CallInv, BlockInv, AnswerInv
    <3> QED BY <3>1, <3>2, <3>3, <3>4, <3>5 DEF ThreadInv
  <2> QED BY <2>1, <2>2, <2>3 DEF IInv
<1>2. CASE Call(t)
  <2> USE <1>2 DEF Call
  <2>0. t \in ToSet(list) /\ t \in alive /\ cur' = t
    BY DEF Contains, ToSet, IInv, TypeOK, EmtInv
  <2>1. TypeOK'
    BY <2>0 DEF IInv, ThreadInv, StateInv, TypeOK, EmtInv, States, Labels, EmtLabels
  <2>2. EmtInv'
    <3>1. ToSet(todo) = {}
      BY DEF IInv, EmtInv, ToSet
    <3> QED BY <2>0, <3>1 DEF IInv, TypeOK, EmtInv
  <2>3. ASSUME NEW u \in Threads PROVE ThreadInv(u)'
    <3>1. StateInv(u)'
      BY DEF IInv, TypeOK, EmtInv, Labels, ThreadInv, StateInv
    <3>2. ASSUME u \in quiet' PROVE QuietInv(u)'
      BY <3>2 DEF IInv, TypeOK, EmtInv, ThreadInv, StateInv, QuietInv
    <3>3. ASSUME u \notin faulty' PROVE CallInv(u)'
      BY <2>0, <3>3 DEF IInv, TypeOK, EmtInv, ThreadInv, StateInv, QuietInv, CallInv
    <3>4. ASSUME u \notin faulty' PROVE BlockInv(u)'
      BY <3>4 DEF IInv, TypeOK, EmtInv, ThreadInv, StateInv, CallInv, BlockInv
    <3>5. ASSUME u \notin faulty' PROVE AnswerInv(u)'
      BY <3>5 DEF IInv, TypeOK, EmtInv, ThreadInv, StateInv, CallInv, BlockInv, AnswerInv
    <3> QED BY <3>1, <3>2, <3>3, <3>4, <3>5 DEF ThreadInv
  <2> QED BY <2>1, <2>2, <2>3 DEF IInv
<1> QED BY <1>1, <1>2

\* Every step of the EMT preserves the inductive invariant.
LEMMA EmtStepPreserves ==
    ASSUME IInv, EmtStep PROVE IInv'
<1> USE NilAssumption, BoundsAssumption DEF Go, SetState, events, emtVars, threadVars, history
<1>1a. CASE InitWait /\ enmState[cur] = "SUSPENDED"
  <2> USE <1>1a DEF InitWait, NextIs
  <2>0. Returns
    BY ReturnReturns DEF IInv, TypeOK, EmtInv
  <2> DEFINE app == Append(list, cur)
  <2>4. cur \in Threads /\ cur \in alive /\ cur \notin ToSet(list)
    BY DEF IInv, TypeOK, EmtInv
  <2>5. app \in Seq(Threads) /\ ToSet(app) = ToSet(list) \cup {cur} /\ IsInjective(app)
    BY <2>4, AppendKeeps DEF IInv, TypeOK, EmtInv
  <2>6. list' = app
    OBVIOUS
  <2> HIDE DEF app
  <2>1. TypeOK'
    BY <2>0, <2>4, <2>5, <2>6 DEF IInv, ThreadInv, StateInv, TypeOK, EmtInv, States, Labels, EmtLabels, Returns
  <2>2. EmtInv'
    BY <2>0, <2>4, <2>5, <2>6 DEF IInv, TypeOK, EmtInv, Returns
  <2>3. ASSUME NEW u \in Threads PROVE ThreadInv(u)'
    <3>1. StateInv(u)'
      BY <2>0, <2>4, <2>5, <2>6 DEF IInv, TypeOK, EmtInv, Labels, ThreadInv, StateInv, Returns
    <3>2. ASSUME u \in quiet' PROVE QuietInv(u)'
      BY <3>2 DEF IInv, TypeOK, EmtInv, Labels, ThreadInv, StateInv, QuietInv
    <3>3. ASSUME u \notin faulty' PROVE CallInv(u)' /\ BlockInv(u)' /\ AnswerInv(u)'
      BY <2>0, <3>3 DEF IInv, TypeOK, EmtInv, ThreadInv, StateInv, CallInv, BlockInv, AnswerInv, Returns
    <3> QED BY <3>1, <3>2, <3>3 DEF ThreadInv
  <2> QED BY <2>1, <2>2, <2>3 DEF IInv
<1>1b. CASE InitWait /\ ~(enmState[cur] = "SUSPENDED")
  <2> USE <1>1b DEF InitWait, NextIs
  <2>1. TypeOK'
    BY DEF IInv, ThreadInv, StateInv, TypeOK, EmtInv, States, Labels, EmtLabels
  <2>2. EmtInv'
    BY DEF IInv, TypeOK, EmtInv, States, ThreadInv, StateInv, CallInv
  <2>3. ASSUME NEW u \in Threads PROVE ThreadInv(u)'
    <3>1. StateInv(u)'
      BY DEF IInv, TypeOK, EmtInv, Labels, ThreadInv, StateInv
    <3>2. ASSUME u \in quiet' PROVE QuietInv(u)'
      BY <3>2 DEF IInv, TypeOK, EmtInv, ThreadInv, StateInv, QuietInv
    <3>3. ASSUME u \notin faulty' PROVE CallInv(u)'
      BY <3>3 DEF IInv, TypeOK, EmtInv, ThreadInv, StateInv, CallInv, BlockInv
    <3>4. ASSUME u \notin faulty' PROVE BlockInv(u)'
      BY <3>4 DEF IInv, TypeOK, EmtInv, ThreadInv, StateInv, CallInv, BlockInv
    <3>5. ASSUME u \notin faulty' PROVE AnswerInv(u)'
      BY <3>5 DEF IInv, TypeOK, EmtInv, ThreadInv, StateInv, CallInv, BlockInv, AnswerInv
    <3> QED BY <3>1, <3>2, <3>3, <3>4, <3>5 DEF ThreadInv
  <2> QED BY <2>1, <2>2, <2>3 DEF IInv
<1>2. CASE InitBail
  <2> USE <1>2 DEF InitBail, MayFree, Free
  <2>0. Returns
    BY ReturnReturns DEF IInv, TypeOK, EmtInv
  <2>1. TypeOK'
    BY <2>0 DEF IInv, ThreadInv, StateInv, TypeOK, EmtInv, States, Labels, EmtLabels, Returns
  <2>2. EmtInv'
    BY <2>0 DEF IInv, TypeOK, EmtInv, Returns
  <2>3. ASSUME NEW u \in Threads PROVE ThreadInv(u)'
    <3>1. StateInv(u)'
      BY <2>0 DEF IInv, TypeOK, EmtInv, Labels, ThreadInv, StateInv, Returns
    <3>2. ASSUME u \in quiet' PROVE QuietInv(u)'
      BY <3>2 DEF IInv, TypeOK, EmtInv, ThreadInv, StateInv, QuietInv
    <3>3. ASSUME u \notin faulty' PROVE CallInv(u)' /\ BlockInv(u)' /\ AnswerInv(u)'
      BY <2>0, <3>3 DEF IInv, TypeOK, EmtInv, ThreadInv, StateInv, CallInv, BlockInv, AnswerInv, Returns
    <3> QED BY <3>1, <3>2, <3>3 DEF ThreadInv
  <2> QED BY <2>1, <2>2, <2>3 DEF IInv
<1>3. CASE Walk
  <2> USE <1>3 DEF Walk
  <2>1. CASE todo = <<>>
    <3> USE <2>1
    <3>1. TypeOK'
      BY DEF IInv, TypeOK, EmtInv, EmtLabels
    <3>2. EmtInv'
      BY DEF IInv, TypeOK, EmtInv
    <3>3. ASSUME NEW u \in Threads PROVE ThreadInv(u)'
      BY DEF IInv, TypeOK, EmtInv, ThreadInv, StateInv, QuietInv, CallInv, BlockInv, AnswerInv
    <3> QED BY <3>1, <3>2, <3>3 DEF IInv
  <2>2. CASE todo # <<>>
    <3> DEFINE t == Head(todo)
               rest == Tail(todo)
    <3>1. /\ t \in Threads /\ rest \in Seq(Threads) /\ IsInjective(rest)
          /\ t \in ToSet(todo) /\ t \notin ToSet(rest) /\ ToSet(rest) \subseteq ToSet(todo)
      BY <2>2, TailKeeps DEF IInv, TypeOK, EmtInv
    <3>2. /\ todo' = rest /\ walk' = walk
          /\ \/ cur' = NIL /\ epc' = "walk"
             \/ cur' = t /\ epc' = "suspend" /\ enmState[t] = "RUNNING"
             \/ cur' = t /\ epc' = "resume" /\ enmState[t] = "SUSPENDED"
             \/ cur' = t /\ epc' = "destroy"
      BY <2>2
    <3>3. /\ epc = "walk" /\ cur = NIL /\ t \in ToSet(list) /\ t \in alive /\ NIL \notin ToSet(rest)
          /\ UNCHANGED <<enmState, events, alive, list, threadVars, was, cCalls, cFaults, history>>
      BY <3>1 DEF IInv, TypeOK, EmtInv
    <3> HIDE <1>3 DEF t, rest, Walk
    <3>4. TypeOK'
      BY <3>1, <3>2, <3>3 DEF IInv, TypeOK, EmtInv, EmtLabels
    <3>5. EmtInv'
      BY <3>1, <3>2, <3>3 DEF IInv, TypeOK, EmtInv
    <3>6. ASSUME NEW u \in Threads PROVE ThreadInv(u)'
      BY <3>1, <3>2, <3>3 DEF IInv, TypeOK, EmtInv, ThreadInv, StateInv, QuietInv, CallInv, BlockInv, AnswerInv
    <3> QED BY <3>4, <3>5, <3>6 DEF IInv
  <2> QED BY <2>1, <2>2
<1>4a. CASE Suspend /\ enmState[cur] = "SUSPENDED"
  <2> USE <1>4a DEF Suspend, NextIs, BlockEventReset, SignalToCome
  <2>0. Returns
    BY ReturnReturns DEF IInv, TypeOK, EmtInv
  <2>1. TypeOK'
    BY <2>0 DEF IInv, ThreadInv, StateInv, TypeOK, EmtInv, States, Labels, EmtLabels, Returns
  <2>2. EmtInv'
    BY <2>0 DEF IInv, TypeOK, EmtInv, Returns
  <2>3. ASSUME NEW u \in Threads PROVE ThreadInv(u)'
    <3>1. StateInv(u)'
      BY <2>0 DEF IInv, TypeOK, EmtInv, Labels, ThreadInv, StateInv, Returns
    <3>2. ASSUME u \in quiet' PROVE QuietInv(u)'
      BY <3>2 DEF IInv, TypeOK, EmtInv, Labels, ThreadInv, StateInv, QuietInv
    <3>3. ASSUME u \notin faulty' PROVE CallInv(u)' /\ BlockInv(u)' /\ AnswerInv(u)'
      BY <2>0, <3>3 DEF IInv, TypeOK, EmtInv, ThreadInv, StateInv, CallInv, BlockInv, AnswerInv, Returns
    <3> QED BY <3>1, <3>2, <3>3 DEF ThreadInv
  <2> QED BY <2>1, <2>2, <2>3 DEF IInv
<1>4b. CASE Suspend /\ ~(enmState[cur] = "SUSPENDED")
  <2> USE <1>4b DEF Suspend, NextIs, BlockEventReset, SignalToCome
  <2>1. TypeOK'
    BY DEF IInv, ThreadInv, StateInv, TypeOK, EmtInv, States, Labels, EmtLabels
  <2>2. EmtInv'
    BY DEF IInv, TypeOK, EmtInv
  <2>3. ASSUME NEW u \in Threads PROVE ThreadInv(u)'
    <3>1. StateInv(u)'
      BY DEF IInv, TypeOK, EmtInv, Labels, ThreadInv, StateInv
    <3>2. ASSUME u \in quiet' PROVE QuietInv(u)'
      BY <3>2 DEF IInv, TypeOK, EmtInv, ThreadInv, StateInv, QuietInv
    <3>3. ASSUME u \notin faulty' PROVE CallInv(u)'
      BY <3>3 DEF IInv, TypeOK, EmtInv, ThreadInv, StateInv, CallInv, BlockInv
    <3>4. ASSUME u \notin faulty' PROVE BlockInv(u)'
      BY <3>4 DEF IInv, TypeOK, EmtInv, ThreadInv, StateInv, CallInv, BlockInv
    <3>5. ASSUME u \notin faulty' PROVE AnswerInv(u)'
      <4>1. cur' = cur /\ epc' = "suspending" /\ user' = user \ {cur} /\ cur \in Threads
        BY DEF IInv, TypeOK, EmtInv
      <4>2. ~late' => pc[cur] # "signalRunning"
        OBVIOUS
      <4>3. pc[cur] # "signalRunning" => pc'[cur] # "signalRunning"
        BY <4>1 DEF IInv, TypeOK
      <4> QED BY <4>1, <4>2, <4>3 DEF AnswerInv
    <3> QED BY <3>1, <3>2, <3>3, <3>4, <3>5 DEF ThreadInv
  <2> QED BY <2>1, <2>2, <2>3 DEF IInv
<1>5. CASE Suspending
  <2> USE <1>5 DEF Suspending, NextIs
  <2>1. TypeOK'
    BY DEF IInv, ThreadInv, StateInv, TypeOK, EmtInv, States, Labels, EmtLabels
  <2>2. EmtInv'
    BY DEF IInv, TypeOK, EmtInv
  <2>3. ASSUME NEW u \in Threads PROVE ThreadInv(u)'
    <3>1. StateInv(u)'
      BY DEF IInv, TypeOK, EmtInv, Labels, ThreadInv, StateInv
    <3>2. ASSUME u \in quiet' PROVE QuietInv(u)'
      BY <3>2 DEF IInv, TypeOK, EmtInv, ThreadInv, StateInv, QuietInv
    <3>3. ASSUME u \notin faulty' PROVE CallInv(u)'
      BY <3>3 DEF IInv, TypeOK, EmtInv, ThreadInv, StateInv, CallInv, BlockInv
    <3>4. ASSUME u \notin faulty' PROVE BlockInv(u)'
      BY <3>4 DEF IInv, TypeOK, EmtInv, ThreadInv, StateInv, CallInv, BlockInv
    <3>5. ASSUME u \notin faulty' PROVE AnswerInv(u)'
      BY <3>5 DEF IInv, TypeOK, EmtInv, States, ThreadInv, StateInv, CallInv, BlockInv, AnswerInv
    <3> QED BY <3>1, <3>2, <3>3, <3>4, <3>5 DEF ThreadInv
  <2> QED BY <2>1, <2>2, <2>3 DEF IInv
<1>6. CASE SuspendWake
  <2> USE <1>6 DEF SuspendWake, WakeUp, Fault, NoFault, NextIs
  <2>1. TypeOK'
    BY DEF IInv, ThreadInv, StateInv, TypeOK, EmtInv, States, Labels, EmtLabels
  <2>2. EmtInv'
    BY DEF IInv, TypeOK, EmtInv
  <2>3. ASSUME NEW u \in Threads PROVE ThreadInv(u)'
    <3>1. StateInv(u)'
      BY DEF IInv, TypeOK, EmtInv, Labels, ThreadInv, StateInv
    <3>2. ASSUME u \in quiet' PROVE QuietInv(u)'
      BY <3>2 DEF IInv, TypeOK, EmtInv, ThreadInv, StateInv, QuietInv
    <3>3. ASSUME u \notin faulty' PROVE CallInv(u)'
      BY <3>3 DEF IInv, TypeOK, EmtInv, ThreadInv, StateInv, CallInv, BlockInv
    <3>4. ASSUME u \notin faulty' PROVE BlockInv(u)'
      BY <3>4 DEF IInv, TypeOK, EmtInv, ThreadInv, StateInv, CallInv, BlockInv
    <3>5. ASSUME u \notin faulty' PROVE AnswerInv(u)'
      BY <3>5 DEF IInv, TypeOK, EmtInv, ThreadInv, StateInv, CallInv, BlockInv, AnswerInv
    <3> QED BY <3>1, <3>2, <3>3, <3>4, <3>5 DEF ThreadInv
  <2> QED BY <2>1, <2>2, <2>3 DEF IInv
<1>7. CASE SuspendLook
  <2> USE <1>7 DEF SuspendLook, NextIs
  <2>1. TypeOK'
    BY DEF IInv, ThreadInv, StateInv, TypeOK, EmtInv, States, Labels, EmtLabels
  <2>2. EmtInv'
    BY DEF IInv, TypeOK, EmtInv
  <2>3. ASSUME NEW u \in Threads PROVE ThreadInv(u)'
    <3>1. StateInv(u)'
      BY DEF IInv, TypeOK, EmtInv, Labels, ThreadInv, StateInv
    <3>2. ASSUME u \in quiet' PROVE QuietInv(u)'
      BY <3>2 DEF IInv, TypeOK, EmtInv, ThreadInv, StateInv, QuietInv
    <3>3. ASSUME u \notin faulty' PROVE CallInv(u)'
      BY <3>3 DEF IInv, TypeOK, EmtInv, ThreadInv, StateInv, CallInv, BlockInv
    <3>4. ASSUME u \notin faulty' PROVE BlockInv(u)'
      BY <3>4 DEF IInv, TypeOK, EmtInv, ThreadInv, StateInv, CallInv, BlockInv
    <3>5. ASSUME u \notin faulty' PROVE AnswerInv(u)'
      BY <3>5 DEF IInv, TypeOK, EmtInv, ThreadInv, StateInv, CallInv, BlockInv, AnswerInv
    <3> QED BY <3>1, <3>2, <3>3, <3>4, <3>5 DEF ThreadInv
  <2> QED BY <2>1, <2>2, <2>3 DEF IInv
<1>8. CASE SuspendWait
  <2> USE <1>8 DEF SuspendWait, UserWait, NoFault, NextIs
  <2>1. TypeOK'
    BY DEF IInv, ThreadInv, StateInv, TypeOK, EmtInv, States, Labels, EmtLabels
  <2>2. EmtInv'
    BY DEF IInv, TypeOK, EmtInv
  <2>3. ASSUME NEW u \in Threads PROVE ThreadInv(u)'
    <3>1. StateInv(u)'
      BY DEF IInv, TypeOK, EmtInv, Labels, ThreadInv, StateInv
    <3>2. ASSUME u \in quiet' PROVE QuietInv(u)'
      BY <3>2 DEF IInv, TypeOK, EmtInv, ThreadInv, StateInv, QuietInv
    <3>3. ASSUME u \notin faulty' PROVE CallInv(u)'
      BY <3>3 DEF IInv, TypeOK, EmtInv, ThreadInv, StateInv, CallInv, BlockInv
    <3>4. ASSUME u \notin faulty' PROVE BlockInv(u)'
      BY <3>4 DEF IInv, TypeOK, EmtInv, ThreadInv, StateInv, CallInv, BlockInv
    <3>5. ASSUME u \notin faulty' PROVE AnswerInv(u)'
      BY <3>5 DEF IInv, TypeOK, EmtInv, ThreadInv, StateInv, CallInv, BlockInv, AnswerInv
    <3> QED BY <3>1, <3>2, <3>3, <3>4, <3>5 DEF ThreadInv
  <2> QED BY <2>1, <2>2, <2>3 DEF IInv
<1>9a. CASE SuspendCheck /\ enmState[cur] = "SUSPENDED"
  <2> USE <1>9a DEF SuspendCheck, HasSuspended, NextIs
  <2>0. Returns
    BY ReturnReturns DEF IInv, TypeOK, EmtInv
  <2>1. TypeOK'
    BY <2>0 DEF IInv, ThreadInv, StateInv, TypeOK, EmtInv, States, Labels, EmtLabels, Returns
  <2>2. EmtInv'
    BY <2>0 DEF IInv, TypeOK, EmtInv, Returns
  <2>3. ASSUME NEW u \in Threads PROVE ThreadInv(u)'
    <3>1. StateInv(u)'
      BY <2>0 DEF IInv, TypeOK, EmtInv, Labels, ThreadInv, StateInv, Returns
    <3>2. ASSUME u \in quiet' PROVE QuietInv(u)'
      BY <3>2 DEF IInv, TypeOK, EmtInv, Labels, ThreadInv, StateInv, QuietInv
    <3>3. ASSUME u \notin faulty' PROVE CallInv(u)' /\ BlockInv(u)' /\ AnswerInv(u)'
      BY <2>0, <3>3 DEF IInv, TypeOK, EmtInv, ThreadInv, StateInv, CallInv, BlockInv, AnswerInv, Returns
    <3> QED BY <3>1, <3>2, <3>3 DEF ThreadInv
  <2> QED BY <2>1, <2>2, <2>3 DEF IInv
<1>9b. CASE SuspendCheck /\ ~(enmState[cur] = "SUSPENDED")
  <2> USE <1>9b DEF SuspendCheck, HasSuspended, NextIs
  <2>1. TypeOK'
    BY DEF IInv, ThreadInv, StateInv, TypeOK, EmtInv, States, Labels, EmtLabels
  <2>2. EmtInv'
    BY DEF IInv, TypeOK, EmtInv
  <2>3. ASSUME NEW u \in Threads PROVE ThreadInv(u)'
    <3>1. StateInv(u)'
      BY DEF IInv, TypeOK, EmtInv, Labels, ThreadInv, StateInv
    <3>2. ASSUME u \in quiet' PROVE QuietInv(u)'
      BY <3>2 DEF IInv, TypeOK, EmtInv, ThreadInv, StateInv, QuietInv
    <3>3. ASSUME u \notin faulty' PROVE CallInv(u)'
      BY <3>3 DEF IInv, TypeOK, EmtInv, ThreadInv, StateInv, CallInv, BlockInv
    <3>4. ASSUME u \notin faulty' PROVE BlockInv(u)'
      BY <3>4 DEF IInv, TypeOK, EmtInv, ThreadInv, StateInv, CallInv, BlockInv
    <3>5. ASSUME u \notin faulty' PROVE AnswerInv(u)'
      BY <3>5 DEF IInv, TypeOK, EmtInv, ThreadInv, StateInv, CallInv, BlockInv, AnswerInv
    <3> QED BY <3>1, <3>2, <3>3, <3>4, <3>5 DEF ThreadInv
  <2> QED BY <2>1, <2>2, <2>3 DEF IInv
<1>10. CASE Resume
  <2> USE <1>10 DEF Resume, UserEventReset, SignalToCome, NextIs
  <2>1. TypeOK'
    BY DEF IInv, ThreadInv, StateInv, TypeOK, EmtInv, States, Labels, EmtLabels
  <2>2. EmtInv'
    BY DEF IInv, TypeOK, EmtInv
  <2>3. ASSUME NEW u \in Threads PROVE ThreadInv(u)'
    <3>1. StateInv(u)'
      BY DEF IInv, TypeOK, EmtInv, Labels, ThreadInv, StateInv
    <3>2. ASSUME u \in quiet' PROVE QuietInv(u)'
      BY <3>2 DEF IInv, TypeOK, EmtInv, ThreadInv, StateInv, QuietInv
    <3>3. ASSUME u \notin faulty' PROVE CallInv(u)'
      BY <3>3 DEF IInv, TypeOK, EmtInv, ThreadInv, StateInv, CallInv, BlockInv
    <3>4. ASSUME u \notin faulty' PROVE BlockInv(u)'
      BY <3>4 DEF IInv, TypeOK, EmtInv, ThreadInv, StateInv, CallInv, BlockInv
    <3>5. ASSUME u \notin faulty' PROVE AnswerInv(u)'
      BY <3>5 DEF IInv, TypeOK, EmtInv, ThreadInv, StateInv, CallInv, BlockInv, AnswerInv
    <3> QED BY <3>1, <3>2, <3>3, <3>4, <3>5 DEF ThreadInv
  <2> QED BY <2>1, <2>2, <2>3 DEF IInv
<1>11. CASE Resuming
  <2> USE <1>11 DEF Resuming, NextIs
  <2>1. TypeOK'
    BY DEF IInv, ThreadInv, StateInv, TypeOK, EmtInv, States, Labels, EmtLabels
  <2>2. EmtInv'
    BY DEF IInv, TypeOK, EmtInv
  <2>3. ASSUME NEW u \in Threads PROVE ThreadInv(u)'
    <3>1. StateInv(u)'
      BY DEF IInv, TypeOK, EmtInv, Labels, ThreadInv, StateInv
    <3>2. ASSUME u \in quiet' PROVE QuietInv(u)'
      BY <3>2 DEF IInv, TypeOK, EmtInv, ThreadInv, StateInv, QuietInv
    <3>3. ASSUME u \notin faulty' PROVE CallInv(u)'
      BY <3>3 DEF IInv, TypeOK, EmtInv, ThreadInv, StateInv, CallInv, BlockInv
    <3>4. ASSUME u \notin faulty' PROVE BlockInv(u)'
      BY <3>4 DEF IInv, TypeOK, EmtInv, ThreadInv, StateInv, CallInv, BlockInv
    <3>5. ASSUME u \notin faulty' PROVE AnswerInv(u)'
      BY <3>5 DEF IInv, TypeOK, EmtInv, States, ThreadInv, StateInv, CallInv, BlockInv, AnswerInv
    <3> QED BY <3>1, <3>2, <3>3, <3>4, <3>5 DEF ThreadInv
  <2> QED BY <2>1, <2>2, <2>3 DEF IInv
<1>12. CASE ResumeSignal
  <2> USE <1>12 DEF ResumeSignal, NextIs
  <2>1. TypeOK'
    BY DEF IInv, ThreadInv, StateInv, TypeOK, EmtInv, States, Labels, EmtLabels
  <2>2. EmtInv'
    BY DEF IInv, TypeOK, EmtInv
  <2>3. ASSUME NEW u \in Threads PROVE ThreadInv(u)'
    <3>1. StateInv(u)'
      BY DEF IInv, TypeOK, EmtInv, Labels, ThreadInv, StateInv
    <3>2. ASSUME u \in quiet' PROVE QuietInv(u)'
      BY <3>2 DEF IInv, TypeOK, EmtInv, ThreadInv, StateInv, QuietInv
    <3>3. ASSUME u \notin faulty' PROVE CallInv(u)'
      BY <3>3 DEF IInv, TypeOK, EmtInv, ThreadInv, StateInv, CallInv, BlockInv
    <3>4. ASSUME u \notin faulty' PROVE BlockInv(u)'
      BY <3>4 DEF IInv, TypeOK, EmtInv, ThreadInv, StateInv, CallInv, BlockInv
    <3>5. ASSUME u \notin faulty' PROVE AnswerInv(u)'
      BY <3>5 DEF IInv, TypeOK, EmtInv, ThreadInv, StateInv, CallInv, BlockInv, AnswerInv
    <3> QED BY <3>1, <3>2, <3>3, <3>4, <3>5 DEF ThreadInv
  <2> QED BY <2>1, <2>2, <2>3 DEF IInv
<1>13. CASE ResumeWait
  <2> USE <1>13 DEF ResumeWait, UserWait, NoFault, NextIs
  <2>1. TypeOK'
    BY DEF IInv, ThreadInv, StateInv, TypeOK, EmtInv, States, Labels, EmtLabels
  <2>2. EmtInv'
    BY DEF IInv, TypeOK, EmtInv
  <2>3. ASSUME NEW u \in Threads PROVE ThreadInv(u)'
    <3>1. StateInv(u)'
      BY DEF IInv, TypeOK, EmtInv, Labels, ThreadInv, StateInv
    <3>2. ASSUME u \in quiet' PROVE QuietInv(u)'
      BY <3>2 DEF IInv, TypeOK, EmtInv, ThreadInv, StateInv, QuietInv
    <3>3. ASSUME u \notin faulty' PROVE CallInv(u)'
      BY <3>3 DEF IInv, TypeOK, EmtInv, ThreadInv, StateInv, CallInv, BlockInv
    <3>4. ASSUME u \notin faulty' PROVE BlockInv(u)'
      BY <3>4 DEF IInv, TypeOK, EmtInv, ThreadInv, StateInv, CallInv, BlockInv
    <3>5. ASSUME u \notin faulty' PROVE AnswerInv(u)'
      BY <3>5 DEF IInv, TypeOK, EmtInv, ThreadInv, StateInv, CallInv, BlockInv, AnswerInv
    <3> QED BY <3>1, <3>2, <3>3, <3>4, <3>5 DEF ThreadInv
  <2> QED BY <2>1, <2>2, <2>3 DEF IInv
<1>14a. CASE ResumeCheck /\ enmState[cur] = "RUNNING"
  <2> USE <1>14a DEF ResumeCheck, NextIs
  <2>0. Returns
    BY ReturnReturns DEF IInv, TypeOK, EmtInv
  <2>1. TypeOK'
    BY <2>0 DEF IInv, ThreadInv, StateInv, TypeOK, EmtInv, States, Labels, EmtLabels, Returns
  <2>2. EmtInv'
    BY <2>0 DEF IInv, TypeOK, EmtInv, Returns
  <2>3. ASSUME NEW u \in Threads PROVE ThreadInv(u)'
    <3>1. StateInv(u)'
      BY <2>0 DEF IInv, TypeOK, EmtInv, Labels, ThreadInv, StateInv, Returns
    <3>2. ASSUME u \in quiet' PROVE QuietInv(u)'
      BY <3>2 DEF IInv, TypeOK, EmtInv, ThreadInv, StateInv, QuietInv
    <3>3. ASSUME u \notin faulty' PROVE CallInv(u)' /\ BlockInv(u)' /\ AnswerInv(u)'
      BY <2>0, <3>3 DEF IInv, TypeOK, EmtInv, ThreadInv, StateInv, CallInv, BlockInv, AnswerInv, Returns
    <3> QED BY <3>1, <3>2, <3>3 DEF ThreadInv
  <2> QED BY <2>1, <2>2, <2>3 DEF IInv
<1>14b. CASE ResumeCheck /\ ~(enmState[cur] = "RUNNING")
  <2> USE <1>14b DEF ResumeCheck, NextIs
  <2>1. TypeOK'
    BY DEF IInv, ThreadInv, StateInv, TypeOK, EmtInv, States, Labels, EmtLabels
  <2>2. EmtInv'
    BY DEF IInv, TypeOK, EmtInv
  <2>3. ASSUME NEW u \in Threads PROVE ThreadInv(u)'
    <3>1. StateInv(u)'
      BY DEF IInv, TypeOK, EmtInv, Labels, ThreadInv, StateInv
    <3>2. ASSUME u \in quiet' PROVE QuietInv(u)'
      BY <3>2 DEF IInv, TypeOK, EmtInv, ThreadInv, StateInv, QuietInv
    <3>3. ASSUME u \notin faulty' PROVE CallInv(u)'
      BY <3>3 DEF IInv, TypeOK, EmtInv, ThreadInv, StateInv, CallInv, BlockInv
    <3>4. ASSUME u \notin faulty' PROVE BlockInv(u)'
      BY <3>4 DEF IInv, TypeOK, EmtInv, ThreadInv, StateInv, CallInv, BlockInv
    <3>5. ASSUME u \notin faulty' PROVE AnswerInv(u)'
      BY <3>5 DEF IInv, TypeOK, EmtInv, ThreadInv, StateInv, CallInv, BlockInv, AnswerInv
    <3> QED BY <3>1, <3>2, <3>3, <3>4, <3>5 DEF ThreadInv
  <2> QED BY <2>1, <2>2, <2>3 DEF IInv
<1>15a. CASE BailOut /\ enmState[cur] \notin {"SUSPENDING", "SUSPENDED", "RESUMING", "RUNNING"}
  <2> USE <1>15a DEF BailOut
  <2>0. Returns
    BY ReturnReturns DEF IInv, TypeOK, EmtInv
  <2>1. TypeOK'
    BY <2>0 DEF IInv, ThreadInv, StateInv, TypeOK, EmtInv, States, Labels, EmtLabels, Returns
  <2>2. EmtInv'
    BY <2>0 DEF IInv, TypeOK, EmtInv, Returns
  <2>3. ASSUME NEW u \in Threads PROVE ThreadInv(u)'
    <3>1. StateInv(u)'
      BY <2>0 DEF IInv, TypeOK, EmtInv, Labels, ThreadInv, StateInv, Returns
    <3>2. ASSUME u \in quiet' PROVE QuietInv(u)'
      BY <3>2 DEF IInv, TypeOK, EmtInv, ThreadInv, StateInv, QuietInv
    <3>3. ASSUME u \notin faulty' PROVE CallInv(u)' /\ BlockInv(u)' /\ AnswerInv(u)'
      BY <2>0, <3>3 DEF IInv, TypeOK, EmtInv, ThreadInv, StateInv, CallInv, BlockInv, AnswerInv, Returns
    <3> QED BY <3>1, <3>2, <3>3 DEF ThreadInv
  <2> QED BY <2>1, <2>2, <2>3 DEF IInv
<1>15b. CASE BailOut /\ ~(enmState[cur] \notin {"SUSPENDING", "SUSPENDED", "RESUMING", "RUNNING"})
  <2> USE <1>15b DEF BailOut
  <2>4. cur \in Threads /\ cur \in alive /\ enmState' = [enmState EXCEPT ![cur] = "TERMINATING"]
    BY DEF IInv, TypeOK, EmtInv
  <2>1. TypeOK'
    <3>1. enmState' \in [Threads -> States] /\ was' \in States /\ epc' \in EmtLabels
      BY <2>4 DEF IInv, TypeOK, States, EmtLabels
    <3>2. alive = {u \in Threads : enmState'[u] # "INVALID"}
      BY <2>4 DEF IInv, TypeOK
    <3> QED BY <2>4, <3>1, <3>2 DEF IInv, TypeOK
  <2>2. EmtInv'
    BY DEF IInv, TypeOK, EmtInv
  <2>3. ASSUME NEW u \in Threads PROVE ThreadInv(u)'
    <3>1. StateInv(u)'
      <4>1. CASE u = cur
        <5>1. pc[u] \notin {"none", "signalTerminated", "exited"} /\ enmState'[u] = "TERMINATING"
          BY <2>4, <4>1 DEF IInv, TypeOK, ThreadInv, StateInv
        <5> QED BY <5>1 DEF IInv, ThreadInv, StateInv
      <4>2. CASE u # cur
        <5>1. enmState'[u] = enmState[u]
          BY <2>4, <4>2 DEF IInv, TypeOK
        <5> QED BY <5>1, <4>2 DEF IInv, ThreadInv, StateInv
      <4> QED BY <4>1, <4>2
    <3>2. ASSUME u \in quiet' PROVE QuietInv(u)'
      BY <3>2 DEF IInv, TypeOK, EmtInv, ThreadInv, StateInv, QuietInv
    <3>3. ASSUME u \notin faulty' PROVE CallInv(u)'
      BY <3>3 DEF IInv, TypeOK, EmtInv, ThreadInv, StateInv, CallInv, BlockInv
    <3>4. ASSUME u \notin faulty' PROVE BlockInv(u)'
      BY <3>4 DEF IInv, TypeOK, EmtInv, ThreadInv, StateInv, CallInv, BlockInv
    <3>5. ASSUME u \notin faulty' PROVE AnswerInv(u)'
      BY <3>5 DEF IInv, TypeOK, EmtInv, ThreadInv, StateInv, CallInv, BlockInv, AnswerInv
    <3> QED BY <3>1, <3>2, <3>3, <3>4, <3>5 DEF ThreadInv
  <2> QED BY <2>1, <2>2, <2>3 DEF IInv
<1>16. CASE BailSignal
  <2> USE <1>16 DEF BailSignal, BailUnblocks
  <2>0. Returns
    BY ReturnReturns DEF IInv, TypeOK, EmtInv
  <2>1. TypeOK'
    BY <2>0 DEF IInv, ThreadInv, StateInv, TypeOK, EmtInv, States, Labels, EmtLabels, Returns
  <2>2. EmtInv'
    BY <2>0 DEF IInv, TypeOK, EmtInv, Returns
  <2>3. ASSUME NEW u \in Threads PROVE ThreadInv(u)'
    <3>1. StateInv(u)'
      BY <2>0 DEF IInv, TypeOK, EmtInv, Labels, ThreadInv, StateInv, Returns
    <3>2. ASSUME u \in quiet' PROVE QuietInv(u)'
      BY <3>2 DEF IInv, TypeOK, EmtInv, ThreadInv, StateInv, QuietInv
    <3>3. ASSUME u \notin faulty' PROVE CallInv(u)' /\ BlockInv(u)' /\ AnswerInv(u)'
      BY <2>0, <3>3 DEF IInv, TypeOK, EmtInv, ThreadInv, StateInv, CallInv, BlockInv, AnswerInv, Returns
    <3> QED BY <3>1, <3>2, <3>3 DEF ThreadInv
  <2> QED BY <2>1, <2>2, <2>3 DEF IInv
<1>17. CASE Destroy
  <2> USE <1>17 DEF Destroy
  <2>1. TypeOK'
    <3>1. CASE enmState[cur] \in {"TERMINATING", "TERMINATED"}
      BY <3>1 DEF IInv, TypeOK, EmtInv, States, EmtLabels
    <3>2. CASE enmState[cur] \notin {"TERMINATING", "TERMINATED"}
      BY <3>2 DEF IInv, TypeOK, EmtInv, States, EmtLabels
    <3> QED BY <3>1, <3>2
  <2>2. EmtInv'
    BY DEF IInv, TypeOK, EmtInv
  <2>3. ASSUME NEW u \in Threads PROVE ThreadInv(u)'
    <3>1. StateInv(u)'
      <4>1. CASE enmState[cur] \in {"TERMINATING", "TERMINATED"}
        BY <4>1 DEF IInv, TypeOK, EmtInv, ThreadInv, StateInv
      <4>2. CASE enmState[cur] \notin {"TERMINATING", "TERMINATED"}
        BY <4>2 DEF IInv, TypeOK, EmtInv, States, Labels, ThreadInv, StateInv
      <4> QED BY <4>1, <4>2
    <3>2. ASSUME u \in quiet' PROVE QuietInv(u)'
      BY <3>2 DEF IInv, TypeOK, EmtInv, ThreadInv, StateInv, QuietInv
    <3>3. ASSUME u \notin faulty' PROVE CallInv(u)'
      BY <3>3 DEF IInv, TypeOK, EmtInv, ThreadInv, StateInv, CallInv, BlockInv
    <3>4. ASSUME u \notin faulty' PROVE BlockInv(u)'
      BY <3>4 DEF IInv, TypeOK, EmtInv, ThreadInv, StateInv, CallInv, BlockInv
    <3>5. ASSUME u \notin faulty' PROVE AnswerInv(u)'
      BY <3>5 DEF IInv, TypeOK, EmtInv, ThreadInv, StateInv, CallInv, BlockInv, AnswerInv
    <3> QED BY <3>1, <3>2, <3>3, <3>4, <3>5 DEF ThreadInv
  <2> QED BY <2>1, <2>2, <2>3 DEF IInv
<1>18. CASE DestroyWake
  <2> USE <1>18 DEF DestroyWake, WakeUp, Fault, NoFault, NextIs
  <2>1. TypeOK'
    BY DEF IInv, ThreadInv, StateInv, TypeOK, EmtInv, States, Labels, EmtLabels
  <2>2. EmtInv'
    BY DEF IInv, TypeOK, EmtInv
  <2>3. ASSUME NEW u \in Threads PROVE ThreadInv(u)'
    <3>1. StateInv(u)'
      BY DEF IInv, TypeOK, EmtInv, Labels, ThreadInv, StateInv
    <3>2. ASSUME u \in quiet' PROVE QuietInv(u)'
      BY <3>2 DEF IInv, TypeOK, EmtInv, ThreadInv, StateInv, QuietInv
    <3>3. ASSUME u \notin faulty' PROVE CallInv(u)'
      BY <3>3 DEF IInv, TypeOK, EmtInv, ThreadInv, StateInv, CallInv, BlockInv
    <3>4. ASSUME u \notin faulty' PROVE BlockInv(u)'
      BY <3>4 DEF IInv, TypeOK, EmtInv, ThreadInv, StateInv, CallInv, BlockInv
    <3>5. ASSUME u \notin faulty' PROVE AnswerInv(u)'
      BY <3>5 DEF IInv, TypeOK, EmtInv, ThreadInv, StateInv, CallInv, BlockInv, AnswerInv
    <3> QED BY <3>1, <3>2, <3>3, <3>4, <3>5 DEF ThreadInv
  <2> QED BY <2>1, <2>2, <2>3 DEF IInv
<1>19. CASE DestroySignal
  <2> USE <1>19 DEF DestroySignal, NextIs
  <2>1. TypeOK'
    BY DEF IInv, ThreadInv, StateInv, TypeOK, EmtInv, States, Labels, EmtLabels
  <2>2. EmtInv'
    BY DEF IInv, TypeOK, EmtInv
  <2>3. ASSUME NEW u \in Threads PROVE ThreadInv(u)'
    <3>1. StateInv(u)'
      BY DEF IInv, TypeOK, EmtInv, Labels, ThreadInv, StateInv
    <3>2. ASSUME u \in quiet' PROVE QuietInv(u)'
      BY <3>2 DEF IInv, TypeOK, EmtInv, ThreadInv, StateInv, QuietInv
    <3>3. ASSUME u \notin faulty' PROVE CallInv(u)'
      BY <3>3 DEF IInv, TypeOK, EmtInv, ThreadInv, StateInv, CallInv, BlockInv
    <3>4. ASSUME u \notin faulty' PROVE BlockInv(u)'
      BY <3>4 DEF IInv, TypeOK, EmtInv, ThreadInv, StateInv, CallInv, BlockInv
    <3>5. ASSUME u \notin faulty' PROVE AnswerInv(u)'
      BY <3>5 DEF IInv, TypeOK, EmtInv, ThreadInv, StateInv, CallInv, BlockInv, AnswerInv
    <3> QED BY <3>1, <3>2, <3>3, <3>4, <3>5 DEF ThreadInv
  <2> QED BY <2>1, <2>2, <2>3 DEF IInv
<1>20. CASE DestroyWait
  <2> USE <1>20 DEF DestroyWait, MayFree, Free
  <2>0. Returns
    BY ReturnReturns DEF IInv, TypeOK, EmtInv
  <2>4. PICK i \in DOMAIN list : list[i] = cur /\ list' = RemoveAt(list, i)
    OBVIOUS
  <2>5. list' \in Seq(Threads) /\ ToSet(list') = ToSet(list) \ {cur} /\ IsInjective(list')
    BY <2>4, RemoveAtKeeps DEF IInv, TypeOK, EmtInv
  <2>6. cur \in Threads /\ cur \notin ToSet(todo)
    BY DEF IInv, TypeOK, EmtInv
  <2>1. TypeOK'
    BY <2>0, <2>5, <2>6 DEF IInv, ThreadInv, StateInv, TypeOK, EmtInv, States, Labels, EmtLabels, Returns
  <2>2. EmtInv'
    BY <2>0, <2>5, <2>6 DEF IInv, TypeOK, EmtInv, Returns
  <2>3. ASSUME NEW u \in Threads PROVE ThreadInv(u)'
    <3>1. StateInv(u)'
      BY <2>0, <2>5, <2>6 DEF IInv, TypeOK, EmtInv, Labels, ThreadInv, StateInv, Returns
    <3>2. ASSUME u \in quiet' PROVE QuietInv(u)'
      BY <3>2 DEF IInv, TypeOK, EmtInv, ThreadInv, StateInv, QuietInv
    <3>3. ASSUME u \notin faulty' PROVE CallInv(u)' /\ BlockInv(u)' /\ AnswerInv(u)'
      BY <2>0, <3>3 DEF IInv, TypeOK, EmtInv, ThreadInv, StateInv, CallInv, BlockInv, AnswerInv, Returns
    <3> QED BY <3>1, <3>2, <3>3 DEF ThreadInv
  <2> QED BY <2>1, <2>2, <2>3 DEF IInv
<1> QED BY <1>1a, <1>1b, <1>2, <1>3, <1>4a, <1>4b, <1>5, <1>6, <1>7, <1>8, <1>9a, <1>9b, <1>10, <1>11, <1>12, <1>13, <1>14a, <1>14b, <1>15a, <1>15b, <1>16, <1>17, <1>18, <1>19, <1>20 DEF EmtStep

\* So do the waits that time out and the beginning of a walk.
LEMMA TimeoutPreserves ==
    ASSUME IInv, CallAll \/ WaitTimeout \/ DestroyTimeout PROVE IInv'
<1> USE NilAssumption, BoundsAssumption DEF Go, SetState, events, emtVars, threadVars, history
<1>1. CASE CallAll
  <2> USE <1>1 DEF CallAll
  <2>1. TypeOK'
    BY DEF IInv, ThreadInv, StateInv, TypeOK, EmtInv, States, Labels, EmtLabels
  <2>2. EmtInv'
    BY DEF IInv, TypeOK, EmtInv
  <2>3. ASSUME NEW u \in Threads PROVE ThreadInv(u)'
    <3>1. StateInv(u)'
      BY DEF IInv, TypeOK, EmtInv, Labels, ThreadInv, StateInv
    <3>2. ASSUME u \in quiet' PROVE QuietInv(u)'
      BY <3>2 DEF IInv, TypeOK, EmtInv, ThreadInv, StateInv, QuietInv
    <3>3. ASSUME u \notin faulty' PROVE CallInv(u)'
      BY <3>3 DEF IInv, TypeOK, EmtInv, ThreadInv, StateInv, CallInv, BlockInv
    <3>4. ASSUME u \notin faulty' PROVE BlockInv(u)'
      BY <3>4 DEF IInv, TypeOK, EmtInv, ThreadInv, StateInv, CallInv, BlockInv
    <3>5. ASSUME u \notin faulty' PROVE AnswerInv(u)'
      BY <3>5 DEF IInv, TypeOK, EmtInv, ThreadInv, StateInv, CallInv, BlockInv, AnswerInv
    <3> QED BY <3>1, <3>2, <3>3, <3>4, <3>5 DEF ThreadInv
  <2> QED BY <2>1, <2>2, <2>3 DEF IInv
<1>2. CASE WaitTimeout
  <2> USE <1>2 DEF WaitTimeout, UserTimeout, Fault, NextIs
  <2>1. TypeOK'
    BY DEF IInv, ThreadInv, StateInv, TypeOK, EmtInv, States, Labels, EmtLabels
  <2>2. EmtInv'
    BY DEF IInv, TypeOK, EmtInv
  <2>3. ASSUME NEW u \in Threads PROVE ThreadInv(u)'
    <3>1. StateInv(u)'
      BY DEF IInv, TypeOK, EmtInv, Labels, ThreadInv, StateInv
    <3>2. ASSUME u \in quiet' PROVE QuietInv(u)'
      BY <3>2 DEF IInv, TypeOK, EmtInv, ThreadInv, StateInv, QuietInv
    <3>3. ASSUME u \notin faulty' PROVE CallInv(u)'
      BY <3>3 DEF IInv, TypeOK, EmtInv, ThreadInv, StateInv, CallInv, BlockInv
    <3>4. ASSUME u \notin faulty' PROVE BlockInv(u)'
      BY <3>4 DEF IInv, TypeOK, EmtInv, ThreadInv, StateInv, CallInv, BlockInv
    <3>5. ASSUME u \notin faulty' PROVE AnswerInv(u)'
      BY <3>5 DEF IInv, TypeOK, EmtInv, ThreadInv, StateInv, CallInv, BlockInv, AnswerInv
    <3> QED BY <3>1, <3>2, <3>3, <3>4, <3>5 DEF ThreadInv
  <2> QED BY <2>1, <2>2, <2>3 DEF IInv
<1>3. CASE DestroyTimeout
  <2> USE <1>3 DEF DestroyTimeout, Fault
  <2>0. Returns
    BY ReturnReturns DEF IInv, TypeOK, EmtInv
  <2>1. TypeOK'
    BY <2>0 DEF IInv, ThreadInv, StateInv, TypeOK, EmtInv, States, Labels, EmtLabels, Returns
  <2>2. EmtInv'
    BY <2>0 DEF IInv, TypeOK, EmtInv, Returns
  <2>3. ASSUME NEW u \in Threads PROVE ThreadInv(u)'
    <3>1. StateInv(u)'
      BY <2>0 DEF IInv, TypeOK, EmtInv, Labels, ThreadInv, StateInv, Returns
    <3>2. ASSUME u \in quiet' PROVE QuietInv(u)'
      BY <3>2 DEF IInv, TypeOK, EmtInv, ThreadInv, StateInv, QuietInv
    <3>3. ASSUME u \notin faulty' PROVE CallInv(u)' /\ BlockInv(u)' /\ AnswerInv(u)'
      BY <2>0, <3>3 DEF IInv, TypeOK, EmtInv, ThreadInv, StateInv, CallInv, BlockInv, AnswerInv, Returns
    <3> QED BY <3>1, <3>2, <3>3 DEF ThreadInv
  <2> QED BY <2>1, <2>2, <2>3 DEF IInv
<1> QED BY <1>1, <1>2, <1>3-----------------------------------------------------------------------------
(* The theorems *)

\* The inductive invariant holds in every state.
LEMMA Inductive == Spec => []IInv
<1>1. Init => IInv
  <2> SUFFICES ASSUME Init PROVE IInv
    OBVIOUS
  <2> USE NilAssumption, BoundsAssumption DEF Init
  <2>1. <<>> \in Seq(Threads) /\ IsInjective(<<>>) /\ ToSet(<<>>) = {}
    BY DEF IsInjective, ToSet
  <2>2. TypeOK
    <3>1. enmState \in [Threads -> States] /\ seen \in [Threads -> States] /\ pc \in [Threads -> Labels]
      BY DEF States, Labels
    <3>2. alive = {t \in Threads : enmState[t] # "INVALID"}
      OBVIOUS
    <3>3. cCalls \in 0 .. MaxCalls /\ cFaults \in 0 .. MaxFaults
      OBVIOUS
    <3>4. late \in BOOLEAN
      OBVIOUS
    <3> QED BY <2>1, <3>1, <3>2, <3>3, <3>4 DEF TypeOK, States, EmtLabels
  <2>3. EmtInv
    BY <2>1 DEF EmtInv
  <2>4. ASSUME NEW t \in Threads PROVE ThreadInv(t)
    BY DEF ThreadInv, StateInv, QuietInv, CallInv, BlockInv, AnswerInv
  <2> QED BY <2>2, <2>3, <2>4 DEF IInv
<1>2. IInv /\ [Next]_vars => IInv'
  <2> SUFFICES ASSUME IInv, [Next]_vars PROVE IInv'
    OBVIOUS
  <2>1. CASE EmtStep
    BY <2>1, EmtStepPreserves
  <2>2. CASE CallAll \/ WaitTimeout \/ DestroyTimeout
    BY <2>2, TimeoutPreserves
  <2>3. ASSUME NEW t \in Threads, ThreadStep(t) PROVE IInv'
    BY <2>3, ThreadStepPreserves
  <2>4. ASSUME NEW t \in Threads, Quit(t) \/ SleepTimeout(t) PROVE IInv'
    BY <2>4, QuitPreserves
  <2>5. ASSUME NEW t \in Threads, Create(t) \/ Call(t) PROVE IInv'
    BY <2>5, CallPreserves
  <2>6. CASE UNCHANGED vars
    BY <2>6 DEF vars, events, threadVars, emtVars, history, IInv, TypeOK, EmtInv, ThreadInv,
                StateInv, QuietInv, CallInv, BlockInv, AnswerInv
  <2> QED BY <2>1, <2>2, <2>3, <2>4, <2>5, <2>6 DEF Next
<1> QED BY <1>1, <1>2, PTL DEF Spec

\* Only an allocated structure is on the list, has events or is at the EMT's hands; no
\* structure is linked in twice, and a walk's remaining threads are all still linked in.
THEOREM TypeCorrect == Spec => []TypeOK
<1>1. IInv => TypeOK
  BY DEF IInv
<1> QED BY <1>1, Inductive, PTL

\* A thread that a call has reported suspended is out of its function until it is
\* resumed, and no thread leaves its loop unless told to terminate or after a fault.
THEOREM StaysOut == Spec => []SuspendedStaysOut
<1>1. IInv => SuspendedStaysOut
  BY DEF IInv, TypeOK, ThreadInv, QuietInv, BlockInv, SuspendedStaysOut
<1> QED BY <1>1, Inductive, PTL

\* Suspend and resume bail a thread out only if it had a fault, or if the signal of an
\* earlier call was still to come when the user event was reset.
THEOREM BailsOnlyIfLate == Spec => []FailsOnlyIfLate
<1>1. IInv => FailsOnlyIfLate
  BY NilAssumption DEF IInv, TypeOK, EmtInv, ThreadInv, AnswerInv, FailsOnlyIfLate
<1> QED BY <1>1, Inductive, PTL
=============================================================================
