----------------------------- MODULE VMReqQueue -----------------------------
(***************************************************************************)
(* Requests to the emulation threads: queueing (VMR3ReqQueue), the forced  *)
(* action flags and the wake-up of a sleeping EMT (VMEmt.cpp), and the     *)
(* lock-free processing of the queues (VMR3ReqProcessU), which several     *)
(* EMTs do at once on the common queue.                                    *)
(*                                                                         *)
(* Queues are LIFO lists with a CAS'ed head: a sequence, newest first.  A  *)
(* push and an exchange are one step; a list in the hands of an EMT is     *)
(* private.  Allocation and recycling of packets are left out.             *)
(*                                                                         *)
(* Left out: requests before the VM structure exists, and processing from  *)
(* within a request.  The waiting is the one of the halt methods that use  *)
(* EventSemWait (VMHALTMETHOD_OLD and _1).  The default of this version,   *)
(* VMHALTMETHOD_GLOBAL_1, which sleeps in ring-0, is left out.             *)
(***************************************************************************)
EXTENDS Integers, Sequences, FiniteSets, SequencesExt

CONSTANTS
    cCpus,        \* number of virtual CPUs, each with its EMT
    Reqs,         \* request packets, each in the hands of a requesting thread
    MaxCalls,     \* bound on the number of VMR3ReqQueue calls
    Calls,        \* per packet: the kinds of calls its requester makes
    VMStates,     \* the VM is running (EM loop) or suspended (vmR3EmulationThread loop)
    AsyncNotify,  \* bound on the asynchronous PDM notifications EMT 0 waits for: {} for
                  \* none, {"never"} for one, {"never", "none"} for any number
    NIL

ASSUME CpusAssumption == cCpus \in Nat \ {0}
ASSUME StatesAssumption == VMStates \subseteq {"running", "suspended"}
ASSUME NilAssumption == NIL \notin Reqs
ASSUME BoundsAssumption == MaxCalls \in Nat
\* The notifications are sent from an EMT rendezvous, which holds the other EMTs.
ASSUME AsyncAssumption == AsyncNotify \subseteq {"never", "none"} /\ (AsyncNotify # {} => cCpus = 1)

Emts == 0 .. cCpus - 1
ANY == -1                   \* VMCPUID_ANY
Queues == Emts \cup {ANY}
Kinds == {"priority", "normal"}

\* Destinations are a CPU or any (step 0), VMCPUID_ALL from the first CPU up, and
\* VMCPUID_ALL_REVERSE; the latter two are waited for.
AllCalls ==
    {c \in [first: Queues, step: {-1, 0, 1}, priority: BOOLEAN, nowait: BOOLEAN] :
        /\ c.step = 1 => c.first = 0 /\ ~c.nowait
        /\ c.step = -1 => c.first = cCpus - 1 /\ ~c.nowait}

ASSUME CallsAssumption == Calls \in [Reqs -> SUBSET AllCalls]

VARIABLES
    enmVMState,      \* the state of the VM, one of VMStates
    pReqs,           \* the lists: pPriorityReqs and pNormalReqs, per queue
    ff,              \* VM_FF_REQUEST, VMCPU_FF_REQUEST
    enmState,        \* packet state
    idDstCpu, fPriority, fNoWait, \* packet fields
    iStep,           \* 1 for VMCPUID_ALL, -1 for VMCPUID_ALL_REVERSE, otherwise 0
    rpc,             \* requester: next instruction
    iCpu,            \* requester: next EMT to notify
    cCalls,          \* calls made so far
    async,           \* a PDM notification's asynchronous part, done by another thread
    fWait, EventSemWait, \* per EMT
    pc,              \* EMT: next instruction
    dst,             \* EMT: queue being processed
    fPriorityOnly,   \* EMT: the argument of VMR3ReqProcessU; TRUE inside the async wait
    kind,            \* EMT: which of the two lists it took
    pReqList,        \* EMT: requests to push back
    pReq             \* EMT: the request in its hands

reqVars  == <<enmState, idDstCpu, fPriority, fNoWait, iStep>>
callVars == <<rpc, iCpu, cCalls>>
procVars == <<dst, fPriorityOnly, kind, pReqList, pReq>>
emtVars  == <<pc, fWait, EventSemWait, procVars>>
vars == <<enmVMState, async, pReqs, ff, reqVars, callVars, emtVars>>

Init ==
    /\ enmVMState \in VMStates
    /\ pReqs = [d \in Queues |-> [k \in Kinds |-> <<>>]]
    /\ ff = [d \in Queues |-> FALSE]
    /\ enmState = [r \in Reqs |-> "free"]
    /\ idDstCpu = [r \in Reqs |-> ANY]
    /\ fPriority = [r \in Reqs |-> FALSE]
    /\ fNoWait = [r \in Reqs |-> FALSE]
    /\ iStep = [r \in Reqs |-> 0]
    /\ rpc = [r \in Reqs |-> "idle"]
    /\ iCpu = [r \in Reqs |-> 0]
    /\ cCalls = 0
    /\ async = "never"
    /\ fWait = [e \in Emts |-> FALSE]
    /\ EventSemWait = [e \in Emts |-> FALSE]
    /\ pc = [e \in Emts |-> "top"]
    /\ dst = [e \in Emts |-> ANY]
    /\ fPriorityOnly = [e \in Emts |-> FALSE]
    /\ kind = [e \in Emts |-> "normal"]
    /\ pReqList = [e \in Emts |-> <<>>]
    /\ pReq = [e \in Emts |-> NIL]

-----------------------------------------------------------------------------
(* The requester: VMR3ReqQueue *)

KindOf(r) == IF fPriority'[r] THEN "priority" ELSE "normal"

\* Insert at the head of the list that the packet's fields select.
Push(r) ==
    /\ enmState' = [enmState EXCEPT ![r] = "queued"]
    /\ pReqs' = [pReqs EXCEPT ![idDstCpu'[r]][KindOf(r)] = <<r>> \o @]
    /\ rpc' = [rpc EXCEPT ![r] = "setff"]

\* The call, for a CPU, for any (VMCPUID_ANY, ANY_QUEUE) or for all, one by one.
\* The requester is not the destination EMT, which would just run the request.
ReqQueue(r) ==
    /\ rpc[r] = "idle" /\ enmState[r] = "free" /\ cCalls < MaxCalls
    /\ cCalls' = cCalls + 1
    /\ \E c \in Calls[r] :
          /\ idDstCpu' = [idDstCpu EXCEPT ![r] = c.first]
          /\ iStep' = [iStep EXCEPT ![r] = c.step]
          /\ fPriority' = [fPriority EXCEPT ![r] = c.priority]
          /\ fNoWait' = [fNoWait EXCEPT ![r] = c.nowait]
    /\ Push(r)
    /\ UNCHANGED <<enmVMState, async, ff, iCpu, emtVars>>

ReqSetFF(r) ==
    /\ rpc[r] = "setff"
    /\ ff' = [ff EXCEPT ![idDstCpu[r]] = TRUE]
    /\ rpc' = [rpc EXCEPT ![r] = "notify"]
    /\ iCpu' = [iCpu EXCEPT ![r] = IF idDstCpu[r] = ANY THEN 0 ELSE idDstCpu[r]]
    /\ UNCHANGED <<enmVMState, async, pReqs, reqVars, cCalls, emtVars>>

\* Seeded fault: the notification loop runs one EMT too far.
LastToNotifyTooFar(r) == IF idDstCpu[r] = ANY THEN cCpus ELSE iCpu[r]

\* The last EMT that r's notification loop visits.
LastToNotify(r) == IF idDstCpu[r] = ANY THEN cCpus - 1 ELSE iCpu[r]

\* vmR3DefaultNotifyCpuFF for one EMT; VMR3NotifyGlobalFFU visits them in order.
\* (A signal that arrives late is a spurious wake-up, as WaitTimeout is.)
ReqNotify(r) ==
    /\ rpc[r] = "notify"
    /\ EventSemWait' = [EventSemWait EXCEPT ![iCpu[r]] = @ \/ fWait[iCpu[r]]]
    /\ IF iCpu[r] < LastToNotify(r)
       THEN iCpu' = [iCpu EXCEPT ![r] = @ + 1] /\ UNCHANGED rpc
       ELSE /\ rpc' = [rpc EXCEPT ![r] = IF fNoWait[r] THEN "idle" ELSE "wait"]
            /\ iCpu' = [iCpu EXCEPT ![r] = 0]
    /\ UNCHANGED <<enmVMState, async, pReqs, ff, reqVars, cCalls, pc, fWait, procVars>>

\* Seeded fault: the loop variable is incremented twice.
NextCpuSkips(r) == idDstCpu[r] + 2 * iStep[r]

\* The loops of VMCPUID_ALL and VMCPUID_ALL_REVERSE.
NextCpu(r) == idDstCpu[r] + iStep[r]

\* VMR3ReqWait returns; the requester goes on with the next CPU of VMCPUID_ALL,
\* or frees the packet.
ReqWaitReturns(r) ==
    /\ rpc[r] = "wait" /\ enmState[r] = "completed"
    /\ UNCHANGED <<fPriority, fNoWait, iStep>>
    /\ IF iStep[r] # 0 /\ NextCpu(r) \in Emts
       THEN /\ idDstCpu' = [idDstCpu EXCEPT ![r] = NextCpu(r)]
            /\ Push(r)
       ELSE /\ enmState' = [enmState EXCEPT ![r] = "free"]
            /\ rpc' = [rpc EXCEPT ![r] = "idle"]
            /\ UNCHANGED <<pReqs, idDstCpu>>
    /\ UNCHANGED <<enmVMState, async, ff, iCpu, cCalls, emtVars>>

-----------------------------------------------------------------------------
(* The EMT's loop: look for work, otherwise run the guest or wait *)

Goto(e, l) == pc' = [pc EXCEPT ![e] = l]

\* What a loop looks at: the EM loop at the flag, vmR3EmulationThread at the lists.
Pending(d) ==
    IF enmVMState = "running" THEN ff[d]
    ELSE \E k \in Kinds : pReqs[d][k] # <<>>

ProcessCall(e, d) ==
    /\ dst' = [dst EXCEPT ![e] = d]
    /\ Goto(e, "clear")

CheckAny(e) ==
    /\ pc[e] \in {"top", "look"}
    /\ IF Pending(ANY) THEN ProcessCall(e, ANY) ELSE Goto(e, "own") /\ UNCHANGED dst
    /\ UNCHANGED <<enmVMState, async, pReqs, ff, reqVars, callVars, fWait, EventSemWait,
                   fPriorityOnly, kind, pReqList, pReq>>

CheckOwn(e) ==
    /\ pc[e] = "own"
    /\ IF Pending(e) THEN ProcessCall(e, e) ELSE Goto(e, "idle") /\ UNCHANGED dst
    /\ UNCHANGED <<enmVMState, async, pReqs, ff, reqVars, callVars, fWait, EventSemWait,
                   fPriorityOnly, kind, pReqList, pReq>>

RunGuest(e) ==
    /\ pc[e] = "idle" /\ enmVMState = "running" /\ ~fPriorityOnly[e]
    /\ Goto(e, "top")
    /\ UNCHANGED <<enmVMState, async, pReqs, ff, reqVars, callVars, fWait, EventSemWait,
                   procVars>>

FFPending(e) == ff[ANY] \/ ff[e]

\* Where a wait returns to: the loop, or the priority processing of the async wait.
WaitReturns(e) ==
    IF fPriorityOnly[e] THEN ProcessCall(e, ANY) ELSE Goto(e, "top") /\ UNCHANGED dst

\* VMR3WaitHalted, VMR3WaitU: a look at the flags before the halt method is called.
WaitCall(e) ==
    /\ pc[e] = "idle"
    /\ IF FFPending(e) THEN WaitReturns(e) ELSE Goto(e, "setwait") /\ UNCHANGED dst
    /\ UNCHANGED <<enmVMState, async, pReqs, ff, reqVars, callVars, fWait, EventSemWait,
                   fPriorityOnly, kind, pReqList, pReq>>

\* The halt method: announce the wait, then look again before every block.
SetWait(e) ==
    /\ pc[e] = "setwait"
    /\ fWait' = [fWait EXCEPT ![e] = TRUE]
    /\ Goto(e, "check")
    /\ UNCHANGED <<enmVMState, async, pReqs, ff, reqVars, callVars, EventSemWait, procVars>>

\* Seeded fault: the flags are not looked at again once the wait is announced.
NoSecondLook(e) == FALSE

\* The look inside the wait loop.
MustStopWaiting(e) == FFPending(e)

WaitCheck(e) ==
    /\ pc[e] = "check"
    /\ Goto(e, IF MustStopWaiting(e) THEN "unwait" ELSE "block")
    /\ UNCHANGED <<enmVMState, async, pReqs, ff, reqVars, callVars, fWait, EventSemWait,
                   procVars>>

\* RTSemEventWait(EventSemWait): an auto-reset event ...
Woken(e) ==
    /\ pc[e] = "block" /\ EventSemWait[e]
    /\ EventSemWait' = [EventSemWait EXCEPT ![e] = FALSE]
    /\ Goto(e, "check")
    /\ UNCHANGED <<enmVMState, async, pReqs, ff, reqVars, callVars, fWait, procVars>>

\* ... or the timeout, one second at most.
WaitTimeout(e) ==
    /\ pc[e] = "block" /\ ~EventSemWait[e]
    /\ Goto(e, "check")
    /\ UNCHANGED <<enmVMState, async, pReqs, ff, reqVars, callVars, fWait, EventSemWait,
                   procVars>>

ClearWait(e) ==
    /\ pc[e] = "unwait"
    /\ fWait' = [fWait EXCEPT ![e] = FALSE]
    /\ WaitReturns(e)
    /\ UNCHANGED <<enmVMState, async, pReqs, ff, reqVars, callVars, EventSemWait,
                   fPriorityOnly, kind, pReqList, pReq>>

-----------------------------------------------------------------------------
(* VMR3ReqProcessU *)

ClearFF(e) ==
    /\ pc[e] = "clear"
    /\ ff' = [ff EXCEPT ![dst[e]] = FALSE]
    /\ Goto(e, "priority")
    /\ UNCHANGED <<enmVMState, async, pReqs, reqVars, callVars, fWait, EventSemWait, procVars>>

NormalKind(e) == IF fPriorityOnly[e] THEN "priority" ELSE "normal"

\* vmR3ReqProcessUTooManyHelper: the oldest request is chopped off.
Chop(list) == [req |-> Last(list), others |-> Front(list)]

\* A list was taken off: a single request is processed (after `single`), of several
\* the oldest, once the others are pushed back.
Took(e, k, list, single) ==
    /\ pReqs' = [pReqs EXCEPT ![dst[e]][k] = <<>>]
    /\ kind' = [kind EXCEPT ![e] = k]
    /\ pReq' = [pReq EXCEPT ![e] = Chop(list).req]
    /\ pReqList' = [pReqList EXCEPT ![e] = Chop(list).others]
    /\ Goto(e, IF Len(list) > 1 THEN "pushback" ELSE single)

TakePriority(e) ==
    /\ pc[e] = "priority"
    /\ LET list == pReqs[dst[e]]["priority"] IN
       IF list # <<>> THEN Took(e, "priority", list, "peek")
       ELSE Goto(e, "normal") /\ UNCHANGED <<pReqs, kind, pReq, pReqList>>
    /\ UNCHANGED <<enmVMState, async, ff, reqVars, callVars, fWait, EventSemWait, dst,
                   fPriorityOnly>>


\* The look at the normal list behind a single priority request.
MoreBehind(e) == pReqs[dst[e]][NormalKind(e)] # <<>>

PeekNormal(e) ==
    /\ pc[e] = "peek"
    /\ Goto(e, IF MoreBehind(e) THEN "setff" ELSE "run")
    /\ UNCHANGED <<enmVMState, async, pReqs, ff, reqVars, callVars, fWait, EventSemWait,
                   procVars>>

\* Where VMR3ReqProcessU returns to.
ProcessReturns(e) ==
    IF fPriorityOnly[e]
    THEN IF dst[e] = ANY THEN ProcessCall(e, e)
         ELSE Goto(e, "async") /\ dst' = [dst EXCEPT ![e] = ANY]
    ELSE /\ Goto(e, IF enmVMState = "suspended" THEN "top"
                    ELSE IF dst[e] = ANY THEN "own" ELSE "idle")
         /\ dst' = [dst EXCEPT ![e] = ANY]

TakeNormal(e) ==
    /\ pc[e] = "normal"
    /\ LET list == pReqs[dst[e]][NormalKind(e)] IN
       IF list # <<>> THEN Took(e, NormalKind(e), list, "run") /\ UNCHANGED dst
       ELSE ProcessReturns(e) /\ UNCHANGED <<pReqs, kind, pReq, pReqList>>
    /\ UNCHANGED <<enmVMState, async, ff, reqVars, callVars, fWait, EventSemWait,
                   fPriorityOnly>>

\* Seeded fault: the flag stays clear when requests are put back.
PushedBackRuns == "run"

\* What follows a successful push-back: vmR3ReqSetFF.
PushedBack == "setff"

\* The others go back if nothing was pushed meanwhile (compare-exchange with NULL),
PushBack(e) ==
    /\ pc[e] = "pushback" /\ pReqs[dst[e]][kind[e]] = <<>>
    /\ pReqs' = [pReqs EXCEPT ![dst[e]][kind[e]] = pReqList[e]]
    /\ pReqList' = [pReqList EXCEPT ![e] = <<>>]
    /\ Goto(e, PushedBack)
    /\ UNCHANGED <<enmVMState, async, ff, reqVars, callVars, fWait, EventSemWait, dst,
                   fPriorityOnly, kind, pReq>>

PushBackRaces(e) ==
    /\ pc[e] = "pushback" /\ pReqs[dst[e]][kind[e]] # <<>>
    /\ Goto(e, "join")
    /\ UNCHANGED <<enmVMState, async, pReqs, ff, reqVars, callVars, fWait, EventSemWait,
                   procVars>>

\* Seeded fault: the newcomers are appended at the old end.
JoinAtEnd(newer, older) == older \o newer

\* Seeded fault: the newcomers replace the list.
JoinDrops(newer, older) == newer

\* The list linked behind the last of the newcomers.
Join(newer, older) == newer \o older

\* otherwise the newcomers are taken off and put in front, and it is tried again.
JoinNewcomers(e) ==
    /\ pc[e] = "join"
    /\ LET newer == pReqs[dst[e]][kind[e]] IN
       pReqList' = [pReqList EXCEPT ![e] = IF newer # <<>> THEN Join(newer, @) ELSE @]
    /\ pReqs' = [pReqs EXCEPT ![dst[e]][kind[e]] = <<>>]
    /\ Goto(e, "pushback")
    /\ UNCHANGED <<enmVMState, async, ff, reqVars, callVars, fWait, EventSemWait, dst,
                   fPriorityOnly, kind, pReq>>

\* vmR3ReqSetFF: nobody is notified, this EMT comes back for the rest itself.
SetFF(e) ==
    /\ pc[e] = "setff"
    /\ ff' = [ff EXCEPT ![dst[e]] = TRUE]
    /\ Goto(e, "run")
    /\ UNCHANGED <<enmVMState, async, pReqs, reqVars, callVars, fWait, EventSemWait, procVars>>

\* vmR3ReqProcessOneU: the call ...
RunRequest(e) ==
    /\ pc[e] = "run"
    /\ enmState' = [enmState EXCEPT ![pReq[e]] = "processing"]
    /\ Goto(e, "complete")
    /\ UNCHANGED <<enmVMState, async, pReqs, ff, idDstCpu, fPriority, fNoWait, iStep, callVars,
                   fWait, EventSemWait, procVars>>

\* ... and its completion.  A packet nobody waits for is freed.  A status from the
\* EM range ends the loop (the async wait asserts that there is none), any other
\* is followed by another turn.
CompleteRequest(e) ==
    /\ pc[e] = "complete"
    /\ enmState' = [enmState EXCEPT ![pReq[e]] = IF fNoWait[pReq[e]] THEN "free" ELSE "completed"]
    /\ pReq' = [pReq EXCEPT ![e] = NIL]
    /\ kind' = [kind EXCEPT ![e] = "normal"]
    /\ \/ Goto(e, "clear") /\ UNCHANGED dst
       \/ ~fPriorityOnly[e] /\ ProcessReturns(e)
    /\ UNCHANGED <<enmVMState, async, pReqs, ff, idDstCpu, fPriority, fNoWait, iStep, callVars,
                   fWait, EventSemWait, fPriorityOnly, pReqList>>

-----------------------------------------------------------------------------
(* EMT 0 in PDMR3Suspend, PDMR3PowerOff or PDMR3Reset: it waits until a device's or
   driver's asynchronous part is done, and processes priority requests only.  These are
   called from a rendezvous, which the loop serves ahead of its requests: having been
   there, it looks at the requests before it can be called again. *)

AsyncBegin ==
    /\ pc[0] = "top" /\ async \in AsyncNotify
    /\ async' = "busy"
    /\ fPriorityOnly' = [fPriorityOnly EXCEPT ![0] = TRUE]
    /\ Goto(0, "async")
    /\ UNCHANGED <<enmVMState, pReqs, ff, reqVars, callVars, fWait, EventSemWait,
                   dst, kind, pReqList, pReq>>

AsyncLoop ==
    /\ pc[0] = "async"
    /\ Goto(0, IF async = "busy" THEN "idle" ELSE "look")
    /\ fPriorityOnly' = [fPriorityOnly EXCEPT ![0] = async = "busy"]
    /\ UNCHANGED <<enmVMState, async, pReqs, ff, reqVars, callVars, fWait, EventSemWait,
                   dst, kind, pReqList, pReq>>

\* External: the device is done, and calls VMR3AsyncPdmNotificationWakeupU.
AsyncDone ==
    /\ async = "busy"
    /\ async' = "done"
    /\ UNCHANGED <<enmVMState, pReqs, ff, reqVars, callVars, emtVars>>

AsyncWakeupFF ==
    /\ async = "done"
    /\ async' = "notify"
    /\ ff' = [ff EXCEPT ![ANY] = TRUE]
    /\ UNCHANGED <<enmVMState, pReqs, reqVars, callVars, emtVars>>

AsyncWakeupNotify ==
    /\ async = "notify"
    /\ async' = "none"
    /\ EventSemWait' = [EventSemWait EXCEPT ![0] = @ \/ fWait[0]]
    /\ UNCHANGED <<enmVMState, pReqs, ff, reqVars, callVars, pc, fWait, procVars>>

-----------------------------------------------------------------------------

RequesterStep(r) == ReqSetFF(r) \/ ReqNotify(r) \/ ReqWaitReturns(r)

LoopStep(e) ==
    \/ CheckAny(e) \/ CheckOwn(e) \/ WaitCall(e) \/ SetWait(e) \/ WaitCheck(e)
    \/ Woken(e) \/ ClearWait(e)

ProcessStep(e) ==
    \/ ClearFF(e) \/ TakePriority(e) \/ PeekNormal(e) \/ TakeNormal(e)
    \/ PushBack(e) \/ PushBackRaces(e) \/ JoinNewcomers(e) \/ SetFF(e)
    \/ RunRequest(e) \/ CompleteRequest(e)

\* The thread that does the asynchronous part.
AsyncPart == AsyncDone \/ AsyncWakeupFF \/ AsyncWakeupNotify
AsyncStep == AsyncLoop \/ AsyncPart

Next ==
    \/ \E r \in Reqs : ReqQueue(r) \/ RequesterStep(r)
    \/ \E e \in Emts : LoopStep(e) \/ ProcessStep(e) \/ RunGuest(e) \/ WaitTimeout(e)
    \/ AsyncBegin \/ AsyncStep

Spec == Init /\ [][Next]_vars

\* Fairness: threads are scheduled and requests end.  No timeout is relied on, and
\* guest code may be run for ever only in turns that come back to the EM loop.
FairSpec ==
    /\ Spec
    /\ \A r \in Reqs : WF_vars(RequesterStep(r))
    /\ \A e \in Emts : WF_vars(LoopStep(e) \/ ProcessStep(e) \/ RunGuest(e))
    /\ WF_vars(AsyncLoop) /\ WF_vars(AsyncPart)

\* The same with the timeouts, which do come.
FairTimeoutSpec == FairSpec /\ \A e \in Emts : WF_vars(WaitTimeout(e))

-----------------------------------------------------------------------------
(* Properties *)

Labels == {"top", "look", "own", "idle", "setwait", "check", "block", "unwait", "clear", "priority", "peek",
           "normal", "pushback", "join", "setff", "run", "complete", "async"}

TypeOK ==
    /\ enmVMState \in VMStates
    /\ async \in {"never", "none", "busy", "done", "notify"}
    /\ pReqs \in [Queues -> [Kinds -> Seq(Reqs)]]
    /\ ff \in [Queues -> BOOLEAN]
    /\ enmState \in [Reqs -> {"free", "queued", "processing", "completed"}]
    /\ idDstCpu \in [Reqs -> Queues]
    /\ fPriority \in [Reqs -> BOOLEAN]
    /\ fNoWait \in [Reqs -> BOOLEAN]
    /\ iStep \in [Reqs -> {-1, 0, 1}]
    /\ rpc \in [Reqs -> {"idle", "setff", "notify", "wait"}]
    /\ iCpu \in [Reqs -> Emts]
    /\ cCalls \in 0 .. MaxCalls
    /\ fWait \in [Emts -> BOOLEAN]
    /\ EventSemWait \in [Emts -> BOOLEAN]
    /\ pc \in [Emts -> Labels]
    /\ dst \in [Emts -> Queues]
    /\ fPriorityOnly \in [Emts -> BOOLEAN]
    /\ kind \in [Emts -> Kinds]
    /\ pReqList \in [Emts -> Seq(Reqs)]
    /\ pReq \in [Emts -> Reqs \cup {NIL}]

\* Occurrences of r in a list.
CountIn(r, list) == Cardinality({i \in DOMAIN list : list[i] = r})

\* A queued request is in exactly one place, and only once: a list, the part an EMT
\* is about to push back, or an EMT's hands; any other request is nowhere.  Two
\* EMTs that fight over the common list neither lose nor duplicate one.
ExactlyOnePlace ==
    \A r \in Reqs :
        LET places == {q \in Queues \X Kinds : CountIn(r, pReqs[q[1]][q[2]]) > 0}
            parts  == {e \in Emts : CountIn(r, pReqList[e]) > 0}
            hands  == {e \in Emts : pReq[e] = r}
        IN  /\ \A q \in places : CountIn(r, pReqs[q[1]][q[2]]) = 1
            /\ \A e \in parts : CountIn(r, pReqList[e]) = 1
            /\ Cardinality(places) + Cardinality(parts) + Cardinality(hands)
               = IF enmState[r] \in {"queued", "processing"} THEN 1 ELSE 0

\* The requests waiting for EMT e in list k, newest first, wherever they are.
Waiting(e, k) ==
    pReqs[e][k] \o (IF dst[e] = e /\ kind[e] = k THEN pReqList[e] ELSE <<>>)

\* Requests for one CPU are started in the order in which they were queued, also when
\* others are pushed while the EMT puts the rest of the list back: a step adds one
\* new request or takes out the oldest.
CpuQueueIsFifo ==
    [][\A e \in Emts, k \in Kinds :
          \/ Waiting(e, k)' = Waiting(e, k)
          \/ \E r \in Reqs : Waiting(e, k)' = <<r>> \o Waiting(e, k)
          \/ \E r \in Reqs : Waiting(e, k) = Append(Waiting(e, k)', r)]_vars

\* Somebody will look at list k of queue d, or set the flag, without being told to.
WillLook(d, k) ==
    \/ \E r \in Reqs : rpc[r] = "setff" /\ idDstCpu[r] = d
    \/ \E e \in Emts : dst[e] = d /\ \/ pc[e] \in {"clear", "priority", "pushback", "join", "setff"}
                                     \/ pc[e] \in {"peek", "normal"} /\ NormalKind(e) = k

\* A request on a list is never forgotten: the flag is set, or about to be, or an EMT
\* that cleared it has still to look.  This holds until priority requests are first
\* processed alone, which clears the flag over the head of normal ones.
NothingStranded ==
    \A d \in Queues, k \in Kinds :
        pReqs[d][k] # <<>> => ff[d] \/ WillLook(d, k) \/ (k = "normal" /\ async # "never")

Blocked(e) == pc[e] = "block" /\ ~EventSemWait[e]

\* No EMT sleeps through a flag: while one that concerns it is set, its notification
\* is still on the way or, for the common queue, another EMT is up.
NoLostWakeup ==
    \A e \in Emts : Blocked(e) =>
        /\ ff[e] => \E r \in Reqs : rpc[r] = "notify" /\ idDstCpu[r] = e
        /\ ff[ANY] => \/ \E r \in Reqs : rpc[r] = "notify" /\ idDstCpu[r] = ANY /\ iCpu[r] <= e
                      \/ async = "notify"
                      \/ \E f \in Emts : ~Blocked(f)

\* Every queued request is completed (or freed, when nobody waits), one to all CPUs by
\* the last of them, with no help from the one-second timeouts.
RequestsComplete ==
    \A r \in Reqs :
        enmState[r] = "queued"
        ~> /\ enmState[r] \in {"completed", "free"}
           /\ iStep[r] # 0 => idDstCpu[r] = IF iStep[r] = 1 THEN cCpus - 1 ELSE 0

\* The PDM notification that EMT 0 waits for is noticed.
AsyncWaitEnds == fPriorityOnly[0] ~> ~fPriorityOnly[0]
=============================================================================
