---------------------------- MODULE VMReqPacket -----------------------------
(***************************************************************************)
(* Request packets (VMReq.cpp): how requesters allocate a packet from the  *)
(* free lists, which are kept without locks, wait on its event semaphore   *)
(* and free it, while the EMT completes it and signals, or frees it when   *)
(* nobody waits.  How a queued packet gets to the EMT is the subject of    *)
(* VMReqQueue; here the EMT takes any queued one.                          *)
(*                                                                         *)
(* Which of the free lists is used depends on a counter that every call    *)
(* increments; any list may be the one.  So the tries of an allocation are *)
(* used up whenever the last one finds a list empty.  Chains of more than  *)
(* 25 packets, which vmr3ReqJoinFree splits, are beyond the bounds.        *)
(*                                                                         *)
(* The EMT looks at a packet after it has completed it, when a timed wait  *)
(* may have ended and the packet may have been freed and taken by someone  *)
(* else (raced); it may then take the flags of that request for those of   *)
(* its own and free the packet under its owner (misread).  Nothing is      *)
(* claimed from there on: two threads own one packet.                      *)
(***************************************************************************)
EXTENDS Integers, FiniteSets, Sequences

CONSTANTS
    Requesters,
    Kinds,       \* per requester: "NO_WAIT", "timed" or "forever", the ways it calls
    Packets,     \* packets the heap has room for
    Recycled,    \* the chain of those that are free at first, on the first list
    cLists,      \* size of apReqFree
    cMaxFree,    \* 128 in the code: packets beyond go back to the heap
    MaxCalls,    \* per requester: bound on its requests
    EMT, NIL

Lists == 1 .. cLists
Actors == Requesters \cup {EMT}

ASSUME KindsAssumption == Kinds \in [Requesters -> SUBSET {"NO_WAIT", "timed", "forever"}]
ASSUME ListsAssumption == cLists \in Nat \ {0} /\ cMaxFree \in Nat
ASSUME NamesAssumption == EMT \notin Requesters /\ NIL \notin Packets
ASSUME RecycledAssumption ==
    /\ Recycled \in Seq(Packets) /\ \A m, n \in DOMAIN Recycled : Recycled[m] = Recycled[n] => m = n
    /\ Len(Recycled) <= cMaxFree
ASSUME FiniteAssumption ==
    /\ IsFiniteSet(Requesters)
    /\ IsFiniteSet(Packets) /\ Cardinality(Packets) <= 25

VARIABLES
    apReqFree,        \* heads of the free lists
    cReqFree,
    pNext, enmState, noWait,
    fEventSemClear,
    sem,              \* packets whose EventSem is signalled
    pc,               \* actor: next instruction
    req,              \* actor: its packet
    kind,             \* requester: how it calls
    rc,               \* requester: whether the semaphore was taken
    list,             \* actor: the list it works on
    pRest, pHead,     \* requester: the chain it gives back, and the one it found there
    pOld,             \* actor: the head it has read
    cCalls,
    raced,            \* history: a timed wait has ended between completion and signal
    misread           \* history: the EMT has read NO_WAIT in a later request's packet

shared == <<apReqFree, cReqFree, pNext, enmState, noWait, fEventSemClear, sem>>
local == <<req, kind, rc, list, pRest, pHead, pOld, cCalls>>
history == <<raced, misread>>
vars == <<shared, pc, local, history>>

Go(a, label) == pc' = [pc EXCEPT ![a] = label]
Set(p, s) == enmState' = [enmState EXCEPT ![p] = s]
SetHead(i, p) == apReqFree' = [apReqFree EXCEPT ![i] = p]

\* The call is over, and with it what the actor remembers.
Done(a) ==
    /\ Go(a, "idle")
    /\ req' = [req EXCEPT ![a] = NIL]
    /\ list' = [list EXCEPT ![a] = 1]
    /\ pOld' = [pOld EXCEPT ![a] = NIL]
    /\ kind' = [kind EXCEPT ![a] = "forever"]

\* The packets from p on, along next: the least set with p that next does not leave.
Reachable(next, p) ==
    {q \in Packets : p # NIL /\ \A S \in SUBSET Packets :
                        p \in S /\ (\A x \in S : next[x] \in S \cup {NIL}) => q \in S}
Chain(p) == Reachable(pNext, p)
TailOf(p) == CHOOSE q \in Chain(p) : pNext[q] = NIL

Init ==
    /\ apReqFree = [i \in Lists |-> IF i = 1 /\ Recycled # <<>> THEN Recycled[1] ELSE NIL]
    /\ pNext = [p \in Packets |->
          IF \E n \in 1 .. Len(Recycled) - 1 : Recycled[n] = p
          THEN Recycled[1 + CHOOSE n \in DOMAIN Recycled : Recycled[n] = p]
          ELSE NIL]
    /\ cReqFree = Len(Recycled)
    /\ enmState = [p \in Packets |-> IF \E n \in DOMAIN Recycled : Recycled[n] = p THEN "FREE" ELSE "INVALID"]
    /\ noWait = [p \in Packets |-> FALSE]
    /\ fEventSemClear = [p \in Packets |-> TRUE]
    /\ sem = {}
    /\ pc = [a \in Actors |-> "idle"]
    /\ req = [a \in Actors |-> NIL]
    /\ kind = [a \in Actors |-> "forever"]
    /\ rc = [r \in Requesters |-> FALSE]
    /\ list = [a \in Actors |-> 1]
    /\ pRest = [r \in Requesters |-> NIL]
    /\ pHead = [r \in Requesters |-> NIL]
    /\ pOld = [a \in Actors |-> NIL]
    /\ cCalls = [r \in Requesters |-> 0]
    /\ raced = FALSE /\ misread = FALSE

-----------------------------------------------------------------------------
(* VMR3ReqAllocU *)

\* Take all of a list.
TakeList(r) ==
    /\ pc[r] = "idle" /\ cCalls[r] < MaxCalls[r]
    /\ cCalls' = [cCalls EXCEPT ![r] = @ + 1]
    /\ \E k \in Kinds[r] : kind' = [kind EXCEPT ![r] = k]
    /\ \E i \in Lists :
          /\ apReqFree[i] # NIL
          /\ SetHead(i, NIL)
          /\ req' = [req EXCEPT ![r] = apReqFree[i]]
          /\ list' = [list EXCEPT ![r] = i]
    /\ Go(r, "giveBack")
    /\ UNCHANGED <<cReqFree, pNext, enmState, noWait, fEventSemClear, sem, rc, pRest, pHead, pOld, history>>

ListStillEmpty(i) == apReqFree[i] = NIL

GoDrain(r) == Go(r, "drain") /\ list' = [list EXCEPT ![r] = 1]

\* vmr3ReqJoinFree: give the chain to some list.
JoinFree(r, p) ==
    /\ pRest' = [pRest EXCEPT ![r] = p]
    /\ \E i \in Lists : list' = [list EXCEPT ![r] = i]
    /\ Go(r, "joinXchg")

\* Put the rest of the list back if that is still empty.
GiveBack(r) ==
    /\ pc[r] = "giveBack"
    /\ LET p == pNext[req[r]] IN
       \/ /\ p = NIL
          /\ GoDrain(r)
          /\ UNCHANGED <<apReqFree, pRest>>
       \/ /\ p # NIL /\ ListStillEmpty(list[r])
          /\ SetHead(list[r], p)
          /\ GoDrain(r)
          /\ UNCHANGED pRest
       \/ /\ p # NIL /\ ~ListStillEmpty(list[r])
          /\ JoinFree(r, p)
          /\ UNCHANGED apReqFree
    /\ UNCHANGED <<cReqFree, pNext, enmState, noWait, fEventSemClear, sem, req, kind, rc, pHead, pOld, cCalls, history>>

Joined(r) ==
    /\ GoDrain(r)
    /\ pOld' = [pOld EXCEPT ![r] = NIL]
    /\ pRest' = [pRest EXCEPT ![r] = NIL]
    /\ pHead' = [pHead EXCEPT ![r] = NIL]

\* vmr3ReqJoinFreeSub: exchange the chains,
JoinXchg(r) ==
    /\ pc[r] = "joinXchg"
    /\ SetHead(list[r], pRest[r])
    /\ IF apReqFree[list[r]] = NIL THEN Joined(r)
       ELSE /\ pHead' = [pHead EXCEPT ![r] = apReqFree[list[r]]]
            /\ Go(r, "joinLink")
            /\ UNCHANGED <<pRest, list, pOld>>
    /\ UNCHANGED <<cReqFree, pNext, enmState, noWait, fEventSemClear, sem, req, kind, rc, cCalls, history>>

\* append the one to the other (the loop to its tail does not end if that has none),
JoinLink(r) ==
    /\ pc[r] = "joinLink"
    /\ \E p \in Chain(pHead[r]) : pNext[p] = NIL
    /\ pOld' = [pOld EXCEPT ![r] = TailOf(pHead[r])]
    /\ pNext' = [pNext EXCEPT ![TailOf(pHead[r])] = pRest[r]]
    /\ Go(r, "joinStore")
    /\ UNCHANGED <<apReqFree, cReqFree, enmState, noWait, fEventSemClear, sem, req, kind, rc, list, pRest, pHead, cCalls, history>>

\* store them if the list is as it was left,
JoinStore(r) ==
    /\ pc[r] = "joinStore"
    /\ IF apReqFree[list[r]] = pRest[r]
       THEN SetHead(list[r], pHead[r]) /\ Joined(r)
       ELSE Go(r, "joinUnlink") /\ UNCHANGED <<apReqFree, pRest, pHead, list, pOld>>
    /\ UNCHANGED <<cReqFree, pNext, enmState, noWait, fEventSemClear, sem, req, kind, rc, cCalls, history>>

\* Seeded fault: the chain keeps its link to packets somebody else has taken.
LinkKept(r) == UNCHANGED pNext
LinkUndone(r) == pNext' = [pNext EXCEPT ![pOld[r]] = NIL]

\* or undo that,
JoinUnlink(r) ==
    /\ pc[r] = "joinUnlink"
    /\ LinkUndone(r)
    /\ Go(r, "joinRetry")
    /\ UNCHANGED <<apReqFree, cReqFree, enmState, noWait, fEventSemClear, sem, local, history>>

\* store what was found, or go round with it.
JoinRetry(r) ==
    /\ pc[r] = "joinRetry"
    /\ IF apReqFree[list[r]] = NIL
       THEN SetHead(list[r], pHead[r]) /\ Joined(r)
       ELSE /\ pRest' = [pRest EXCEPT ![r] = pHead[r]]
            /\ Go(r, "joinXchg")
            /\ UNCHANGED <<apReqFree, pHead, list, pOld>>
    /\ UNCHANGED <<cReqFree, pNext, enmState, noWait, fEventSemClear, sem, req, kind, rc, cCalls, history>>

CountOneLess == cReqFree - 1

\* "Make sure the event sem is not signaled."
Drain(r) ==
    /\ pc[r] = "drain"
    /\ cReqFree' = CountOneLess
    /\ sem' = IF fEventSemClear[req[r]] THEN sem ELSE sem \ {req[r]}
    /\ Go(r, IF fEventSemClear[req[r]] THEN "init" ELSE "drained")
    /\ UNCHANGED <<apReqFree, pNext, enmState, noWait, fEventSemClear, local, history>>

Drained(r) ==
    /\ pc[r] = "drained"
    /\ fEventSemClear' = [fEventSemClear EXCEPT ![req[r]] = TRUE]
    /\ Go(r, "init")
    /\ UNCHANGED <<apReqFree, cReqFree, pNext, enmState, noWait, sem, local, history>>

\* "Initialize the packet and return it."
InitPacket(r) ==
    /\ pc[r] = "init"
    /\ pNext' = [pNext EXCEPT ![req[r]] = NIL]
    /\ Set(req[r], "ALLOCATED")
    /\ noWait' = [noWait EXCEPT ![req[r]] = FALSE]
    /\ Go(r, "fill")
    /\ UNCHANGED <<apReqFree, cReqFree, fEventSemClear, sem, local, history>>

\* "Ok allocate one."  The last try has found a list empty.
AllocNew(r) ==
    /\ pc[r] = "idle" /\ cCalls[r] < MaxCalls[r]
    /\ \E i \in Lists : apReqFree[i] = NIL
    /\ cCalls' = [cCalls EXCEPT ![r] = @ + 1]
    /\ \E k \in Kinds[r] : kind' = [kind EXCEPT ![r] = k]
    /\ \E p \in Packets :
          /\ enmState[p] = "INVALID"
          /\ req' = [req EXCEPT ![r] = p]
          /\ Set(p, "ALLOCATED")
          /\ pNext' = [pNext EXCEPT ![p] = NIL]
          /\ noWait' = [noWait EXCEPT ![p] = FALSE]
          /\ fEventSemClear' = [fEventSemClear EXCEPT ![p] = TRUE]
          /\ sem' = sem \ {p}
    /\ Go(r, "fill")
    /\ UNCHANGED <<apReqFree, cReqFree, rc, list, pRest, pHead, pOld, history>>

-----------------------------------------------------------------------------
(* VMR3ReqCallVU, VMR3ReqQueue and VMR3ReqWait *)

\* "Initialize the request data."
Fill(r) ==
    /\ pc[r] = "fill"
    /\ noWait' = [noWait EXCEPT ![req[r]] = kind[r] = "NO_WAIT"]
    /\ Go(r, "queue")
    /\ UNCHANGED <<apReqFree, cReqFree, pNext, enmState, fEventSemClear, sem, local, history>>

\* A packet that is no longer allocated is refused, and the caller frees it.
Queue(r) ==
    /\ pc[r] = "queue"
    /\ \/ /\ enmState[req[r]] = "ALLOCATED"
          /\ Set(req[r], "QUEUED")
          /\ IF kind[r] = "NO_WAIT"
             THEN Done(r)
             ELSE Go(r, "wait") /\ UNCHANGED <<req, list, pOld, kind>>
       \/ /\ enmState[req[r]] # "ALLOCATED"
          /\ Go(r, "free")
          /\ UNCHANGED <<enmState, req, list, pOld, kind>>
    /\ UNCHANGED <<apReqFree, cReqFree, pNext, noWait, fEventSemClear, sem, rc, pRest, pHead, cCalls, history>>

Wait(r) ==
    /\ pc[r] = "wait" /\ req[r] \in sem
    /\ sem' = sem \ {req[r]}
    /\ rc' = [rc EXCEPT ![r] = TRUE]
    /\ Go(r, IF kind[r] = "forever" THEN "loop" ELSE "waited")
    /\ UNCHANGED <<apReqFree, cReqFree, pNext, enmState, noWait, fEventSemClear, req, kind, list, pRest, pHead, pOld, cCalls, history>>

\* Seeded fault: any wait may end without the semaphore.
MayAlwaysTimeOut(r) == TRUE
MayTimeOut(r) == kind[r] = "timed"

Timeout(r) ==
    /\ pc[r] = "wait" /\ req[r] \notin sem /\ MayTimeOut(r)
    /\ rc' = [rc EXCEPT ![r] = FALSE]
    /\ Go(r, "waited")
    /\ UNCHANGED <<shared, req, kind, list, pRest, pHead, pOld, cCalls, history>>

\* Seeded fault: the semaphore alone counts.
MayStopWaitingNow(r) == TRUE
MayStopWaiting(r) == enmState[req[r]] \in {"COMPLETED", "INVALID"}

\* Only a wait without a limit looks whether it was woken for a reason.
Loop(r) ==
    /\ pc[r] = "loop"
    /\ Go(r, IF MayStopWaiting(r) THEN "waited" ELSE "wait")
    /\ UNCHANGED <<shared, local, history>>

Waited(r) ==
    /\ pc[r] = "waited"
    /\ fEventSemClear' = IF rc[r] THEN [fEventSemClear EXCEPT ![req[r]] = TRUE] ELSE fEventSemClear
    /\ Go(r, "result")
    /\ UNCHANGED <<apReqFree, cReqFree, pNext, enmState, noWait, sem, local, history>>

\* The EMT has completed the request and has still to signal it.
EmtOwesSignal(p) ==
    /\ req[EMT] = p
    /\ pc[EMT] \in {"unclear", "signal"} \/ (pc[EMT] = "readFlags" /\ ~noWait[p])

\* Successful, and the caller frees the packet; or VERR_TIMEOUT, and it waits again.
Result(r) ==
    /\ pc[r] = "result"
    /\ \/ /\ enmState[req[r]] = "COMPLETED" \/ rc[r]
          /\ Go(r, "free")
          /\ raced' = (raced \/ (kind[r] = "timed" /\ EmtOwesSignal(req[r])))
          /\ UNCHANGED kind
       \/ /\ enmState[req[r]] # "COMPLETED" /\ ~rc[r]
          /\ Go(r, "wait")
          /\ kind' = [kind EXCEPT ![r] = "forever"]
          /\ UNCHANGED raced
    /\ rc' = [rc EXCEPT ![r] = FALSE]
    /\ UNCHANGED <<shared, req, list, pRest, pHead, pOld, cCalls, misread>>

-----------------------------------------------------------------------------
(* VMR3ReqFree, by a requester or by the EMT *)

Free(a) ==
    /\ pc[a] = "free"
    /\ IF enmState[req[a]] \in {"ALLOCATED", "COMPLETED"}
       THEN /\ Set(req[a], "FREE")
            /\ Go(a, "freeLook")
            /\ UNCHANGED <<req, list, pOld, kind>>
       ELSE Done(a) /\ UNCHANGED enmState
    /\ UNCHANGED <<apReqFree, cReqFree, pNext, noWait, fEventSemClear, sem, rc, pRest, pHead, cCalls, history>>

\* A packet that is one too many is destroyed with its semaphore.
FreeLook(a) ==
    /\ pc[a] = "freeLook"
    /\ IF cReqFree < cMaxFree
       THEN Go(a, "freeCount") /\ UNCHANGED <<enmState, sem, req, list, pOld, kind>>
       ELSE /\ Set(req[a], "INVALID")
            /\ sem' = sem \ {req[a]}
            /\ Done(a)
    /\ UNCHANGED <<apReqFree, cReqFree, pNext, noWait, fEventSemClear, rc, pRest, pHead, cCalls, history>>

\* Seeded fault: a packet is recycled without being counted.
CountSame == cReqFree
CountOneMore == cReqFree + 1

FreeCount(a) ==
    /\ pc[a] = "freeCount"
    /\ cReqFree' = CountOneMore
    /\ \E i \in Lists : list' = [list EXCEPT ![a] = i]
    /\ Go(a, "freeRead")
    /\ UNCHANGED <<apReqFree, pNext, enmState, noWait, fEventSemClear, sem, req, kind, rc, pRest, pHead, pOld, cCalls, history>>

FreeRead(a) ==
    /\ pc[a] = "freeRead"
    /\ pOld' = [pOld EXCEPT ![a] = apReqFree[list[a]]]
    /\ pNext' = [pNext EXCEPT ![req[a]] = apReqFree[list[a]]]
    /\ Go(a, "freePush")
    /\ UNCHANGED <<apReqFree, cReqFree, enmState, noWait, fEventSemClear, sem, req, kind, rc, list, pRest, pHead, cCalls, history>>

HeadIsOld(a) == apReqFree[list[a]] = pOld[a]
\* Seeded fault: the head is not read again.
PushAgain == "freePush"
ReadAgain == "freeRead"

FreePush(a) ==
    /\ pc[a] = "freePush"
    /\ IF HeadIsOld(a)
       THEN SetHead(list[a], req[a]) /\ Done(a)
       ELSE Go(a, ReadAgain) /\ UNCHANGED <<apReqFree, req, list, pOld, kind>>
    /\ UNCHANGED <<cReqFree, pNext, enmState, noWait, fEventSemClear, sem, rc, pRest, pHead, cCalls, history>>

-----------------------------------------------------------------------------
(* The EMT: vmR3ReqProcessOneU *)

Process ==
    /\ pc[EMT] = "idle"
    /\ \E p \in Packets :
          /\ enmState[p] = "QUEUED"
          /\ Set(p, "PROCESSING")
          /\ req' = [req EXCEPT ![EMT] = p]
    /\ Go(EMT, "complete")
    /\ UNCHANGED <<apReqFree, cReqFree, pNext, noWait, fEventSemClear, sem, kind, rc, list, pRest, pHead, pOld, cCalls, history>>

Complete ==
    /\ pc[EMT] = "complete"
    /\ Set(req[EMT], "COMPLETED")
    /\ Go(EMT, "readFlags")
    /\ UNCHANGED <<apReqFree, cReqFree, pNext, noWait, fEventSemClear, sem, local, history>>

\* "Free the packet, nobody is waiting", or signal the thread that is waiting.
ReadFlags ==
    /\ pc[EMT] = "readFlags"
    /\ Go(EMT, IF noWait[req[EMT]] THEN "free" ELSE "unclear")
    /\ misread' = (misread \/ (noWait[req[EMT]] /\ enmState[req[EMT]] # "COMPLETED"))
    /\ UNCHANGED <<shared, local, raced>>

Unclear ==
    /\ pc[EMT] = "unclear"
    /\ fEventSemClear' = [fEventSemClear EXCEPT ![req[EMT]] = FALSE]
    /\ Go(EMT, "signal")
    /\ UNCHANGED <<apReqFree, cReqFree, pNext, enmState, noWait, sem, local, history>>

Signal ==
    /\ pc[EMT] = "signal"
    /\ sem' = sem \cup {req[EMT]}
    /\ Done(EMT)
    /\ UNCHANGED <<apReqFree, cReqFree, pNext, enmState, noWait, fEventSemClear, rc, pRest, pHead, cCalls, history>>

-----------------------------------------------------------------------------
FreeStep(a) == Free(a) \/ FreeLook(a) \/ FreeCount(a) \/ FreeRead(a) \/ FreePush(a)
AllocStep(r) ==
    \/ GiveBack(r) \/ JoinXchg(r) \/ JoinLink(r) \/ JoinStore(r)
    \/ JoinUnlink(r) \/ JoinRetry(r) \/ Drain(r) \/ Drained(r) \/ InitPacket(r)
WaitStep(r) == Fill(r) \/ Queue(r) \/ Wait(r) \/ Loop(r) \/ Waited(r) \/ Result(r)
RequesterStep(r) == AllocStep(r) \/ WaitStep(r) \/ FreeStep(r)
EmtStep == Process \/ Complete \/ ReadFlags \/ Unclear \/ Signal \/ FreeStep(EMT)

Next ==
    \/ EmtStep
    \/ \E r \in Requesters : RequesterStep(r) \/ TakeList(r) \/ AllocNew(r) \/ Timeout(r)

Spec == Init /\ [][Next]_vars

\* Every thread goes on with what it has begun; no wait need end by its timeout.
FairSpec == Spec /\ WF_vars(EmtStep) /\ \A r \in Requesters : WF_vars(RequesterStep(r))

-----------------------------------------------------------------------------
(* Properties *)

TypeOK ==
    /\ apReqFree \in [Lists -> Packets \cup {NIL}]
    /\ cReqFree \in Int /\ (cReqFree < 0 => misread)
    /\ pNext \in [Packets -> Packets \cup {NIL}]
    /\ enmState \in [Packets -> {"INVALID", "ALLOCATED", "QUEUED", "PROCESSING", "COMPLETED", "FREE"}]
    /\ noWait \in [Packets -> BOOLEAN] /\ fEventSemClear \in [Packets -> BOOLEAN]
    /\ sem \subseteq Packets
    /\ req \in [Actors -> Packets \cup {NIL}]
    /\ \A a \in Actors : pc[a] # "idle" => req[a] # NIL
    /\ list \in [Actors -> Lists]
    /\ pRest \in [Requesters -> Packets \cup {NIL}] /\ pHead \in [Requesters -> Packets \cup {NIL}]

\* The chains of free packets end, have no packet in common, and hold free packets only,
\* whatever allocations take off, give back and join, and whoever pushes meanwhile.
FreeListsSound ==
    \A i \in Lists : LET c == Chain(apReqFree[i]) IN
        /\ c # {} => \E p \in c : pNext[p] = NIL
        /\ \A p \in c : enmState[p] = "FREE"
        /\ \A j \in Lists \ {i} : c \cap Chain(apReqFree[j]) = {}

\* VMR3ReqAlloc never hands out a packet that somebody else has, and that is still free
\* for others: who has one has it alone, but for the EMT that completes it.
OneHolder ==
    \A r \in Requesters : req[r] # NIL =>
        /\ \A i \in Lists : req[r] \notin Chain(apReqFree[i])
        /\ \A q \in Requesters \ {r} : req[q] # req[r]
        /\ pc[EMT] \in {"free", "freeLook", "freeCount", "freeRead", "freePush"} => req[EMT] # req[r]

\* No free packet gets lost: it is on a list, or somebody is about to put it on one.
NoneLost ==
    \A p \in Packets : enmState[p] = "FREE" =>
        \/ \E i \in Lists : p \in Chain(apReqFree[i])
        \/ \E a \in Actors : req[a] = p
        \/ \E r \in Requesters :
              \/ pc[r] = "giveBack" /\ p \in Chain(req[r])
              \/ pc[r] = "joinXchg" /\ p \in Chain(pRest[r])
              \/ pc[r] \in {"joinLink", "joinStore", "joinUnlink", "joinRetry"} /\ p \in Chain(pHead[r])

\* cReqFree, which limits how many packets are kept, counts the free ones but for those
\* that VMR3ReqFree has not counted yet and those just taken by VMR3ReqAlloc.
FreeAreCounted ==
    cReqFree = Cardinality({p \in Packets : enmState[p] = "FREE"})
                 - Cardinality({a \in Actors : pc[a] \in {"freeLook", "freeCount", "drained", "init"}})

\* Every packet is accounted for, in the lock-free lists as well as in the count, unless
\* the EMT has freed a packet under its owner, misled by its flags; and that takes a timed
\* wait that ends between the completion of a request and its signal.
PacketsAccounted ==
    /\ misread => raced
    /\ misread \/ (FreeListsSound /\ OneHolder /\ NoneLost /\ FreeAreCounted)

\* The EMT signals a packet that its requester still waits on, unless a timed wait has
\* ended between the completion and the signal, and the packet was freed under the EMT.
SignalFindsWaiter ==
    \A p \in Packets : EmtOwesSignal(p) =>
        raced \/ \E r \in Requesters : req[r] = p /\ pc[r] \in {"wait", "loop", "waited", "result"}

\* VMR3ReqWait succeeds only for a completed request; after such a race that is true
\* only of waits without a limit, and only while each packet has one owner.
WaitTruthful ==
    \A r \in Requesters : pc[r] = "free" =>
        enmState[req[r]] = "COMPLETED" \/ (raced /\ kind[r] = "timed") \/ misread

\* Every request that is begun comes to its end: no wait misses the signal because of a
\* stale one, a drained semaphore or a reused packet, and no thread loops on the lists,
\* as long as each packet has one owner.
RequestsEnd ==
    \A r \in Requesters : pc[r] # "idle" ~> pc[r] = "idle" \/ misread
=============================================================================
