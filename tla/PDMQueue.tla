------------------------------ MODULE PDMQueue ------------------------------
(***************************************************************************)
(* A PDM queue: how devices and drivers, on any thread and in any context  *)
(* (ring-3, ring-0, raw-mode), hand items to a consumer that runs on an    *)
(* EMT.  PDMQueueAlloc takes an item from a ring of free items without a   *)
(* lock, PDMQueueInsert pushes it on a LIFO list of its context and asks   *)
(* for a flush, PDMR3QueueFlushAll lets one EMT at a time flush.           *)
(*                                                                         *)
(* A pending list is a sequence, newest first; a push and an exchange are  *)
(* one step.  The consumer is external: it takes an item, or refuses it    *)
(* ("enough!").  The wake-up of a sleeping EMT is the subject of           *)
(* VMReqQueue; here the EMTs poll VM_FF_PDM_QUEUES as the EM loop does.    *)
(* Destruction and relocation of queues are left out.                      *)
(***************************************************************************)
EXTENDS Integers, Sequences, FiniteSets, SequencesExt

CONSTANTS
    Emts,         \* emulation threads that flush
    Producers,    \* threads that allocate and insert
    Contexts,     \* contexts that the producers run in
    cItems,       \* number of items of the queue
    Slack,        \* PDMQUEUE_FREE_SLACK
    MaxAllocs,    \* bound on the number of allocations
    MaxRefusals,  \* bound on how often the consumer says "enough!"
    NIL

ASSUME ContextsAssumption == Contexts \subseteq {"R3", "RC", "R0"}
ASSUME SizeAssumption == cItems \in Nat \ {0} /\ Slack \in Nat \ {0}
ASSUME BoundsAssumption == MaxAllocs \in Nat /\ MaxRefusals \in Nat
ASSUME FiniteAssumption == IsFiniteSet(Producers)

Items == 1 .. cItems
AllContexts == {"R3", "RC", "R0"}
Ring == cItems + Slack
Slots == 0 .. Ring - 1
ASSUME NilAssumption == NIL \notin Items

VARIABLES
    fTimer,          \* cMilliesInterval: driven by a timer, not by the forced action
    aFreeItems, iFreeHead, iFreeTail,  \* the ring of free items
    pPending,        \* per context: the LIFO list of inserted items
    ff,              \* VM_FF_PDM_QUEUES
    fActive, fPending, \* fQueueFlushing: PDM_QUEUE_FLUSH_FLAG_{ACTIVE,PENDING}_BIT
    ppc,             \* producer: next instruction
    iTail, pNew,     \* producer: iFreeTail as read, and the item found there
    pc,              \* EMT: next instruction
    pItems,          \* EMT: the list being flushed
    iHead,           \* EMT: iFreeHead as read by pdmR3QueueFree
    cAllocs, cRefusals, \* the bounds
    inserted         \* history: items not consumed yet, in the order of their insertion

ringVars == <<fTimer, aFreeItems, iFreeHead, iFreeTail>>
flagVars == <<ff, fActive, fPending>>
prodVars == <<ppc, iTail, pNew, cAllocs>>
emtVars  == <<pc, pItems, iHead, cRefusals>>
vars == <<ringVars, pPending, flagVars, prodVars, emtVars, inserted>>

\* pdmR3QueueCreate.  (TMCLOCK_REAL timers are run by one EMT.)
Init ==
    /\ fTimer \in BOOLEAN /\ (fTimer => \A e, f \in Emts : e = f)
    /\ aFreeItems = [i \in Slots |-> IF i < cItems THEN i + 1 ELSE NIL]
    /\ iFreeHead = cItems
    /\ iFreeTail = 0
    /\ pPending = [c \in AllContexts |-> <<>>]
    /\ ff = FALSE /\ fActive = FALSE /\ fPending = FALSE
    /\ ppc = [p \in Producers |-> "idle"]
    /\ iTail = [p \in Producers |-> 0]
    /\ pNew = [p \in Producers |-> NIL]
    /\ pc = [e \in Emts |-> "idle"]
    /\ pItems = [e \in Emts |-> <<>>]
    /\ iHead = [e \in Emts |-> 0]
    /\ cAllocs = 0 /\ cRefusals = 0
    /\ inserted = [c \in AllContexts |-> <<>>]

-----------------------------------------------------------------------------
(* PDMQueueAlloc *)

\* Seeded fault: the ring is taken to have no slack.
NextSlotNoSlack(i) == (i + 1) % cItems

NextSlot(i) == (i + 1) % Ring

\* Seeded fault: the ring is never found empty.
NeverExhausted == FALSE

\* The ring has run empty: NULL is returned.
Exhausted == iFreeTail = iFreeHead

\* The reads of one turn of the loop: the tail, and the item found there.
AllocRead(p) ==
    /\ ppc[p] \in {"idle", "retry"}
    /\ ppc[p] = "idle" => cAllocs < MaxAllocs
    /\ cAllocs' = IF ppc[p] = "idle" THEN cAllocs + 1 ELSE cAllocs
    /\ IF Exhausted
       THEN ppc' = [ppc EXCEPT ![p] = "idle"] /\ UNCHANGED <<iTail, pNew>>
       ELSE /\ iTail' = [iTail EXCEPT ![p] = iFreeTail]
            /\ pNew' = [pNew EXCEPT ![p] = aFreeItems[iFreeTail]]
            /\ ppc' = [ppc EXCEPT ![p] = "cas"]
    /\ UNCHANGED <<ringVars, pPending, flagVars, emtVars, inserted>>

\* The compare-exchange of the tail, which may fail.
AllocTake(p) ==
    /\ ppc[p] = "cas" /\ iFreeTail = iTail[p]
    /\ iFreeTail' = NextSlot(iTail[p])
    /\ ppc' = [ppc EXCEPT ![p] = "push"]
    /\ UNCHANGED <<fTimer, aFreeItems, iFreeHead, pPending, flagVars, iTail, pNew, cAllocs,
                   emtVars, inserted>>

AllocRetry(p) ==
    /\ ppc[p] = "cas" /\ iFreeTail # iTail[p]
    /\ ppc' = [ppc EXCEPT ![p] = "retry"]
    /\ UNCHANGED <<ringVars, pPending, flagVars, iTail, pNew, cAllocs, emtVars, inserted>>

-----------------------------------------------------------------------------
(* PDMQueueInsert *)

\* The push on the list of the context that the producer runs in.  That is all for a
\* queue with a timer.
InsertPush(p) ==
    /\ ppc[p] = "push"
    /\ \E c \in Contexts :
          /\ pPending' = [pPending EXCEPT ![c] = <<pNew[p]>> \o @]
          /\ inserted' = [inserted EXCEPT ![c] = Append(@, pNew[p])]
    /\ pNew' = [pNew EXCEPT ![p] = NIL]
    /\ ppc' = [ppc EXCEPT ![p] = IF fTimer THEN "idle" ELSE "setff"]
    /\ UNCHANGED <<ringVars, flagVars, iTail, cAllocs, emtVars>>

InsertSetFF(p) ==
    /\ ppc[p] = "setff"
    /\ ff' = TRUE
    /\ ppc' = [ppc EXCEPT ![p] = "setpending"]
    /\ UNCHANGED <<ringVars, pPending, fActive, fPending, iTail, pNew, cAllocs, emtVars, inserted>>

InsertSetPending(p) ==
    /\ ppc[p] = "setpending"
    /\ fPending' = TRUE
    /\ ppc' = [ppc EXCEPT ![p] = "idle"]
    /\ UNCHANGED <<ringVars, pPending, ff, fActive, iTail, pNew, cAllocs, emtVars, inserted>>

-----------------------------------------------------------------------------
(* PDMR3QueueFlushAll *)

Goto(e, l) == pc' = [pc EXCEPT ![e] = l]

\* The EM loop finds VM_FF_PDM_QUEUES set and calls PDMR3QueueFlushAll.
ForcedAction(e) ==
    /\ pc[e] = "idle" /\ ff
    /\ Goto(e, "clearff")
    /\ UNCHANGED <<ringVars, pPending, flagVars, prodVars, pItems, iHead, cRefusals, inserted>>

\* pdmR3QueueTimer: the queue's timer fires, and is set again when all is done.
TimerFires(e) ==
    /\ fTimer /\ pc[e] = "idle"
    /\ Goto(e, "look")
    /\ UNCHANGED <<ringVars, pPending, flagVars, prodVars, pItems, iHead, cRefusals, inserted>>

ClearFF(e) ==
    /\ pc[e] = "clearff"
    /\ ff' = FALSE
    /\ Goto(e, "testandset")
    /\ UNCHANGED <<ringVars, pPending, fActive, fPending, prodVars, pItems, iHead, cRefusals,
                   inserted>>

\* Seeded fault: the result of the test-and-set is ignored.
NobodyFlushes == TRUE

\* The test of the active bit.
MayFlush == ~fActive

\* Only one EMT at a time gets past the active bit.
TestAndSetActive(e) ==
    /\ pc[e] = "testandset"
    /\ fActive' = TRUE
    /\ Goto(e, IF MayFlush THEN "clearpending" ELSE "idle")
    /\ UNCHANGED <<ringVars, pPending, ff, fPending, prodVars, pItems, iHead, cRefusals, inserted>>

ClearPending(e) ==
    /\ pc[e] = "clearpending"
    /\ fPending' = FALSE
    /\ Goto(e, "look")
    /\ UNCHANGED <<ringVars, pPending, ff, fActive, prodVars, pItems, iHead, cRefusals, inserted>>

FlushReturns == IF fTimer THEN "idle" ELSE "clearactive"

\* Seeded fault: the ring-3 list is left out of the look.
AnyPendingInRZ == \E c \in {"RC", "R0"} : pPending[c] # <<>>

\* A look at the three lists.
AnyPending == \E c \in AllContexts : pPending[c] # <<>>

Look(e) ==
    /\ pc[e] = "look"
    /\ Goto(e, IF AnyPending THEN "R3" ELSE FlushReturns)
    /\ UNCHANGED <<ringVars, pPending, flagVars, prodVars, pItems, iHead, cRefusals, inserted>>

ClearActive(e) ==
    /\ pc[e] = "clearactive"
    /\ fActive' = FALSE
    /\ Goto(e, "check")
    /\ UNCHANGED <<ringVars, pPending, ff, fPending, prodVars, pItems, iHead, cRefusals, inserted>>

\* Another turn if there were inserts while it was busy.
CheckAgain(e) ==
    /\ pc[e] = "check"
    /\ Goto(e, IF fPending \/ ff THEN "clearff" ELSE "idle")
    /\ UNCHANGED <<ringVars, pPending, flagVars, prodVars, pItems, iHead, cRefusals, inserted>>

-----------------------------------------------------------------------------
(* pdmR3QueueFlush *)

\* The list in the order of insertion.
OldestFirst(list) == Reverse(list)

\* The lists are exchanged with NULL, one after the other; what is taken later goes
\* in front.  ("Someone is racing us?" when all were empty.)
TakeList(e) ==
    \E step \in {<<"R3", "RC">>, <<"RC", "R0">>, <<"R0", "feed">>} :
        /\ pc[e] = step[1]
        /\ pItems' = [pItems EXCEPT ![e] = OldestFirst(pPending[step[1]]) \o @]
        /\ pPending' = [pPending EXCEPT ![step[1]] = <<>>]
        /\ Goto(e, step[2])
        /\ UNCHANGED <<ringVars, flagVars, prodVars, iHead, cRefusals, inserted>>

\* The consumer takes the first item ...
ConsumerTakes(e) ==
    /\ pc[e] = "feed" /\ pItems[e] # <<>>
    /\ inserted' = [c \in AllContexts |-> RemoveFirst(inserted[c], Head(pItems[e]))]
    /\ Goto(e, "store")
    /\ UNCHANGED <<ringVars, pPending, flagVars, prodVars, pItems, iHead, cRefusals>>

\* ... or has had enough: what is left is reversed again.
ConsumerRefuses(e) ==
    /\ pc[e] = "feed" /\ pItems[e] # <<>> /\ cRefusals < MaxRefusals
    /\ cRefusals' = cRefusals + 1
    /\ pItems' = [pItems EXCEPT ![e] = Reverse(@)]
    /\ Goto(e, "putback")
    /\ UNCHANGED <<ringVars, pPending, flagVars, prodVars, iHead, inserted>>

FlushDone(e) ==
    /\ pc[e] = "feed" /\ pItems[e] = <<>>
    /\ Goto(e, FlushReturns)
    /\ UNCHANGED <<ringVars, pPending, flagVars, prodVars, pItems, iHead, cRefusals, inserted>>

\* pdmR3QueueFree: the item is stored at the head of the ring, then the head moved.
FreeStore(e) ==
    /\ pc[e] = "store"
    /\ iHead' = [iHead EXCEPT ![e] = iFreeHead]
    /\ aFreeItems' = [aFreeItems EXCEPT ![iFreeHead] = Head(pItems[e])]
    /\ Goto(e, "free")
    /\ UNCHANGED <<fTimer, iFreeHead, iFreeTail, pPending, flagVars, prodVars, pItems, cRefusals,
                   inserted>>

\* (A failing compare-exchange asserts, and the item is lost.)
FreeAdvance(e) ==
    /\ pc[e] = "free"
    /\ iFreeHead' = IF iFreeHead = iHead[e] THEN NextSlot(iHead[e]) ELSE iFreeHead
    /\ pItems' = [pItems EXCEPT ![e] = Tail(@)]
    /\ Goto(e, "feed")
    /\ UNCHANGED <<fTimer, aFreeItems, iFreeTail, pPending, flagVars, prodVars, iHead, cRefusals,
                   inserted>>

\* The leftovers become the ring-3 list if it is empty; otherwise the newcomers are
\* taken off, ...
PutBack(e) ==
    /\ pc[e] = "putback"
    /\ IF pPending["R3"] = <<>>
       THEN /\ pPending' = [pPending EXCEPT !["R3"] = pItems[e]]
            /\ pItems' = [pItems EXCEPT ![e] = <<>>]
            /\ Goto(e, FlushReturns)
       ELSE Goto(e, "join") /\ UNCHANGED <<pPending, pItems>>
    /\ UNCHANGED <<ringVars, flagVars, prodVars, iHead, cRefusals, inserted>>

\* Seeded fault: the newcomers are linked behind the leftovers.
JoinInFront(newer, older) == older \o newer

\* The leftovers linked behind the last of the newcomers.
Join(newer, older) == newer \o older

\* ... joined with them, and it is tried again.
JoinNewcomers(e) ==
    /\ pc[e] = "join"
    /\ pItems' = [pItems EXCEPT ![e] = Join(pPending["R3"], @)]
    /\ pPending' = [pPending EXCEPT !["R3"] = <<>>]
    /\ Goto(e, "putback")
    /\ UNCHANGED <<ringVars, flagVars, prodVars, iHead, cRefusals, inserted>>

-----------------------------------------------------------------------------

InsertStep(p) ==
    AllocTake(p) \/ AllocRetry(p) \/ InsertPush(p) \/ InsertSetFF(p) \/ InsertSetPending(p)

FlushAllStep(e) ==
    \/ ForcedAction(e) \/ ClearFF(e) \/ TestAndSetActive(e) \/ ClearPending(e)
    \/ ClearActive(e) \/ CheckAgain(e)

FlushStep(e) ==
    \/ Look(e) \/ TakeList(e) \/ ConsumerTakes(e) \/ ConsumerRefuses(e) \/ FlushDone(e)
    \/ FreeStore(e) \/ FreeAdvance(e) \/ PutBack(e) \/ JoinNewcomers(e)

Next ==
    \/ \E p \in Producers : AllocRead(p) \/ InsertStep(p)
    \/ \E e \in Emts : FlushAllStep(e) \/ FlushStep(e) \/ TimerFires(e)

Spec == Init /\ [][Next]_vars

\* Fairness: the threads are scheduled, the EM loop polls, the timer fires.
FairSpec ==
    /\ Spec
    /\ \A p \in Producers : WF_vars(InsertStep(p))
    /\ \A e \in Emts : WF_vars(FlushAllStep(e) \/ FlushStep(e) \/ TimerFires(e))

-----------------------------------------------------------------------------
(* Properties *)

TypeOK ==
    /\ fTimer \in BOOLEAN
    /\ aFreeItems \in [Slots -> Items \cup {NIL}]
    /\ iFreeHead \in Slots /\ iFreeTail \in Slots
    /\ pPending \in [AllContexts -> Seq(Items)]
    /\ ff \in BOOLEAN /\ fActive \in BOOLEAN /\ fPending \in BOOLEAN
    /\ ppc \in [Producers -> {"idle", "retry", "cas", "push", "setff", "setpending"}]
    /\ iTail \in [Producers -> Slots]
    /\ pNew \in [Producers -> Items \cup {NIL}]
    /\ pc \in [Emts -> {"idle", "clearff", "testandset", "clearpending", "look", "R3", "RC", "R0",
                        "feed", "store", "free", "putback", "join", "clearactive", "check"}]
    /\ pItems \in [Emts -> Seq(Items)]
    /\ iHead \in [Emts -> Slots]
    /\ cAllocs \in 0 .. MaxAllocs /\ cRefusals \in 0 .. MaxRefusals
    /\ inserted \in [AllContexts -> Seq(Items)]

Flushing(e) ==
    pc[e] \in {"clearpending", "look", "R3", "RC", "R0", "feed", "store", "free", "putback",
               "join", "clearactive"}

\* At most one EMT flushes, and while it does the active bit is set.
OneFlusher ==
    /\ \A e, f \in Emts : Flushing(e) /\ Flushing(f) => e = f
    /\ ~fTimer => \A e \in Emts : Flushing(e) => fActive

\* The two assertions of the flush code: no EMT races another one for the lists, and
\* none for the head of the free ring.
NobodyRacesUs ==
    \A e \in Emts :
        /\ pc[e] = "R3" => \E c \in AllContexts : pPending[c] # <<>>
        /\ pc[e] = "RC" => pItems[e] # <<>> \/ \E c \in {"RC", "R0"} : pPending[c] # <<>>
        /\ pc[e] = "R0" => pItems[e] # <<>> \/ pPending["R0"] # <<>>
        /\ pc[e] = "free" => iFreeHead = iHead[e]

\* The slots from the tail to the head.
FreeSlots ==
    {i \in Slots : (i - iFreeTail) % Ring < (iFreeHead - iFreeTail) % Ring}

CountIn(x, list) == Cardinality({i \in DOMAIN list : list[i] = x})

\* Every item is in exactly one place: in the ring, with the producer that allocated
\* it, on a list, or in the hands of the flushing EMT.  So none is ever handed out
\* twice, and none leaks.
EachItemOnce ==
    \A x \in Items :
        LET free == {i \in FreeSlots : aFreeItems[i] = x}
            held == {p \in Producers : ppc[p] = "push" /\ pNew[p] = x}
            lists == {c \in AllContexts : CountIn(x, pPending[c]) > 0}
            hands == {e \in Emts : CountIn(x, pItems[e]) > 0}
        IN  /\ \A c \in lists : CountIn(x, pPending[c]) = 1
            /\ \A e \in hands : CountIn(x, pItems[e]) = 1
            /\ Cardinality(free) + Cardinality(held) + Cardinality(lists) + Cardinality(hands) = 1

\* The consumer gets the items of one context in the order in which they were inserted.
\* Ring-3 items are also in order after a refusal; the others are only until the first
\* one, since what was refused is put on the ring-3 list, behind newer items.
InOrder ==
    [][\A c \in AllContexts : c = "R3" \/ cRefusals = 0 =>
          \/ inserted'[c] = inserted[c]
          \/ \E x \in Items : inserted'[c] = Append(inserted[c], x)
          \/ \E x \in Items : inserted[c] = <<x>> \o inserted'[c]]_vars

\* When everybody is done and no flush is asked for, nothing is pending (unless it was
\* refused): inserts that occur during a flush are caught.
InsertsAreCaught ==
    (/\ ~fTimer /\ cRefusals = 0
     /\ \A p \in Producers : ppc[p] \in {"idle", "retry", "cas", "push"}
     /\ \A e \in Emts : pc[e] = "idle"
     /\ ~ff)
    => \A c \in AllContexts : pPending[c] = <<>>

\* Every inserted item reaches the consumer, refused ones if there is a timer (without
\* one they wait for the next insert).
ItemsConsumed ==
    \A x \in Items, c \in AllContexts :
        CountIn(x, inserted[c]) > 0
        ~> CountIn(x, inserted[c]) = 0 \/ (~fTimer /\ cRefusals > 0)
=============================================================================
