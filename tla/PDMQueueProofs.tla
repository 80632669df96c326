--------------------------- MODULE PDMQueueProofs ---------------------------
(* Proofs about PDMQueue: for any number of EMTs, producers and items. *)
EXTENDS PDMQueue, ListLemmas, FiniteSetTheorems, WellFoundedInduction, TLAPS

-----------------------------------------------------------------------------
(* The assertions of the flush code are about the EMT that flushes alone, so they
   rest on OneFlusher, which is about the active bit.  That no producer takes NIL
   from the ring rests on RingInv: slots are NIL only until the head has been there,
   and as long as there is one the head has not gone round. *)

Labels ==
    {"idle", "clearff", "testandset", "clearpending", "look", "R3", "RC", "R0", "feed", "store",
     "free", "putback", "join", "clearactive", "check"}

FlushTypes == TypeOK /\ \A e \in Emts : pc[e] \in {"store", "free"} => pItems[e] # <<>>

RingInv ==
    /\ \A p \in Producers : ppc[p] \in {"cas", "push"} => pNew[p] \in Items
    /\ \A e \in Emts : pc[e] = "free" => aFreeItems[iFreeHead] = Head(pItems[e])
    /\ \A i \in Slots : aFreeItems[i] = NIL =>
          /\ iFreeHead <= i /\ iFreeTail <= iFreeHead
          /\ \A p \in Producers : ppc[p] = "cas" => iTail[p] < iFreeHead

\* A queue with a timer is flushed by one EMT.
TimerInv == fTimer => \A e, f \in Emts : e = f

IInv == TimerInv /\ FlushTypes /\ RingInv /\ OneFlusher /\ NobodyRacesUs

\* A slot of the ring is followed by a slot of the ring.
LEMMA NextSlotType == \A i \in Slots : NextSlot(i) \in Slots
  BY SizeAssumption DEF Slots, NextSlot, Ring

\* It is the next one, or the first after the last.
LEMMA NextIs == \A i \in Slots : NextSlot(i) = IF i = Ring - 1 THEN 0 ELSE i + 1
  BY SizeAssumption DEF NextSlot, Slots, Ring

\* The first place where an item is.
LEMMA FirstPlace ==
  ASSUME NEW S, NEW s \in Seq(S), NEW x, \E i \in 1 .. Len(s) : s[i] = x
  PROVE  \E i \in 1 .. Len(s) : /\ s[i] = x /\ \A j \in 1 .. Len(s) : s[j] = x => i <= j
                                /\ RemoveFirst(s, x) = RemoveAt(s, i)
<1> DEFINE I == {i \in 1 .. Len(s) : s[i] = x}
<1>1. I \subseteq Nat /\ I # {}
  OBVIOUS
<1>2. PICK i \in I : \A j \in I : ~(<<j, i>> \in OpToRel(<, Nat))
  <2> HIDE DEF I
  <2> QED BY <1>1, WFMin, NatLessThanWellFounded
<1>3. \A j \in I : i <= j
  <2> HIDE DEF I
  <2>1. \A j \in I : ~(j < i)
    BY <1>1, <1>2 DEF OpToRel
  <2>2. i \in Nat /\ \A j \in I : j \in Nat
    BY <1>1
  <2> QED BY <2>1, <2>2
<1>4. Min(I) = i
  <2> HIDE DEF I
  <2>1. Min(I) \in I /\ \A j \in I : Min(I) <= j
    BY <1>3 DEF Min
  <2>2. i \in Nat /\ Min(I) \in Nat /\ Min(I) <= i /\ i <= Min(I)
    BY <1>1, <1>3, <2>1
  <2> QED BY <2>2
<1>5. SelectInSeq(s, LAMBDA v : v = x) = i
  BY <1>1, <1>4 DEF SelectInSeq
<1> QED BY <1>2, <1>3, <1>5 DEF RemoveFirst

\* What is left of a list of items is a list of items.
LEMMA RemoveType ==
  ASSUME NEW S, NEW s \in Seq(S), NEW x
  PROVE  RemoveFirst(s, x) \in Seq(S)
<1>1. CASE \E i \in 1 .. Len(s) : s[i] = x
  <2>1. PICK i \in 1 .. Len(s) : RemoveFirst(s, x) = RemoveAt(s, i)
    BY <1>1, FirstPlace
  <2>2. SubSeq(s, 1, i - 1) \in Seq(S) /\ SubSeq(s, i + 1, Len(s)) \in Seq(S)
    OBVIOUS
  <2> QED BY <2>1, <2>2 DEF RemoveAt
<1>2. CASE ~ \E i \in 1 .. Len(s) : s[i] = x
  BY <1>2 DEF RemoveFirst
<1> QED BY <1>1, <1>2

\* Nobody flushes at first.
LEMMA InitIInv == Init => IInv
<1> SUFFICES ASSUME Init PROVE IInv
  OBVIOUS
<1>0. 0 \in Slots /\ cItems \in Slots /\ \A i \in Slots : i < cItems => i + 1 \in Items
  BY SizeAssumption DEF Slots, Ring, Items
<1>1. FlushTypes
  <2>1. aFreeItems \in [Slots -> Items \cup {NIL}]
    BY <1>0 DEF Init
  <2>2. <<>> \in Seq(Items)
    OBVIOUS
  <2>3. /\ pPending \in [AllContexts -> Seq(Items)] /\ inserted \in [AllContexts -> Seq(Items)]
        /\ pItems \in [Emts -> Seq(Items)]
    BY <2>2 DEF Init
  <2>4. cAllocs \in 0 .. MaxAllocs /\ cRefusals \in 0 .. MaxRefusals
    BY BoundsAssumption DEF Init
  <2> QED BY <1>0, <2>1, <2>3, <2>4 DEF Init, FlushTypes, TypeOK
<1>4. RingInv
  <2>1. \A i \in Slots : aFreeItems[i] = NIL => i >= cItems
    BY <1>0, NilAssumption DEF Init, Slots
  <2> QED BY <1>0, <2>1, SizeAssumption DEF Init, RingInv
<1>2. OneFlusher /\ NobodyRacesUs
  BY DEF Init, OneFlusher, Flushing, NobodyRacesUs
<1>3. TimerInv
  BY DEF Init, TimerInv
<1> QED BY <1>1, <1>2, <1>3, <1>4 DEF IInv

-----------------------------------------------------------------------------
(* One lemma per part of the invariant, one step per action. *)

\* A queue does not change its kind.
LEMMA TimerStays == [Next]_vars => fTimer' = fTimer
  BY DEF Next, InsertStep, FlushAllStep, FlushStep, AllocRead, AllocTake, AllocRetry, InsertPush,
     InsertSetFF, InsertSetPending, ForcedAction, ClearFF, TestAndSetActive, ClearPending,
     ClearActive, CheckAgain, TimerFires, Look, TakeList, ConsumerTakes, ConsumerRefuses, FlushDone,
     FreeStore, FreeAdvance, PutBack, JoinNewcomers, ringVars, vars

\* Every step keeps the types that the argument needs,
LEMMA TypesStep ==
  ASSUME IInv, [Next]_vars
  PROVE  FlushTypes'
<1> USE DEF IInv, FlushTypes, TypeOK, Labels, Goto, ringVars, flagVars, prodVars, emtVars, vars
<1>1. ASSUME NEW p \in Producers, AllocRead(p) PROVE FlushTypes'
  <2>1. cAllocs' \in 0 .. MaxAllocs
    BY <1>1, BoundsAssumption DEF AllocRead
  <2>2. ppc' \in [Producers -> {"idle", "retry", "cas", "push", "setff", "setpending"}]
    BY <1>1 DEF AllocRead
  <2>3. iTail' \in [Producers -> Slots] /\ pNew' \in [Producers -> Items \cup {NIL}]
    <3>1. aFreeItems[iFreeTail] \in Items \cup {NIL}
      OBVIOUS
    <3>2. CASE Exhausted
      BY <1>1, <3>2 DEF AllocRead
    <3>3. CASE ~Exhausted
      BY <1>1, <3>1, <3>3 DEF AllocRead
    <3> QED BY <3>2, <3>3
  <2> QED BY <1>1, <2>1, <2>2, <2>3 DEF AllocRead
<1>2. ASSUME NEW p \in Producers, AllocTake(p) PROVE FlushTypes'
  BY <1>2, NextSlotType DEF AllocTake
<1>3. ASSUME NEW p \in Producers, InsertPush(p) PROVE FlushTypes'
  <2>1. PICK c \in Contexts : /\ pPending' = [pPending EXCEPT ![c] = <<pNew[p]>> \o @]
                              /\ inserted' = [inserted EXCEPT ![c] = Append(@, pNew[p])]
    BY <1>3 DEF InsertPush
  <2>2. c \in AllContexts /\ pNew[p] \in Items
    BY <1>3, ContextsAssumption DEF AllContexts, InsertPush, RingInv
  <2>3. <<pNew[p]>> \o pPending[c] \in Seq(Items) /\ Append(inserted[c], pNew[p]) \in Seq(Items)
    BY <2>2
  <2>4. pPending' \in [AllContexts -> Seq(Items)] /\ inserted' \in [AllContexts -> Seq(Items)]
    BY <2>1, <2>2, <2>3
  <2> QED BY <1>3, <2>4 DEF InsertPush
<1>4. ASSUME NEW p \in Producers, AllocRetry(p) \/ InsertSetFF(p) \/ InsertSetPending(p)
      PROVE  FlushTypes'
  BY <1>4 DEF AllocRetry, InsertSetFF, InsertSetPending
<1>5. ASSUME NEW e \in Emts, FlushAllStep(e) \/ TimerFires(e) PROVE FlushTypes'
  BY <1>5 DEF FlushAllStep, ForcedAction, ClearFF, TestAndSetActive, ClearPending,
     ClearActive, CheckAgain, TimerFires
<1>6. ASSUME NEW e \in Emts, TakeList(e) PROVE FlushTypes'
  <2>1. PICK step \in {<<"R3", "RC">>, <<"RC", "R0">>, <<"R0", "feed">>} :
          /\ pc[e] = step[1]
          /\ pItems' = [pItems EXCEPT ![e] = OldestFirst(pPending[step[1]]) \o @]
          /\ pPending' = [pPending EXCEPT ![step[1]] = <<>>]
          /\ pc' = [pc EXCEPT ![e] = step[2]]
          /\ UNCHANGED <<ringVars, flagVars, prodVars, iHead, cRefusals, inserted>>
    BY <1>6 DEF TakeList
  <2>2. step[1] \in AllContexts /\ step[2] \in {"RC", "R0", "feed"}
    BY DEF AllContexts
  <2>3. OldestFirst(pPending[step[1]]) \in Seq(Items)
    BY <2>2, ReversedList DEF OldestFirst
  <2>4. pItems' \in [Emts -> Seq(Items)]
    BY <2>1, <2>3
  <2> QED BY <2>1, <2>2, <2>4
<1>7. ASSUME NEW e \in Emts, Look(e) \/ FlushDone(e) PROVE FlushTypes'
  BY <1>7 DEF Look, FlushDone, FlushReturns
<1>13. ASSUME NEW e \in Emts, ConsumerTakes(e) PROVE FlushTypes'
  <2>1. \A c \in AllContexts : RemoveFirst(inserted[c], Head(pItems[e])) \in Seq(Items)
    BY RemoveType
  <2>2. inserted' \in [AllContexts -> Seq(Items)]
    BY <1>13, <2>1 DEF ConsumerTakes
  <2> QED BY <1>13, <2>2 DEF ConsumerTakes
<1>8. ASSUME NEW e \in Emts, ConsumerRefuses(e) PROVE FlushTypes'
  <2>1. Reverse(pItems[e]) \in Seq(Items)
    BY ReversedList
  <2> QED BY <1>8, <2>1, BoundsAssumption DEF ConsumerRefuses
<1>9. ASSUME NEW e \in Emts, FreeStore(e) PROVE FlushTypes'
  <2>1. Head(pItems[e]) \in Items \cup {NIL}
    BY <1>9 DEF FreeStore
  <2> QED BY <1>9, <2>1 DEF FreeStore
<1>10. ASSUME NEW e \in Emts, FreeAdvance(e) PROVE FlushTypes'
  <2>1. Tail(pItems[e]) \in Seq(Items)
    BY <1>10 DEF FreeAdvance
  <2>2. iFreeHead' \in Slots
    BY <1>10, NextSlotType DEF FreeAdvance
  <2> QED BY <1>10, <2>1, <2>2 DEF FreeAdvance
<1>11. ASSUME NEW e \in Emts, PutBack(e) \/ JoinNewcomers(e) PROVE FlushTypes'
  <2>1. Join(pPending["R3"], pItems[e]) \in Seq(Items)
    BY DEF Join, AllContexts
  <2>2. ASSUME PutBack(e) PROVE FlushTypes'
    <3>1. /\ pPending' \in [AllContexts -> Seq(Items)]
          /\ pItems' \in [Emts -> Seq(Items)]
      <4>1. "R3" \in AllContexts /\ <<>> \in Seq(Items)
        BY DEF AllContexts
      <4>2. CASE pPending["R3"] = <<>>
        BY <2>2, <4>1, <4>2 DEF PutBack
      <4>3. CASE pPending["R3"] # <<>>
        BY <2>2, <4>3 DEF PutBack
      <4> QED BY <4>2, <4>3
    <3>2. /\ pc' \in [Emts -> Labels]
          /\ \A f \in Emts : pc'[f] \in {"store", "free"} => f # e /\ pc'[f] = pc[f]
      BY <2>2 DEF PutBack, FlushReturns
    <3>3. \A f \in Emts : f # e => pItems'[f] = pItems[f]
      BY <2>2 DEF PutBack
    <3> QED BY <2>2, <3>1, <3>2, <3>3 DEF PutBack
  <2>3. ASSUME JoinNewcomers(e) PROVE FlushTypes'
    <3>1. <<>> \in Seq(Items)
      OBVIOUS
    <3>2. /\ pPending' \in [AllContexts -> Seq(Items)]
          /\ pItems' \in [Emts -> Seq(Items)]
      BY <2>1, <2>3, <3>1 DEF JoinNewcomers
    <3> QED BY <2>3, <3>2 DEF JoinNewcomers
  <2> QED BY <1>11, <2>2, <2>3
<1>12. ASSUME UNCHANGED vars PROVE FlushTypes'
  BY <1>12
<1> QED BY <1>1, <1>2, <1>3, <1>4, <1>5, <1>6, <1>7, <1>8, <1>9, <1>10, <1>11, <1>12, <1>13
        DEF Next, InsertStep, FlushStep

\* what is in the ring,
LEMMA RingStep ==
  ASSUME IInv, [Next]_vars
  PROVE  RingInv'
<1> USE DEF IInv, RingInv, Goto, ringVars, flagVars, prodVars, emtVars, vars
<1>0. /\ aFreeItems \in [Slots -> Items \cup {NIL}] /\ iFreeHead \in Slots /\ iFreeTail \in Slots
      /\ pNew \in [Producers -> Items \cup {NIL}] /\ iTail \in [Producers -> Slots]
      /\ ppc \in [Producers -> {"idle", "retry", "cas", "push", "setff", "setpending"}]
      /\ pc \in [Emts -> Labels] /\ pItems \in [Emts -> Seq(Items)] /\ iHead \in [Emts -> Slots]
      /\ \A i \in Slots : i \in Nat /\ i < Ring
  BY SizeAssumption DEF FlushTypes, TypeOK, Labels, Slots, Ring
<1>1. ASSUME NEW p \in Producers, AllocRead(p) PROVE RingInv'
  <2>1. CASE Exhausted
    BY <1>0, <1>1, <2>1 DEF AllocRead
  <2>2. CASE ~Exhausted
    <3>1. aFreeItems[iFreeTail] \in Items
      BY <1>0, <2>2 DEF Exhausted
    <3>2. \A q \in Producers : ppc'[q] = "cas" => (q = p /\ iTail'[q] = iFreeTail) \/ (ppc[q] = "cas" /\ iTail'[q] = iTail[q])
      BY <1>0, <1>1, <2>2 DEF AllocRead
    <3>3. \A q \in Producers : ppc'[q] \in {"cas", "push"} => pNew'[q] \in Items
      BY <1>0, <1>1, <2>2, <3>1 DEF AllocRead
    <3> QED BY <1>0, <1>1, <2>2, <3>2, <3>3 DEF AllocRead, Exhausted
  <2> QED BY <2>1, <2>2
<1>2. ASSUME NEW p \in Producers, AllocTake(p) PROVE RingInv'
  <2>1. ASSUME NEW i \in Slots, aFreeItems[i] = NIL PROVE iFreeTail' <= iFreeHead
    <3>1. iTail[p] < iFreeHead /\ iFreeTail' = NextSlot(iTail[p])
      BY <1>2, <2>1 DEF AllocTake
    <3> QED BY <1>0, <3>1, NextIs
  <2> QED BY <1>0, <1>2, <2>1 DEF AllocTake
<1>3. ASSUME NEW p \in Producers, AllocRetry(p) \/ InsertPush(p) \/ InsertSetFF(p) \/ InsertSetPending(p)
      PROVE  RingInv'
  BY <1>0, <1>3 DEF AllocRetry, InsertPush, InsertSetFF, InsertSetPending
<1>4. ASSUME NEW e \in Emts, FlushAllStep(e) \/ TimerFires(e) \/ Look(e) \/ FlushDone(e) \/ ConsumerTakes(e)
      PROVE RingInv'
  BY <1>0, <1>4 DEF FlushAllStep, ForcedAction, ClearFF, TestAndSetActive, ClearPending,
     ClearActive, CheckAgain, TimerFires, Look, FlushDone, ConsumerTakes, FlushReturns
<1>5. ASSUME NEW e \in Emts, TakeList(e) \/ ConsumerRefuses(e) \/ PutBack(e) \/ JoinNewcomers(e)
      PROVE  RingInv'
  <2>1. \A f \in Emts : pc'[f] = "free" => f # e /\ pc[f] = "free" /\ pItems'[f] = pItems[f]
    BY <1>0, <1>5 DEF TakeList, ConsumerRefuses, PutBack, JoinNewcomers, FlushReturns
  <2> QED BY <1>5, <2>1 DEF TakeList, ConsumerRefuses, PutBack, JoinNewcomers
<1>6. ASSUME NEW e \in Emts, FreeStore(e) PROVE RingInv'
  <2>1. pItems[e] # <<>> /\ Head(pItems[e]) \in Items
    BY <1>0, <1>6 DEF FreeStore, FlushTypes
  <2>2. \A f \in Emts : pc'[f] = "free" => f = e
    BY <1>0, <1>6 DEF FreeStore, OneFlusher, Flushing
  <2> QED BY <1>0, <1>6, <2>1, <2>2, NilAssumption DEF FreeStore
<1>7. ASSUME NEW e \in Emts, FreeAdvance(e) PROVE RingInv'
  <2>1. pItems[e] # <<>> /\ Head(pItems[e]) \in Items /\ iHead[e] = iFreeHead /\ aFreeItems[iFreeHead] = Head(pItems[e])
    BY <1>0, <1>7 DEF FreeAdvance, FlushTypes, NobodyRacesUs
  <2>2. \A f \in Emts : pc'[f] # "free"
    BY <1>0, <1>7 DEF FreeAdvance, OneFlusher, Flushing
  <2>3. iFreeHead' = NextSlot(iFreeHead)
    BY <1>7, <2>1 DEF FreeAdvance
  <2>4. ASSUME NEW i \in Slots, aFreeItems[i] = NIL PROVE iFreeHead' = iFreeHead + 1 /\ iFreeHead' <= i
    <3>1. iFreeHead <= i /\ iFreeHead # i
      BY <2>1, <2>4, NilAssumption
    <3>2. i \in Nat /\ iFreeHead \in Nat /\ i < Ring /\ Ring \in Nat
      BY <1>0, SizeAssumption DEF Ring
    <3>3. iFreeHead # Ring - 1
      BY <3>1, <3>2
    <3>4. iFreeHead' = iFreeHead + 1
      BY <1>0, <2>3, <3>3, NextIs
    <3> QED BY <3>1, <3>2, <3>4
  <2> QED BY <1>0, <1>7, <2>2, <2>4 DEF FreeAdvance
<1>8. ASSUME UNCHANGED vars PROVE RingInv'
  BY <1>8
<1> QED BY <1>1, <1>2, <1>3, <1>4, <1>5, <1>6, <1>7, <1>8 DEF Next, InsertStep, FlushStep

\* the mutual exclusion of the flushers,
LEMMA OneFlusherStep ==
  ASSUME IInv, [Next]_vars
  PROVE  OneFlusher'
<1> USE DEF IInv, FlushTypes, TypeOK, OneFlusher, Flushing, Goto, ringVars, flagVars, prodVars,
            emtVars, vars
<1>1. ASSUME NEW p \in Producers, AllocRead(p) \/ InsertStep(p) PROVE OneFlusher'
  BY <1>1 DEF InsertStep, AllocRead, AllocTake, AllocRetry, InsertPush, InsertSetFF,
     InsertSetPending
<1>2. CASE fTimer
  BY <1>2, TimerStays DEF TimerInv
<1>3. ASSUME NEW e \in Emts, ~fTimer, FlushAllStep(e) PROVE OneFlusher'
  <2>1. ASSUME ForcedAction(e) \/ ClearFF(e) \/ CheckAgain(e) PROVE OneFlusher'
    BY <1>3, <2>1 DEF ForcedAction, ClearFF, CheckAgain
  <2>2. ASSUME TestAndSetActive(e) PROVE OneFlusher'
    BY <1>3, <2>2 DEF TestAndSetActive, MayFlush
  <2>3. ASSUME ClearPending(e) PROVE OneFlusher'
    BY <1>3, <2>3 DEF ClearPending
  <2>4. ASSUME ClearActive(e) PROVE OneFlusher'
    <3>1. Flushing(e) /\ \A f \in Emts : ~(Flushing(f)')
      BY <2>4 DEF ClearActive
    <3> QED BY <3>1
  <2> QED BY <1>3, <2>1, <2>2, <2>3, <2>4 DEF FlushAllStep
<1>4. ASSUME NEW e \in Emts, ~fTimer, FlushStep(e) PROVE OneFlusher'
  <2>1. Flushing(e) /\ fActive' = fActive /\ \E l \in Labels : pc' = [pc EXCEPT ![e] = l]
    BY <1>4 DEF FlushStep, Look, TakeList, ConsumerTakes, ConsumerRefuses, FlushDone,
       FreeStore, FreeAdvance, PutBack, JoinNewcomers, FlushReturns, Labels
  <2> QED BY <1>4, <2>1
<1>5. ASSUME NEW e \in Emts, ~fTimer, TimerFires(e) PROVE OneFlusher'
  BY <1>5 DEF TimerFires
<1>6. ASSUME UNCHANGED vars PROVE OneFlusher'
  BY <1>6
<1> QED BY <1>1, <1>2, <1>3, <1>4, <1>5, <1>6 DEF Next

\* and what pdmR3QueueFlush relies on when it puts items back.
LEMMA NobodyRacesUsStep ==
  ASSUME IInv, [Next]_vars
  PROVE  NobodyRacesUs'
<1> USE DEF IInv, FlushTypes, TypeOK, NobodyRacesUs, Goto, ringVars, flagVars, prodVars, emtVars, vars
<1>1. ASSUME NEW p \in Producers, InsertPush(p) PROVE NobodyRacesUs'
  <2>1. PICK c \in Contexts : pPending' = [pPending EXCEPT ![c] = <<pNew[p]>> \o @]
    BY <1>1 DEF InsertPush
  <2>2. \A d \in AllContexts : pPending[d] # <<>> => pPending'[d] # <<>>
    BY <2>1, ContextsAssumption DEF AllContexts
  <2> QED BY <1>1, <2>2 DEF InsertPush, AllContexts
<1>2. ASSUME NEW p \in Producers, \/ AllocRead(p) \/ AllocTake(p) \/ AllocRetry(p)
                                  \/ InsertSetFF(p) \/ InsertSetPending(p)
      PROVE  NobodyRacesUs'
  BY <1>2 DEF AllocRead, AllocTake, AllocRetry, InsertSetFF, InsertSetPending
<1>3. ASSUME NEW e \in Emts, FlushAllStep(e) \/ TimerFires(e) PROVE NobodyRacesUs'
  BY <1>3 DEF FlushAllStep, ForcedAction, ClearFF, TestAndSetActive, ClearPending,
     ClearActive, CheckAgain, TimerFires
<1>4. ASSUME NEW e \in Emts, Look(e) \/ ConsumerTakes(e) \/ FlushDone(e) \/ ConsumerRefuses(e)
      PROVE  NobodyRacesUs'
  BY <1>4 DEF Look, AnyPending, ConsumerTakes, FlushDone, FlushReturns, ConsumerRefuses
<1>5. ASSUME NEW e \in Emts, TakeList(e) \/ FreeStore(e) \/ FreeAdvance(e) \/ PutBack(e)
                             \/ JoinNewcomers(e)
      PROVE  NobodyRacesUs'
  \* The others are not in a flush, so only e's own conjuncts are at stake.
  <2>1. \A f \in Emts \ {e} : pc'[f] = pc[f] /\ pc[f] \notin {"R3", "RC", "R0", "free"}
    BY <1>5 DEF TakeList, FreeStore, FreeAdvance, PutBack, JoinNewcomers, OneFlusher, Flushing
  <2>2. ASSUME TakeList(e) PROVE NobodyRacesUs'
    <3>1. PICK step \in {<<"R3", "RC">>, <<"RC", "R0">>, <<"R0", "feed">>} :
            /\ pc[e] = step[1]
            /\ pItems' = [pItems EXCEPT ![e] = OldestFirst(pPending[step[1]]) \o @]
            /\ pPending' = [pPending EXCEPT ![step[1]] = <<>>]
            /\ pc' = [pc EXCEPT ![e] = step[2]]
      BY <2>2 DEF TakeList
    <3>2. step[1] \in AllContexts
      BY DEF AllContexts
    <3>3. /\ OldestFirst(pPending[step[1]]) \in Seq(Items)
          /\ pPending[step[1]] # <<>> => OldestFirst(pPending[step[1]]) # <<>>
      BY <3>2, ReversedList DEF OldestFirst
    <3>4. pPending[step[1]] # <<>> \/ pItems[e] # <<>> => pItems'[e] # <<>>
      BY <3>1, <3>3
    <3> QED BY <2>1, <3>1, <3>2, <3>4 DEF AllContexts
  <2>3. ASSUME FreeStore(e) PROVE NobodyRacesUs'
    BY <2>1, <2>3 DEF FreeStore
  <2>4. ASSUME FreeAdvance(e) \/ PutBack(e) \/ JoinNewcomers(e) PROVE NobodyRacesUs'
    BY <2>1, <2>4 DEF FreeAdvance, PutBack, JoinNewcomers, FlushReturns
  <2> QED BY <1>5, <2>2, <2>3, <2>4
<1>6. ASSUME UNCHANGED vars PROVE NobodyRacesUs'
  BY <1>6
<1> QED BY <1>1, <1>2, <1>3, <1>4, <1>5, <1>6 DEF Next, InsertStep, FlushStep

\* The inductive invariant holds in every reachable state.
THEOREM Invariance == Spec => []IInv
<1>1. IInv /\ [Next]_vars => IInv'
  BY TimerStays, TypesStep, RingStep, OneFlusherStep, NobodyRacesUsStep DEF IInv, TimerInv
<1> QED BY InitIInv, <1>1, PTL DEF Spec

\* Every variable has its type; in particular a producer never finds NIL in the ring of
\* free items, and never pushes it, even one that was delayed for a turn of the ring.
THEOREM TypeCorrect == Spec => []TypeOK
<1>1. IInv => TypeOK
  BY DEF IInv, FlushTypes
<1> QED BY <1>1, Invariance, PTL

\* At most one EMT is in PDMR3QueueFlushAll's loop, with the active bit set.
THEOREM OneFlusherAlways == Spec => []OneFlusher
<1>1. IInv => OneFlusher
  BY DEF IInv
<1> QED BY <1>1, Invariance, PTL

\* Neither of the assertions of pdmR3QueueFlush and pdmR3QueueFree ever fires.
THEOREM NobodyEverRacesUs == Spec => []NobodyRacesUs
<1>1. IInv => NobodyRacesUs
  BY DEF IInv
<1> QED BY <1>1, Invariance, PTL

-----------------------------------------------------------------------------
(* Every item is in one place.  The compare-exchange of PDMQueueAlloc sees the index
   of the tail only; what follows is about behaviours in which that is enough. *)

\* Whenever the compare-exchange would succeed, the producer's view of the ring is
\* current: the ring is not empty, and the item is still the one at the tail.
NothingStale ==
    \A p \in Producers : ppc[p] = "cas" /\ iFreeTail = iTail[p] =>
        ~Exhausted /\ pNew[p] = aFreeItems[iFreeTail]

FreeItems == {aFreeItems[i] : i \in FreeSlots}
HeldBy(p) == IF ppc[p] = "push" THEN {pNew[p]} ELSE {}

Places ==
    ({"free"} \X {NIL}) \cup ({"held"} \X Producers) \cup ({"list"} \X AllContexts) \cup ({"hand"} \X Emts)

\* The items in a place.
Content(pl) ==
    IF pl[1] = "free" THEN FreeItems
    ELSE IF pl[1] = "held" THEN HeldBy(pl[2])
    ELSE IF pl[1] = "list" THEN ToSet(pPending[pl[2]])
    ELSE ToSet(pItems[pl[2]])
contents == [pl \in Places |-> Content(pl)]

InOnePlace(h) == \A x \in Items : \E pl \in Places : \A ql \in Places : x \in h[ql] <=> ql = pl

\* No place has an item twice.
Distinct ==
    /\ \A i, j \in FreeSlots : aFreeItems[i] = aFreeItems[j] => i = j
    /\ \A c \in AllContexts : IsInjective(pPending[c])
    /\ \A e \in Emts : IsInjective(pItems[e])

OnceInv == InOnePlace(contents) /\ Distinct

\* As long as there are no more allocations than slots, the tail goes round once at most,
\* and when it has, nobody is in PDMQueueAlloc any more.  n counts its moves.
Busy == {p \in Producers : ppc[p] \in {"cas", "retry"}}
TurnInv ==
    \E n \in 0 .. Ring :
        /\ n + Cardinality(Busy) <= cAllocs
        /\ iFreeTail = IF n = Ring THEN 0 ELSE n
        /\ \A p \in Producers : ppc[p] = "cas" => iTail[p] <= n

-----------------------------------------------------------------------------
(* The ring of free items *)

\* Slots are numbers below the size of the ring.
LEMMA SlotNumbers == Ring \in Nat /\ \A i \in Slots : i \in Nat /\ i < Ring
  BY SizeAssumption DEF Slots, Ring

\* How far a slot is from another one.
LEMMA Distance ==
  ASSUME NEW a \in Slots, NEW b \in Slots
  PROVE  (a - b) % Ring = IF a >= b THEN a - b ELSE a - b + Ring
<1>0. Ring \in Nat \ {0} /\ a \in Int /\ b \in Int /\ a - b \in Int
  BY SizeAssumption DEF Slots, Ring
<1>1. CASE a >= b
  <2>1. a - b \in 0 .. Ring - 1
    BY <1>0, <1>1 DEF Slots
  <2> QED BY <1>0, <1>1, <2>1
<1>2. CASE a < b
  <2>1. a - b + Ring \in 0 .. Ring - 1
    BY <1>0, <1>2 DEF Slots
  <2> QED BY <1>0, <1>2, <2>1
<1> QED BY <1>0, <1>1, <1>2

\* The slots from t to h.
Between(t, h) == {i \in Slots : (i - t) % Ring < (h - t) % Ring}

\* Those from t on and below h, across the end of the ring if h is lower.
LEMMA BetweenIs ==
  ASSUME NEW t \in Slots, NEW h \in Slots
  PROVE  /\ \A i \in Slots : i \in Between(t, h) <=> IF t <= h THEN t <= i /\ i < h ELSE t <= i \/ i < h
         /\ h \notin Between(t, h)
<1>0. \A i \in Slots : i \in Nat /\ i < Ring
  BY SlotNumbers
<1>1. Ring \in Nat
  BY SizeAssumption DEF Ring
<1>2. ASSUME NEW i \in Slots
      PROVE  i \in Between(t, h) <=> IF t <= h THEN t <= i /\ i < h ELSE t <= i \/ i < h
  <2>1. (i - t) % Ring = IF i >= t THEN i - t ELSE i - t + Ring
    BY Distance
  <2>2. (h - t) % Ring = IF h >= t THEN h - t ELSE h - t + Ring
    BY Distance
  <2>3. i \in Between(t, h) <=> (i - t) % Ring < (h - t) % Ring
    BY DEF Between
  <2> QED BY <1>0, <1>1, <2>1, <2>2, <2>3
<1> QED BY <1>0, <1>2

\* Taking from the ring shortens it at the tail, if it is not empty.
LEMMA TailMoves ==
  ASSUME NEW t \in Slots, NEW h \in Slots, t # h
  PROVE  t \in Between(t, h) /\ Between(NextSlot(t), h) = Between(t, h) \ {t}
<1>0. \A i \in Slots : i \in Nat /\ i < Ring
  BY SlotNumbers
<1>1. NextSlot(t) \in Slots /\ NextSlot(t) = (IF t = Ring - 1 THEN 0 ELSE t + 1) /\ Ring \in Nat
  BY NextSlotType, NextIs, SizeAssumption DEF Ring
<1>2. \A i \in Slots : i \in Between(t, h) <=> IF t <= h THEN t <= i /\ i < h ELSE t <= i \/ i < h
  BY BetweenIs
<1>3. \A i \in Slots : i \in Between(NextSlot(t), h) <=>
          IF NextSlot(t) <= h THEN NextSlot(t) <= i /\ i < h ELSE NextSlot(t) <= i \/ i < h
  BY <1>1, BetweenIs
<1>4. Between(t, h) \subseteq Slots /\ Between(NextSlot(t), h) \subseteq Slots
  BY DEF Between
<1>5. \A i \in Slots : i \in Between(NextSlot(t), h) <=> i \in Between(t, h) /\ i # t
  BY <1>0, <1>1, <1>2, <1>3
<1>6. t \in Between(t, h)
  BY <1>0, <1>2
<1> QED BY <1>4, <1>5, <1>6

\* Giving back makes it longer at the head, if it is not full.
LEMMA HeadMoves ==
  ASSUME NEW t \in Slots, NEW h \in Slots, t # NextSlot(h)
  PROVE  Between(t, NextSlot(h)) = Between(t, h) \cup {h}
<1>0. \A i \in Slots : i \in Nat /\ i < Ring
  BY SlotNumbers
<1>1. NextSlot(h) \in Slots /\ NextSlot(h) = (IF h = Ring - 1 THEN 0 ELSE h + 1) /\ Ring \in Nat
  BY NextSlotType, NextIs, SizeAssumption DEF Ring
<1>2. \A i \in Slots : i \in Between(t, h) <=> IF t <= h THEN t <= i /\ i < h ELSE t <= i \/ i < h
  BY BetweenIs
<1>3. \A i \in Slots : i \in Between(t, NextSlot(h)) <=>
          IF t <= NextSlot(h) THEN t <= i /\ i < NextSlot(h) ELSE t <= i \/ i < NextSlot(h)
  BY <1>1, BetweenIs
<1>4. Between(t, h) \subseteq Slots /\ Between(t, NextSlot(h)) \subseteq Slots
  BY DEF Between
<1>5. \A i \in Slots : i \in Between(t, NextSlot(h)) <=> i \in Between(t, h) \/ i = h
  BY <1>0, <1>1, <1>2, <1>3
<1> QED BY <1>4, <1>5

\* A full ring has all slots but that of the head.
LEMMA FullRing ==
  ASSUME NEW t \in Slots, NEW h \in Slots, t = NextSlot(h)
  PROVE  Between(t, h) = Slots \ {h}
<1>0. \A i \in Slots : i \in Nat /\ i < Ring
  BY SlotNumbers
<1>1. t = (IF h = Ring - 1 THEN 0 ELSE h + 1) /\ Ring \in Nat
  BY NextIs, SizeAssumption DEF Ring
<1>2. \A i \in Slots : i \in Between(t, h) <=> IF t <= h THEN t <= i /\ i < h ELSE t <= i \/ i < h
  BY BetweenIs
<1>3. Between(t, h) \subseteq Slots
  BY DEF Between
<1>4. \A i \in Slots : i \in Between(t, h) <=> i # h
  BY <1>0, <1>1, <1>2
<1> QED BY <1>3, <1>4

\* There are more slots than items, so the ring is not full while some item is elsewhere.
LEMMA NotFull ==
  ASSUME NEW t \in Slots, NEW h \in Slots, NEW f \in [Slots -> Items \cup {NIL}], NEW x \in Items,
         \A i \in Between(t, h) : f[i] \in Items \ {x},
         \A i, j \in Between(t, h) : f[i] = f[j] => i = j
  PROVE  t # NextSlot(h)
<1> SUFFICES ASSUME t = NextSlot(h) PROVE FALSE
  OBVIOUS
<1> DEFINE B == Slots \ {h}
           g == [i \in B |-> f[i]]
<1>1. Between(t, h) = B
  BY FullRing
<1>2. IsFiniteSet(Slots) /\ Cardinality(Slots) = cItems + Slack
  <2>1. 0 \in Int /\ Ring - 1 \in Int /\ ~(0 > Ring - 1) /\ (Ring - 1) - 0 + 1 = cItems + Slack
    BY SizeAssumption DEF Ring
  <2> QED BY <2>1, FS_Interval DEF Slots
<1>3. Cardinality(B) = cItems + Slack - 1
  <2>1. Cardinality(Slots \ {h}) = Cardinality(Slots) - 1
    BY <1>2, FS_RemoveElement
  <2> QED BY <1>2, <2>1, SizeAssumption
<1>4. IsFiniteSet(Items) /\ Cardinality(Items) = cItems
  <2>1. 1 \in Int /\ cItems \in Int /\ ~(1 > cItems) /\ cItems - 1 + 1 = cItems
    BY SizeAssumption
  <2> QED BY <2>1, FS_Interval DEF Items
<1>5. IsFiniteSet(Items \ {x}) /\ Cardinality(Items \ {x}) = cItems - 1
  BY <1>4, FS_RemoveElement
<1> HIDE DEF B
<1>6. g \in Injection(B, Items \ {x})
  <2>1. g \in [B -> Items \ {x}]
    BY <1>1
  <2>2. \A i, j \in B : g[i] = g[j] => i = j
    BY <1>1
  <2> HIDE DEF g
  <2> QED BY <2>1, <2>2 DEF Injection, IsInjective
<1>7. Cardinality(B) <= Cardinality(Items \ {x})
  BY <1>5, <1>6, FS_Injection
<1> QED BY <1>3, <1>5, <1>7, SizeAssumption

-----------------------------------------------------------------------------
(* Items move from one place to another *)

\* Whatever of one place goes to another one, every item is still in one place.
LEMMA ItemsMove ==
  ASSUME NEW h, NEW g, NEW A \in Places, NEW B \in Places, A # B, NEW M,
         M \subseteq h[A], g[A] = h[A] \ M, g[B] = h[B] \cup M,
         \A pl \in Places \ {A, B} : g[pl] = h[pl],
         InOnePlace(h)
  PROVE  InOnePlace(g)
<1> SUFFICES ASSUME NEW x \in Items PROVE \E pl \in Places : \A ql \in Places : x \in g[ql] <=> ql = pl
  BY DEF InOnePlace
<1>1. PICK pl \in Places : \A ql \in Places : x \in h[ql] <=> ql = pl
  BY DEF InOnePlace
<1>2. CASE x \in M
  <2>1. pl = A
    BY <1>1, <1>2
  <2>2. \A ql \in Places : x \in g[ql] <=> ql = B
    BY <1>1, <1>2, <2>1
  <2> QED BY <2>2
<1>3. CASE x \notin M
  <2>1. \A ql \in Places : x \in g[ql] <=> ql = pl
    BY <1>1, <1>3
  <2> QED BY <2>1
<1> QED BY <1>2, <1>3

\* The places.
LEMMA PlacesAre ==
  /\ \A pl \in Places :
        \/ pl = <<"free", NIL>>
        \/ \E p \in Producers : pl = <<"held", p>>
        \/ \E c \in AllContexts : pl = <<"list", c>>
        \/ \E e \in Emts : pl = <<"hand", e>>
  /\ <<"free", NIL>> \in Places
  /\ \A p \in Producers : <<"held", p>> \in Places
  /\ \A c \in AllContexts : <<"list", c>> \in Places
  /\ \A e \in Emts : <<"hand", e>> \in Places
BY DEF Places

\* What is in them.
LEMMA ContentsAre ==
  /\ contents[<<"free", NIL>>] = FreeItems
  /\ \A p \in Producers : contents[<<"held", p>>] = HeldBy(p)
  /\ \A c \in AllContexts : contents[<<"list", c>>] = ToSet(pPending[c])
  /\ \A e \in Emts : contents[<<"hand", e>>] = ToSet(pItems[e])
BY PlacesAre DEF contents, Content

\* Where there are other items, there is none of these.
LEMMA Apart ==
  ASSUME FlushTypes, InOnePlace(contents)
  PROVE  /\ \A p \in Producers, c \in AllContexts : HeldBy(p) \cap ToSet(pPending[c]) \cap Items = {}
         /\ \A p \in Producers, e \in Emts : HeldBy(p) \cap ToSet(pItems[e]) \cap Items = {}
         /\ \A c \in AllContexts, e \in Emts : ToSet(pPending[c]) \cap ToSet(pItems[e]) \cap Items = {}
         /\ \A c, d \in AllContexts : c # d => ToSet(pPending[c]) \cap ToSet(pPending[d]) \cap Items = {}
         /\ \A e \in Emts : FreeItems \cap ToSet(pItems[e]) \cap Items = {}
<1>1. ASSUME NEW x \in Items, NEW A \in Places, NEW B \in Places, A # B, x \in contents[A], x \in contents[B]
      PROVE  FALSE
  BY <1>1 DEF InOnePlace
<1>2. ASSUME NEW p \in Producers, NEW c \in AllContexts, NEW x \in HeldBy(p) \cap ToSet(pPending[c]) \cap Items
      PROVE  FALSE
  BY <1>1, <1>2, PlacesAre, ContentsAre
<1>3. ASSUME NEW p \in Producers, NEW e \in Emts, NEW x \in HeldBy(p) \cap ToSet(pItems[e]) \cap Items
      PROVE  FALSE
  BY <1>1, <1>3, PlacesAre, ContentsAre
<1>4. ASSUME NEW c \in AllContexts, NEW e \in Emts, NEW x \in ToSet(pPending[c]) \cap ToSet(pItems[e]) \cap Items
      PROVE  FALSE
  BY <1>1, <1>4, PlacesAre, ContentsAre
<1>5. ASSUME NEW c \in AllContexts, NEW d \in AllContexts, c # d,
             NEW x \in ToSet(pPending[c]) \cap ToSet(pPending[d]) \cap Items
      PROVE  FALSE
  <2>1. <<"list", c>> # <<"list", d>>
    BY <1>5
  <2> QED BY <1>1, <1>5, <2>1, PlacesAre, ContentsAre
<1>6. ASSUME NEW e \in Emts, NEW x \in FreeItems \cap ToSet(pItems[e]) \cap Items
      PROVE  FALSE
  BY <1>1, <1>6, PlacesAre, ContentsAre
<1> QED BY <1>2, <1>3, <1>4, <1>5, <1>6

\* The lists hold items.
LEMMA ListsOfItems ==
  ASSUME FlushTypes
  PROVE  /\ \A c \in AllContexts : pPending[c] \in Seq(Items) /\ ToSet(pPending[c]) \subseteq Items
         /\ \A e \in Emts : pItems[e] \in Seq(Items) /\ ToSet(pItems[e]) \subseteq Items
<1>1. \A s \in Seq(Items) : ToSet(s) \subseteq Items
  BY DEF ToSet
<1> QED BY <1>1 DEF FlushTypes, TypeOK

\* The free slots are those between the tail and the head.
LEMMA FreeAreBetween == FreeSlots = Between(iFreeTail, iFreeHead) /\ FreeSlots' = Between(iFreeTail', iFreeHead')
BY DEF FreeSlots, Between

\* The part of the state that says where the items are stays.
Still ==
  /\ FreeSlots' = FreeSlots /\ \A i \in FreeSlots : aFreeItems'[i] = aFreeItems[i]
  /\ \A p \in Producers : HeldBy(p)' = HeldBy(p)
  /\ pPending' = pPending /\ pItems' = pItems

\* Nothing moves.
LEMMA OnceStill == ASSUME OnceInv, Still PROVE OnceInv'
<1>1. FreeItems' = FreeItems
  BY DEF Still, FreeItems
<1>2. contents' = contents
  <2>1. \A pl \in Places : Content(pl)' = Content(pl)
    <3> SUFFICES ASSUME NEW pl \in Places PROVE Content(pl)' = Content(pl)
      OBVIOUS
    <3> QED BY <1>1, PlacesAre DEF Still, Content
  <2> QED BY <2>1 DEF contents
<1>3. Distinct'
  BY DEF OnceInv, Distinct, Still
<1> QED BY <1>2, <1>3 DEF OnceInv, InOnePlace

\* The same after a step.
LEMMA ContentsWillBe ==
  /\ contents'[<<"free", NIL>>] = FreeItems'
  /\ \A p \in Producers : contents'[<<"held", p>>] = HeldBy(p)'
  /\ \A c \in AllContexts : contents'[<<"list", c>>] = ToSet(pPending'[c])
  /\ \A e \in Emts : contents'[<<"hand", e>>] = ToSet(pItems'[e])
BY PlacesAre DEF contents, Content

\* PDMQueueAlloc takes an item from the ring.
LEMMA OnceTake ==
  ASSUME IInv, NothingStale, OnceInv, NEW p \in Producers, AllocTake(p)
  PROVE  OnceInv'
<1> DEFINE x == pNew[p]
           A == <<"free", NIL>>
           B == <<"held", p>>
<1>1. /\ ppc[p] = "cas" /\ iFreeTail # iFreeHead /\ x = aFreeItems[iFreeTail]
      /\ iFreeTail \in Slots /\ iFreeHead \in Slots /\ iFreeTail' = NextSlot(iFreeTail)
      /\ iFreeHead' = iFreeHead /\ aFreeItems' = aFreeItems /\ pPending' = pPending /\ pItems' = pItems
      /\ pNew' = pNew /\ ppc' = [ppc EXCEPT ![p] = "push"]
      /\ ppc \in [Producers -> {"idle", "retry", "cas", "push", "setff", "setpending"}]
  BY DEF AllocTake, NothingStale, Exhausted, IInv, FlushTypes, TypeOK, emtVars
<1>2. iFreeTail \in FreeSlots /\ FreeSlots' = FreeSlots \ {iFreeTail}
  BY <1>1, FreeAreBetween, TailMoves
<1>3. Distinct'
  BY <1>1, <1>2 DEF OnceInv, Distinct
<1>4. FreeItems' = FreeItems \ {x} /\ x \in FreeItems
  BY <1>1, <1>2 DEF FreeItems, OnceInv, Distinct
<1>5. HeldBy(p) = {} /\ HeldBy(p)' = {x} /\ \A q \in Producers \ {p} : HeldBy(q)' = HeldBy(q)
  BY <1>1 DEF HeldBy
<1>6. A \in Places /\ B \in Places /\ A # B
  BY PlacesAre
<1>7. contents'[A] = contents[A] \ {x} /\ contents'[B] = contents[B] \cup {x} /\ {x} \subseteq contents[A]
  BY <1>4, <1>5, ContentsAre, ContentsWillBe
<1>8. \A pl \in Places \ {A, B} : contents'[pl] = contents[pl]
  BY <1>1, <1>5, PlacesAre, ContentsAre, ContentsWillBe
<1> HIDE DEF x, A, B
<1>9. InOnePlace(contents')
  BY <1>6, <1>7, <1>8, ItemsMove DEF OnceInv
<1> QED BY <1>3, <1>9 DEF OnceInv, InOnePlace

\* PDMQueueInsert pushes it on a list.
LEMMA OncePush ==
  ASSUME IInv, OnceInv, NEW p \in Producers, InsertPush(p)
  PROVE  OnceInv'
<1>0. PICK c \in Contexts : pPending' = [pPending EXCEPT ![c] = <<pNew[p]>> \o @]
  BY DEF InsertPush
<1> DEFINE x == pNew[p]
           A == <<"held", p>>
           B == <<"list", c>>
<1>1. /\ c \in AllContexts /\ ppc[p] = "push" /\ x \in Items
      /\ aFreeItems' = aFreeItems /\ FreeSlots' = FreeSlots /\ pItems' = pItems
      /\ ppc'[p] # "push" /\ \A q \in Producers \ {p} : ppc'[q] = ppc[q] /\ pNew'[q] = pNew[q]
  BY ContextsAssumption DEF InsertPush, IInv, RingInv, FlushTypes, TypeOK, AllContexts, FreeSlots, ringVars, emtVars
<1>2. HeldBy(p) = {x} /\ HeldBy(p)' = {} /\ \A q \in Producers \ {p} : HeldBy(q)' = HeldBy(q)
  BY <1>1 DEF HeldBy
<1>3. FreeItems' = FreeItems
  BY <1>1 DEF FreeItems
<1>4. /\ pPending'[c] = <<x>> \o pPending[c] /\ \A d \in AllContexts \ {c} : pPending'[d] = pPending[d]
      /\ pPending[c] \in Seq(Items)
  BY <1>0, <1>1 DEF IInv, FlushTypes, TypeOK
<1>6. x \notin ToSet(pPending[c])
  BY <1>1, <1>2, Apart DEF OnceInv, IInv
<1>7. ToSet(pPending'[c]) = ToSet(pPending[c]) \cup {x} /\ IsInjective(pPending'[c])
  <2>1. IsInjective(pPending[c])
    BY <1>1 DEF OnceInv, Distinct
  <2>2. PICK y \in Items : y = x
    BY <1>1
  <2>3. ToSet(<<y>> \o pPending[c]) = ToSet(pPending[c]) \cup {y} /\ IsInjective(<<y>> \o pPending[c])
    BY <1>4, <1>6, <2>1, <2>2, PushedOnList
  <2> QED BY <1>4, <2>2, <2>3
<1>8. Distinct'
  BY <1>1, <1>4, <1>7 DEF OnceInv, Distinct
<1>9. A \in Places /\ B \in Places /\ A # B
  BY <1>1, PlacesAre
<1>10. contents'[A] = contents[A] \ {x} /\ contents'[B] = contents[B] \cup {x} /\ {x} \subseteq contents[A]
  BY <1>1, <1>2, <1>7, ContentsAre, ContentsWillBe
<1>11. \A pl \in Places \ {A, B} : contents'[pl] = contents[pl]
  BY <1>1, <1>2, <1>3, <1>4, PlacesAre, ContentsAre, ContentsWillBe
<1> HIDE DEF x, A, B
<1>12. InOnePlace(contents')
  BY <1>9, <1>10, <1>11, ItemsMove DEF OnceInv
<1> QED BY <1>8, <1>12 DEF OnceInv, InOnePlace

\* All that is on a list goes to the EMT that flushes, in one order or the other.
LEMMA OnceTaken ==
  ASSUME IInv, OnceInv, NEW e \in Emts, NEW c \in AllContexts, NEW s,
         UNCHANGED <<ringVars, prodVars>>,
         pPending' = [pPending EXCEPT ![c] = <<>>],
         pItems' = [pItems EXCEPT ![e] = s],
         s \in Seq(Items), ToSet(s) = ToSet(pPending[c]) \cup ToSet(pItems[e]), IsInjective(s)
  PROVE  OnceInv'
<1> DEFINE A == <<"list", c>>
           B == <<"hand", e>>
           M == ToSet(pPending[c])
<1>1. /\ pPending'[c] = <<>> /\ \A d \in AllContexts \ {c} : pPending'[d] = pPending[d]
      /\ pItems'[e] = s /\ \A f \in Emts \ {e} : pItems'[f] = pItems[f]
  BY DEF IInv, FlushTypes, TypeOK
<1>2. FreeItems' = FreeItems /\ \A p \in Producers : HeldBy(p)' = HeldBy(p)
  BY DEF Still, FreeItems, HeldBy, FreeSlots, ringVars, prodVars
<1>3. Distinct'
  <2>1. \A i, j \in FreeSlots' : aFreeItems'[i] = aFreeItems'[j] => i = j
    BY DEF OnceInv, Distinct, Still, FreeSlots, ringVars
  <2> QED BY <1>1, <2>1, EmptyList DEF OnceInv, Distinct
<1>4. A \in Places /\ B \in Places /\ A # B
  BY PlacesAre
<1>5. contents'[A] = contents[A] \ M /\ contents'[B] = contents[B] \cup M /\ M \subseteq contents[A]
  BY <1>1, EmptyList, ContentsAre, ContentsWillBe
<1>6. \A pl \in Places \ {A, B} : contents'[pl] = contents[pl]
  BY <1>1, <1>2, PlacesAre, ContentsAre, ContentsWillBe
<1> HIDE DEF A, B, M
<1>7. InOnePlace(contents')
  BY <1>4, <1>5, <1>6, ItemsMove DEF OnceInv
<1> QED BY <1>3, <1>7 DEF OnceInv, InOnePlace

\* The free slots hold items, never NIL.
LEMMA FreeHoldItems ==
  ASSUME IInv
  PROVE  /\ iFreeTail \in Slots /\ iFreeHead \in Slots /\ aFreeItems \in [Slots -> Items \cup {NIL}]
         /\ FreeSlots = Between(iFreeTail, iFreeHead) /\ FreeSlots \subseteq Slots /\ iFreeHead \notin FreeSlots
         /\ \A i \in FreeSlots : aFreeItems[i] \in Items
<1>1. iFreeTail \in Slots /\ iFreeHead \in Slots /\ aFreeItems \in [Slots -> Items \cup {NIL}]
  BY DEF IInv, FlushTypes, TypeOK
<1>2. FreeSlots = Between(iFreeTail, iFreeHead) /\ FreeSlots \subseteq Slots
  BY FreeAreBetween DEF FreeSlots
<1>3. iFreeHead \notin FreeSlots
  BY <1>1, <1>2, BetweenIs
<1>4. ASSUME NEW i \in FreeSlots PROVE aFreeItems[i] \in Items
  <2>1. i \in Slots /\ IF iFreeTail <= iFreeHead THEN iFreeTail <= i /\ i < iFreeHead ELSE iFreeTail <= i \/ i < iFreeHead
    BY <1>1, <1>2, BetweenIs
  <2>2. i \in Nat /\ iFreeHead \in Nat
    BY <1>1, <2>1, SlotNumbers
  <2>3. aFreeItems[i] # NIL
    BY <2>1, <2>2 DEF IInv, RingInv
  <2> QED BY <1>1, <2>1, <2>3
<1> QED BY <1>1, <1>2, <1>3, <1>4

\* While an EMT has an item in its hands, the ring of free items is not full.
LEMMA RoomInRing ==
  ASSUME IInv, OnceInv, NEW e \in Emts, pItems[e] # <<>>
  PROVE  iFreeTail # NextSlot(iFreeHead) /\ Head(pItems[e]) \notin FreeItems
<1>1. PICK x \in Items : x = Head(pItems[e]) /\ x \in ToSet(pItems[e])
  BY ListsOfItems, TailOfList DEF IInv
<1>2. x \notin FreeItems
  BY <1>1, Apart DEF IInv, OnceInv
<1>3. \A i \in Between(iFreeTail, iFreeHead) : aFreeItems[i] \in Items \ {x}
  BY <1>2, FreeHoldItems DEF FreeItems
<1>4. \A i, j \in Between(iFreeTail, iFreeHead) : aFreeItems[i] = aFreeItems[j] => i = j
  BY FreeHoldItems DEF OnceInv, Distinct
<1>5. iFreeTail # NextSlot(iFreeHead)
  BY <1>3, <1>4, FreeHoldItems, NotFull
<1> QED BY <1>1, <1>2, <1>5

\* pdmR3QueueFree gives it back to the ring.
LEMMA OnceFreed ==
  ASSUME IInv, OnceInv, NEW e \in Emts, FreeAdvance(e)
  PROVE  OnceInv'
<1> DEFINE A == <<"hand", e>>
           B == <<"free", NIL>>
<1>1. /\ pItems[e] # <<>> /\ iHead[e] = iFreeHead /\ aFreeItems[iFreeHead] = Head(pItems[e])
      /\ iFreeHead' = NextSlot(iFreeHead) /\ iFreeTail' = iFreeTail /\ aFreeItems' = aFreeItems
      /\ pPending' = pPending /\ ppc' = ppc /\ pNew' = pNew
      /\ pItems'[e] = Tail(pItems[e]) /\ \A f \in Emts \ {e} : pItems'[f] = pItems[f]
  BY DEF IInv, FlushTypes, TypeOK, RingInv, NobodyRacesUs, FreeAdvance, prodVars
<1>2. PICK x \in Items : x = Head(pItems[e])
  BY <1>1, ListsOfItems, TailOfList DEF IInv
<1>3. IsInjective(pItems'[e]) /\ ToSet(pItems'[e]) = ToSet(pItems[e]) \ {x} /\ x \in ToSet(pItems[e])
  BY <1>1, <1>2, ListsOfItems, TailOfList DEF IInv, OnceInv, Distinct
<1>4. FreeSlots' = FreeSlots \cup {iFreeHead} /\ x \notin FreeItems
  BY <1>1, <1>2, RoomInRing, HeadMoves, FreeHoldItems, FreeAreBetween
<1>5. FreeItems' = FreeItems \cup {x}
  BY <1>1, <1>2, <1>4 DEF FreeItems
<1>6. Distinct'
  <2>1. \A i \in FreeSlots : aFreeItems[i] # x
    BY <1>4 DEF FreeItems
  <2>2. \A i, j \in FreeSlots' : aFreeItems'[i] = aFreeItems'[j] => i = j
    BY <1>1, <1>2, <1>4, <2>1 DEF OnceInv, Distinct
  <2> QED BY <1>1, <1>3, <2>2 DEF OnceInv, Distinct
<1>7. \A p \in Producers : HeldBy(p)' = HeldBy(p)
  BY <1>1 DEF HeldBy
<1>8. A \in Places /\ B \in Places /\ A # B
  BY PlacesAre
<1>9. contents'[A] = contents[A] \ {x} /\ contents'[B] = contents[B] \cup {x} /\ {x} \subseteq contents[A]
  BY <1>3, <1>5, ContentsAre, ContentsWillBe
<1>10. \A pl \in Places \ {A, B} : contents'[pl] = contents[pl]
  BY <1>1, <1>7, PlacesAre, ContentsAre, ContentsWillBe
<1> HIDE DEF A, B
<1>11. InOnePlace(contents')
  BY <1>8, <1>9, <1>10, ItemsMove DEF OnceInv
<1> QED BY <1>6, <1>11 DEF OnceInv, InOnePlace

\* The three lists are taken, the older items behind the newer ones.
LEMMA OnceTakeList ==
  ASSUME IInv, OnceInv, NEW e \in Emts, TakeList(e)
  PROVE  OnceInv'
<1>1. PICK step \in {<<"R3", "RC">>, <<"RC", "R0">>, <<"R0", "feed">>} :
          /\ pItems' = [pItems EXCEPT ![e] = OldestFirst(pPending[step[1]]) \o @]
          /\ pPending' = [pPending EXCEPT ![step[1]] = <<>>]
          /\ UNCHANGED <<ringVars, flagVars, prodVars, iHead, cRefusals, inserted>>
  BY DEF TakeList
<1>2. PICK c \in AllContexts : c = step[1]
  BY DEF AllContexts
<1>3. /\ pPending[c] \in Seq(Items) /\ pItems[e] \in Seq(Items) /\ ToSet(pPending[c]) \cap ToSet(pItems[e]) = {}
      /\ IsInjective(pPending[c]) /\ IsInjective(pItems[e])
  BY ListsOfItems, Apart DEF IInv, OnceInv, Distinct
<1>4. PICK r \in Seq(Items) : r = OldestFirst(pPending[c]) /\ ToSet(r) = ToSet(pPending[c]) /\ IsInjective(r)
  BY <1>3, ReversedList DEF OldestFirst
<1>5. r \o pItems[e] \in Seq(Items) /\ ToSet(r \o pItems[e]) = ToSet(r) \cup ToSet(pItems[e]) /\ IsInjective(r \o pItems[e])
  BY <1>3, <1>4, JoinedLists
<1>6. PICK s \in Seq(Items) : /\ s = OldestFirst(pPending[c]) \o pItems[e] /\ IsInjective(s)
                              /\ ToSet(s) = ToSet(pPending[c]) \cup ToSet(pItems[e])
  BY <1>4, <1>5
<1>7. pItems' = [pItems EXCEPT ![e] = s] /\ pPending' = [pPending EXCEPT ![c] = <<>>]
  BY <1>1, <1>2, <1>6
<1> QED BY <1>1, <1>6, <1>7, OnceTaken

\* The newcomers are joined with what the consumer refused.
LEMMA OnceJoin ==
  ASSUME IInv, OnceInv, NEW e \in Emts, JoinNewcomers(e)
  PROVE  OnceInv'
<1>1. PICK c \in AllContexts : c = "R3"
  BY DEF AllContexts
<1>3. /\ pPending[c] \in Seq(Items) /\ pItems[e] \in Seq(Items) /\ ToSet(pPending[c]) \cap ToSet(pItems[e]) = {}
      /\ IsInjective(pPending[c]) /\ IsInjective(pItems[e])
  BY ListsOfItems, Apart DEF IInv, OnceInv, Distinct
<1>4. /\ pPending[c] \o pItems[e] \in Seq(Items) /\ IsInjective(pPending[c] \o pItems[e])
      /\ ToSet(pPending[c] \o pItems[e]) = ToSet(pPending[c]) \cup ToSet(pItems[e])
  BY <1>3, JoinedLists
<1>6. PICK s \in Seq(Items) : /\ s = pPending[c] \o pItems[e] /\ IsInjective(s)
                              /\ ToSet(s) = ToSet(pPending[c]) \cup ToSet(pItems[e])
  BY <1>4
<1>7. /\ pItems' = [pItems EXCEPT ![e] = s] /\ pPending' = [pPending EXCEPT ![c] = <<>>]
      /\ UNCHANGED <<ringVars, prodVars>>
  BY <1>1, <1>6 DEF JoinNewcomers, Join
<1> QED BY <1>6, <1>7, OnceTaken

\* The leftovers are turned round in the hands of the EMT,
LEMMA OnceRefused ==
  ASSUME IInv, OnceInv, NEW e \in Emts, ConsumerRefuses(e)
  PROVE  OnceInv'
<1>1. /\ pItems'[e] = Reverse(pItems[e]) /\ \A f \in Emts \ {e} : pItems'[f] = pItems[f]
      /\ UNCHANGED <<ringVars, pPending, prodVars>>
  BY DEF ConsumerRefuses, IInv, FlushTypes, TypeOK
<1>2. ToSet(pItems'[e]) = ToSet(pItems[e]) /\ IsInjective(pItems'[e])
  BY <1>1, ListsOfItems, ReversedList DEF IInv, OnceInv, Distinct
<1>3. /\ FreeItems' = FreeItems /\ FreeSlots' = FreeSlots /\ aFreeItems' = aFreeItems
      /\ \A p \in Producers : HeldBy(p)' = HeldBy(p)
  BY <1>1 DEF FreeItems, HeldBy, FreeSlots, ringVars, prodVars
<1>4. Distinct'
  BY <1>1, <1>2, <1>3 DEF OnceInv, Distinct
<1>5. contents' = contents
  <2>1. \A pl \in Places : Content(pl)' = Content(pl)
    <3> SUFFICES ASSUME NEW pl \in Places PROVE Content(pl)' = Content(pl)
      OBVIOUS
    <3> QED BY <1>1, <1>2, <1>3, PlacesAre DEF Content
  <2> QED BY <2>1 DEF contents
<1> QED BY <1>4, <1>5 DEF OnceInv, InOnePlace

\* and become the ring-3 list, if that is empty.
LEMMA OncePutBack ==
  ASSUME IInv, OnceInv, NEW e \in Emts, PutBack(e)
  PROVE  OnceInv'
<1>1. CASE pPending["R3"] # <<>>
  <2>1. Still
    BY <1>1 DEF PutBack, Still, FreeSlots, HeldBy, ringVars, prodVars
  <2> QED BY <2>1, OnceStill
<1>2. CASE pPending["R3"] = <<>>
  <2> DEFINE A == <<"hand", e>>
             B == <<"list", "R3">>
             M == ToSet(pItems[e])
  <2>1. /\ "R3" \in AllContexts /\ pPending'["R3"] = pItems[e] /\ pItems'[e] = <<>>
        /\ \A d \in AllContexts \ {"R3"} : pPending'[d] = pPending[d]
        /\ \A f \in Emts \ {e} : pItems'[f] = pItems[f]
        /\ UNCHANGED <<ringVars, prodVars>>
    BY <1>2 DEF PutBack, IInv, FlushTypes, TypeOK, AllContexts
  <2>2. /\ FreeItems' = FreeItems /\ FreeSlots' = FreeSlots /\ aFreeItems' = aFreeItems
        /\ \A p \in Producers : HeldBy(p)' = HeldBy(p)
    BY <2>1 DEF FreeItems, HeldBy, FreeSlots, ringVars, prodVars
  <2>3. Distinct'
    <3>1. \A c \in AllContexts : IsInjective(pPending'[c])
      BY <2>1 DEF OnceInv, Distinct
    <3>2. \A f \in Emts : IsInjective(pItems'[f])
      BY <2>1, EmptyList DEF OnceInv, Distinct
    <3> QED BY <2>2, <3>1, <3>2 DEF OnceInv, Distinct
  <2>4. A \in Places /\ B \in Places /\ A # B
    BY <2>1, PlacesAre
  <2>5. contents'[A] = contents[A] \ M /\ contents'[B] = contents[B] \cup M /\ M \subseteq contents[A]
    BY <1>2, <2>1, EmptyList, ContentsAre, ContentsWillBe
  <2>6. \A pl \in Places \ {A, B} : contents'[pl] = contents[pl]
    BY <2>1, <2>2, PlacesAre, ContentsAre, ContentsWillBe
  <2> HIDE DEF A, B, M
  <2>7. InOnePlace(contents')
    BY <2>4, <2>5, <2>6, ItemsMove DEF OnceInv
  <2> QED BY <2>3, <2>7 DEF OnceInv, InOnePlace
<1> QED BY <1>1, <1>2

\* Nothing else moves an item: what is stored in the ring is not in it before the head moves.
LEMMA OnceStep ==
  ASSUME IInv, NothingStale, OnceInv, [Next]_vars
  PROVE  OnceInv'
<1>1. ASSUME NEW p \in Producers, AllocRead(p) \/ AllocRetry(p) \/ InsertSetFF(p) \/ InsertSetPending(p)
      PROVE  OnceInv'
  <2>1. /\ UNCHANGED <<ringVars, pPending, pItems>>
        /\ \A q \in Producers : ppc'[q] = "push" <=> ppc[q] = "push"
        /\ \A q \in Producers : ppc[q] = "push" => pNew'[q] = pNew[q]
    BY <1>1 DEF AllocRead, AllocRetry, InsertSetFF, InsertSetPending, IInv, FlushTypes, TypeOK, emtVars
  <2>2. Still
    BY <2>1 DEF Still, FreeSlots, HeldBy, ringVars
  <2> QED BY <2>2, OnceStill
<1>2. ASSUME NEW e \in Emts, FlushAllStep(e) \/ TimerFires(e) \/ Look(e) \/ ConsumerTakes(e) \/ FlushDone(e)
      PROVE  OnceInv'
  <2>1. UNCHANGED <<ringVars, pPending, prodVars, pItems>>
    BY <1>2 DEF FlushAllStep, ForcedAction, ClearFF, TestAndSetActive, ClearPending, ClearActive,
       CheckAgain, TimerFires, Look, ConsumerTakes, FlushDone
  <2>2. Still
    BY <2>1 DEF Still, FreeSlots, HeldBy, ringVars, prodVars
  <2> QED BY <2>2, OnceStill
<1>3. ASSUME NEW e \in Emts, FreeStore(e) PROVE OnceInv'
  <2>1. /\ UNCHANGED <<iFreeHead, iFreeTail, pPending, prodVars, pItems>>
        /\ \A i \in Slots \ {iFreeHead} : aFreeItems'[i] = aFreeItems[i]
    BY <1>3 DEF FreeStore, IInv, FlushTypes, TypeOK
  <2>2. Still
    BY <2>1, FreeHoldItems DEF Still, FreeSlots, HeldBy, prodVars
  <2> QED BY <2>2, OnceStill
<1>4. ASSUME UNCHANGED vars PROVE OnceInv'
  <2>1. Still
    BY <1>4 DEF Still, FreeSlots, HeldBy, ringVars, prodVars, emtVars, vars
  <2> QED BY <2>1, OnceStill
<1> QED BY <1>1, <1>2, <1>3, <1>4, OnceTake, OncePush, OnceFreed, OnceTakeList, OnceJoin, OnceRefused,
           OncePutBack DEF Next, InsertStep, FlushStep

\* At first all items are in the ring.
LEMMA InitOnce == ASSUME Init PROVE OnceInv
<1>0. IInv
  BY InitIInv
<1>1. /\ iFreeTail = 0 /\ iFreeHead = cItems /\ cItems \in Nat \ {0} /\ 0 \in Slots /\ cItems \in Slots
      /\ \A i \in Slots : i \in Nat
  BY SizeAssumption, SlotNumbers DEF Init, Slots, Ring
<1>2. FreeSlots = 0 .. cItems - 1
  <2>1. FreeSlots = Between(0, cItems) /\ FreeSlots \subseteq Slots
    BY <1>0, <1>1, FreeHoldItems
  <2>2. \A i \in Slots : i \in Between(0, cItems) <=> 0 <= i /\ i < cItems
    BY <1>1, BetweenIs
  <2>3. 0 .. cItems - 1 \subseteq Slots
    BY SizeAssumption DEF Slots, Ring
  <2>4. \A i \in Slots : i \in FreeSlots <=> i \in 0 .. cItems - 1
    BY <1>1, <2>1, <2>2
  <2> QED BY <2>1, <2>3, <2>4
<1>3. \A i \in FreeSlots : aFreeItems[i] = i + 1
  BY <1>1, <1>2, SizeAssumption DEF Init, Slots, Ring
<1>4. FreeItems = Items
  <2>1. \A x \in Items : x - 1 \in FreeSlots /\ aFreeItems[x - 1] = x
    BY <1>1, <1>2, <1>3 DEF Items
  <2>2. \A i \in FreeSlots : aFreeItems[i] \in Items
    BY <1>0, FreeHoldItems
  <2> QED BY <2>1, <2>2 DEF FreeItems
<1>5. Distinct
  <2>1. \A i, j \in FreeSlots : aFreeItems[i] = aFreeItems[j] => i = j
    BY <1>1, <1>2, <1>3
  <2>2. \A c \in AllContexts : IsInjective(pPending[c])
    BY EmptyList DEF Init
  <2>3. \A e \in Emts : IsInjective(pItems[e])
    BY EmptyList DEF Init
  <2> QED BY <2>1, <2>2, <2>3 DEF Distinct
<1>6. /\ \A p \in Producers : HeldBy(p) = {}
      /\ \A c \in AllContexts : ToSet(pPending[c]) = {}
      /\ \A e \in Emts : ToSet(pItems[e]) = {}
  BY EmptyList DEF Init, HeldBy
<1>7. \A x \in Items : \A ql \in Places : x \in contents[ql] <=> ql = <<"free", NIL>>
  BY <1>4, <1>6, PlacesAre, ContentsAre
<1>8. InOnePlace(contents)
  BY <1>7, PlacesAre DEF InOnePlace
<1> QED BY <1>5, <1>8 DEF OnceInv

\* A set of which all members are the same has none or one.
LEMMA NoneOrOne ==
  ASSUME NEW P, \A a, b \in P : a = b
  PROVE  Cardinality(P) = IF P = {} THEN 0 ELSE 1
<1>1. CASE P = {}
  BY <1>1, FS_EmptySet
<1>2. CASE P # {}
  <2>1. PICK a : P = {a}
    BY <1>2
  <2> QED BY <1>2, <2>1, FS_Singleton
<1> QED BY <1>1, <1>2

\* How often something is on a list that has nothing twice.
LEMMA CountOnList ==
  ASSUME NEW s \in Seq(Items), IsInjective(s), NEW x
  PROVE  CountIn(x, s) = IF x \in ToSet(s) THEN 1 ELSE 0
<1> DEFINE P == {i \in DOMAIN s : s[i] = x}
<1>1. \A a, b \in P : a = b
  BY DEF IsInjective
<1>2. P = {} <=> x \notin ToSet(s)
  BY DEF ToSet
<1>3. Cardinality(P) = IF P = {} THEN 0 ELSE 1
  <2> HIDE DEF P
  <2> QED BY <1>1, NoneOrOne
<1> QED BY <1>2, <1>3 DEF CountIn

\* That every item is in one place is what EachItemOnce counts.
LEMMA OnceCounts == ASSUME IInv, OnceInv PROVE EachItemOnce
<1> SUFFICES ASSUME NEW x \in Items
             PROVE  LET free == {i \in FreeSlots : aFreeItems[i] = x}
                        held == {p \in Producers : ppc[p] = "push" /\ pNew[p] = x}
                        lists == {c \in AllContexts : CountIn(x, pPending[c]) > 0}
                        hands == {e \in Emts : CountIn(x, pItems[e]) > 0}
                    IN  /\ \A c \in lists : CountIn(x, pPending[c]) = 1
                        /\ \A e \in hands : CountIn(x, pItems[e]) = 1
                        /\ Cardinality(free) + Cardinality(held) + Cardinality(lists) + Cardinality(hands) = 1
  BY DEF EachItemOnce
<1> DEFINE free == {i \in FreeSlots : aFreeItems[i] = x}
           held == {p \in Producers : ppc[p] = "push" /\ pNew[p] = x}
           lists == {c \in AllContexts : CountIn(x, pPending[c]) > 0}
           hands == {e \in Emts : CountIn(x, pItems[e]) > 0}
<1>1. \A c \in AllContexts : CountIn(x, pPending[c]) = IF x \in ToSet(pPending[c]) THEN 1 ELSE 0
  BY CountOnList, ListsOfItems DEF IInv, OnceInv, Distinct
<1>2. \A e \in Emts : CountIn(x, pItems[e]) = IF x \in ToSet(pItems[e]) THEN 1 ELSE 0
  BY CountOnList, ListsOfItems DEF IInv, OnceInv, Distinct
<1>3. PICK pl \in Places : \A ql \in Places : x \in contents[ql] <=> ql = pl
  BY DEF OnceInv, InOnePlace
<1>4. lists = {c \in AllContexts : pl = <<"list", c>>}
  <2>1. \A c \in AllContexts : x \in ToSet(pPending[c]) <=> pl = <<"list", c>>
    BY <1>3, PlacesAre, ContentsAre
  <2>2. \A c \in AllContexts : CountIn(x, pPending[c]) > 0 <=> x \in ToSet(pPending[c])
    BY <1>1
  <2> QED BY <2>1, <2>2
<1>5. hands = {e \in Emts : pl = <<"hand", e>>}
  <2>1. \A e \in Emts : x \in ToSet(pItems[e]) <=> pl = <<"hand", e>>
    BY <1>3, PlacesAre, ContentsAre
  <2>2. \A e \in Emts : CountIn(x, pItems[e]) > 0 <=> x \in ToSet(pItems[e])
    BY <1>2
  <2> QED BY <2>1, <2>2
<1>6. held = {p \in Producers : pl = <<"held", p>>}
  <2>1. \A p \in Producers : ppc[p] = "push" /\ pNew[p] = x <=> pl = <<"held", p>>
    BY <1>3, PlacesAre, ContentsAre DEF HeldBy
  <2> QED BY <2>1
<1>7. (\A i, j \in free : i = j) /\ (free # {} <=> pl = <<"free", NIL>>)
  <2>1. \A i, j \in free : i = j
    BY DEF OnceInv, Distinct
  <2>2. free # {} <=> x \in FreeItems
    BY DEF FreeItems
  <2> QED BY <2>1, <2>2, <1>3, PlacesAre, ContentsAre
<1>8. /\ (\A a, b \in held : a = b) /\ (held # {} <=> \E p \in Producers : pl = <<"held", p>>)
      /\ (\A a, b \in lists : a = b) /\ (lists # {} <=> \E c \in AllContexts : pl = <<"list", c>>)
      /\ (\A a, b \in hands : a = b) /\ (hands # {} <=> \E e \in Emts : pl = <<"hand", e>>)
  BY <1>4, <1>5, <1>6
<1>9. (\A c \in lists : CountIn(x, pPending[c]) = 1) /\ (\A e \in hands : CountIn(x, pItems[e]) = 1)
  BY <1>1, <1>2
<1> HIDE DEF free, held, lists, hands
<1>10. /\ Cardinality(free) = IF free = {} THEN 0 ELSE 1
       /\ Cardinality(held) = IF held = {} THEN 0 ELSE 1
       /\ Cardinality(lists) = IF lists = {} THEN 0 ELSE 1
       /\ Cardinality(hands) = IF hands = {} THEN 0 ELSE 1
  BY <1>7, <1>8, NoneOrOne
<1>11. Cardinality(free) + Cardinality(held) + Cardinality(lists) + Cardinality(hands) = 1
  <2>1. CASE pl = <<"free", NIL>>
    BY <1>7, <1>8, <1>10, <2>1
  <2>2. CASE \E p \in Producers : pl = <<"held", p>>
    BY <1>7, <1>8, <1>10, <2>2
  <2>3. CASE \E c \in AllContexts : pl = <<"list", c>>
    BY <1>7, <1>8, <1>10, <2>3
  <2>4. CASE \E e \in Emts : pl = <<"hand", e>>
    BY <1>7, <1>8, <1>10, <2>4
  <2> QED BY <1>3, <2>1, <2>2, <2>3, <2>4, PlacesAre
<1> QED BY <1>9, <1>11 DEF free, held, lists, hands

\* No item is handed out twice or lost, in every behaviour in which no compare-exchange of
\* PDMQueueAlloc succeeds on a stale view: the view is the only thing that can go wrong.
THEOREM EachItemOnceUnlessStale == Spec /\ []NothingStale => []EachItemOnce
<1>1. Init => OnceInv
  BY InitOnce
<1>2. IInv /\ NothingStale /\ OnceInv /\ [Next]_vars => OnceInv'
  BY OnceStep
<1>3. IInv /\ OnceInv => EachItemOnce
  BY OnceCounts
<1> QED BY <1>1, <1>2, <1>3, Invariance, PTL DEF Spec

-----------------------------------------------------------------------------
(* Within one turn of the ring nothing is stale *)

\* The producers in PDMQueueAlloc are a finite set.
LEMMA BusyNumber ==
  /\ IsFiniteSet(Busy) /\ Cardinality(Busy) \in Nat
  /\ \A p \in Busy : Cardinality(Busy \ {p}) = Cardinality(Busy) - 1
  /\ \A p \in Producers \ Busy : Cardinality(Busy \cup {p}) = Cardinality(Busy) + 1
<1>1. IsFiniteSet(Busy)
  BY FiniteAssumption, FS_Subset DEF Busy
<1> QED BY <1>1, FS_CardinalityType, FS_RemoveElement, FS_AddElement

\* A producer that starts takes an allocation, one that gives up leaves.
LEMMA TurnRead ==
  ASSUME IInv, TurnInv, NEW p \in Producers, AllocRead(p)
  PROVE  TurnInv'
<1>0. /\ ppc \in [Producers -> {"idle", "retry", "cas", "push", "setff", "setpending"}]
      /\ iTail \in [Producers -> Slots] /\ cAllocs \in Nat
  BY BoundsAssumption DEF IInv, FlushTypes, TypeOK
<1>1. PICK n \in 0 .. Ring : /\ n + Cardinality(Busy) <= cAllocs
                             /\ iFreeTail = IF n = Ring THEN 0 ELSE n
                             /\ \A q \in Producers : ppc[q] = "cas" => iTail[q] <= n
  BY DEF TurnInv
<1>2. iFreeTail' = iFreeTail /\ iFreeTail <= n /\ n \in Nat
  BY <1>1, SlotNumbers DEF AllocRead, ringVars
<1>3. \A q \in Producers : ppc'[q] = "cas" => iTail'[q] <= n
  BY <1>0, <1>1, <1>2 DEF AllocRead
<1>4. n + Cardinality(Busy') <= cAllocs'
  <2>1. CASE ppc[p] = "idle"
    <3>1. cAllocs' = cAllocs + 1 /\ p \notin Busy
      BY <2>1 DEF AllocRead, Busy
    <3>2. Busy' = Busy \/ Busy' = Busy \cup {p}
      BY <1>0, <2>1 DEF AllocRead, Busy
    <3>3. Cardinality(Busy') = Cardinality(Busy) \/ Cardinality(Busy') = Cardinality(Busy) + 1
      BY <3>1, <3>2, BusyNumber
    <3> QED BY <1>0, <1>1, <1>2, <3>1, <3>3, BusyNumber
  <2>2. CASE ppc[p] # "idle"
    <3>1. cAllocs' = cAllocs /\ p \in Busy
      BY <2>2 DEF AllocRead, Busy
    <3>2. Busy' = Busy \/ Busy' = Busy \ {p}
      BY <1>0, <2>2 DEF AllocRead, Busy
    <3>3. Cardinality(Busy') = Cardinality(Busy) \/ Cardinality(Busy') = Cardinality(Busy) - 1
      BY <3>1, <3>2, BusyNumber
    <3> QED BY <1>0, <1>1, <1>2, <3>1, <3>3, BusyNumber
  <2> QED BY <2>1, <2>2
<1> QED BY <1>1, <1>2, <1>3, <1>4 DEF TurnInv

\* The tail moves on with one of the allocations; the last time nobody else is there to see it.
LEMMA TurnTake ==
  ASSUME MaxAllocs <= Ring, IInv, TurnInv, NothingStale, NEW p \in Producers, AllocTake(p)
  PROVE  TurnInv' /\ NothingStale'
<1>0. /\ ppc \in [Producers -> {"idle", "retry", "cas", "push", "setff", "setpending"}]
      /\ iTail \in [Producers -> Slots] /\ cAllocs \in Nat /\ cAllocs <= Ring /\ Ring \in Nat /\ iFreeTail \in Slots
  BY BoundsAssumption, SlotNumbers DEF IInv, FlushTypes, TypeOK
<1>1. PICK n \in 0 .. Ring : /\ n + Cardinality(Busy) <= cAllocs
                             /\ iFreeTail = IF n = Ring THEN 0 ELSE n
                             /\ \A q \in Producers : ppc[q] = "cas" => iTail[q] <= n
  BY DEF TurnInv
<1>2. /\ ppc[p] = "cas" /\ iFreeTail = iTail[p] /\ iFreeTail' = NextSlot(iFreeTail) /\ cAllocs' = cAllocs
      /\ iTail' = iTail /\ ppc' = [ppc EXCEPT ![p] = "push"]
  BY DEF AllocTake
<1>3. p \in Busy /\ Busy' = Busy \ {p}
  BY <1>0, <1>2 DEF Busy
<1>4. Cardinality(Busy) \in Nat /\ Cardinality(Busy') = Cardinality(Busy) - 1 /\ Cardinality(Busy') \in Nat
  <2>1. IsFiniteSet(Busy \ {p})
    BY BusyNumber, FS_Subset
  <2>2. Cardinality(Busy \ {p}) \in Nat
    BY <2>1, FS_CardinalityType
  <2> QED BY <1>3, <2>2, BusyNumber
<1>5. n \in Nat /\ n < Ring /\ iFreeTail = n
  BY <1>0, <1>1, <1>4
<1>6. /\ n + 1 \in 0 .. Ring /\ (n + 1) + Cardinality(Busy') <= cAllocs'
      /\ iFreeTail' = IF n + 1 = Ring THEN 0 ELSE n + 1
  <2>1. iFreeTail' = IF n = Ring - 1 THEN 0 ELSE n + 1
    BY <1>0, <1>2, <1>5, NextIs
  <2> QED BY <1>0, <1>1, <1>2, <1>4, <1>5, <2>1
<1>7. ASSUME NEW q \in Producers, ppc'[q] = "cas" PROVE iTail'[q] <= n + 1 /\ iTail'[q] # iFreeTail'
  <2>1. q # p /\ ppc[q] = "cas" /\ iTail'[q] = iTail[q] /\ iTail[q] <= n /\ iTail[q] \in Nat
    BY <1>0, <1>1, <1>2, <1>7, SlotNumbers
  <2>2. q \in Busy'
    BY <1>7 DEF Busy
  <2>3. Cardinality(Busy') # 0
    <3>1. IsFiniteSet(Busy')
      BY <1>3, BusyNumber, FS_Subset
    <3> QED BY <2>2, <3>1, FS_EmptySet
  <2>4. n + 1 < Ring
    BY <1>0, <1>1, <1>4, <1>5, <2>3
  <2> QED BY <1>5, <1>6, <2>1, <2>4
<1>8. TurnInv'
  <2>1. \A q \in Producers : ppc'[q] = "cas" => iTail'[q] <= n + 1
    BY <1>7
  <2> QED BY <1>6, <2>1 DEF TurnInv
<1>9. NothingStale'
  BY <1>7 DEF NothingStale
<1> QED BY <1>8, <1>9

\* Nothing else moves the tail, or lets a producer in.
LEMMA TurnStep ==
  ASSUME MaxAllocs <= Ring, IInv, TurnInv, NothingStale, [Next]_vars
  PROVE  TurnInv'
<1> DEFINE kept == /\ iFreeTail' = iFreeTail /\ cAllocs' = cAllocs /\ iTail' = iTail
                   /\ \A p \in Producers : /\ ppc'[p] = "cas" => ppc[p] = "cas"
                                           /\ ppc'[p] \in {"cas", "retry"} <=> ppc[p] \in {"cas", "retry"}
<1>1. ASSUME kept PROVE TurnInv'
  <2>1. Busy' = Busy
    BY <1>1 DEF Busy
  <2> QED BY <1>1, <2>1 DEF TurnInv
<1>2. ASSUME NEW p \in Producers, AllocRetry(p) \/ InsertPush(p) \/ InsertSetFF(p) \/ InsertSetPending(p)
      PROVE  kept
  BY <1>2 DEF AllocRetry, InsertPush, InsertSetFF, InsertSetPending, ringVars, IInv, FlushTypes, TypeOK
<1>3. ASSUME NEW e \in Emts, FlushAllStep(e) \/ FlushStep(e) \/ TimerFires(e) PROVE kept
  BY <1>3 DEF FlushAllStep, ForcedAction, ClearFF, TestAndSetActive, ClearPending, ClearActive,
     CheckAgain, FlushStep, TimerFires, Look, TakeList, ConsumerTakes, ConsumerRefuses, FlushDone,
     FreeStore, FreeAdvance, PutBack, JoinNewcomers, ringVars, prodVars
<1>4. ASSUME UNCHANGED vars PROVE kept
  BY <1>4 DEF ringVars, prodVars, vars
<1> HIDE DEF kept
<1> QED BY <1>1, <1>2, <1>3, <1>4, TurnRead, TurnTake DEF Next, InsertStep

\* A view gets stale by a move of the tail only: what is stored in the ring is stored at the
\* head, and the head does not reach the tail.
LEMMA StaleStep ==
  ASSUME MaxAllocs <= Ring, IInv, OnceInv, TurnInv, NothingStale, [Next]_vars
  PROVE  NothingStale'
<1>0. /\ ppc \in [Producers -> {"idle", "retry", "cas", "push", "setff", "setpending"}]
      /\ iTail \in [Producers -> Slots] /\ pNew \in [Producers -> Items \cup {NIL}]
  BY DEF IInv, FlushTypes, TypeOK
<1>1. ASSUME NEW p \in Producers, AllocRead(p) PROVE NothingStale'
  <2>1. UNCHANGED <<iFreeTail, iFreeHead, aFreeItems>>
    BY <1>1 DEF AllocRead, ringVars
  <2>2. ASSUME NEW q \in Producers, ppc'[q] = "cas", iFreeTail' = iTail'[q]
        PROVE  iFreeTail # iFreeHead /\ pNew'[q] = aFreeItems[iFreeTail]
    <3>1. CASE q = p
      BY <1>0, <1>1, <2>2, <3>1 DEF AllocRead, Exhausted
    <3>2. CASE q # p
      BY <1>0, <1>1, <2>1, <2>2, <3>2 DEF AllocRead, NothingStale, Exhausted
    <3> QED BY <3>1, <3>2
  <2> QED BY <2>1, <2>2 DEF NothingStale, Exhausted
<1> DEFINE kept == /\ iFreeTail' = iFreeTail /\ iTail' = iTail
                   /\ \A p \in Producers : ppc'[p] = "cas" => ppc[p] = "cas" /\ pNew'[p] = pNew[p]
<1>2. ASSUME kept, UNCHANGED <<iFreeHead, aFreeItems>> PROVE NothingStale'
  BY <1>2 DEF NothingStale, Exhausted
<1>3. ASSUME NEW p \in Producers, AllocRetry(p) \/ InsertPush(p) \/ InsertSetFF(p) \/ InsertSetPending(p)
      PROVE  kept /\ UNCHANGED <<iFreeHead, aFreeItems>>
  BY <1>0, <1>3 DEF AllocRetry, InsertPush, InsertSetFF, InsertSetPending, ringVars
<1>4. ASSUME NEW e \in Emts, \/ FlushAllStep(e) \/ TimerFires(e) \/ Look(e) \/ TakeList(e) \/ ConsumerTakes(e)
                             \/ ConsumerRefuses(e) \/ FlushDone(e) \/ PutBack(e) \/ JoinNewcomers(e)
      PROVE  kept /\ UNCHANGED <<iFreeHead, aFreeItems>>
  BY <1>4 DEF FlushAllStep, ForcedAction, ClearFF, TestAndSetActive, ClearPending, ClearActive,
     CheckAgain, TimerFires, Look, TakeList, ConsumerTakes, ConsumerRefuses, FlushDone,
     PutBack, JoinNewcomers, ringVars, prodVars
<1>5. ASSUME NEW e \in Emts, FreeStore(e) PROVE NothingStale'
  <2>1. kept /\ iFreeHead' = iFreeHead /\ \A i \in Slots \ {iFreeHead} : aFreeItems'[i] = aFreeItems[i]
    BY <1>5, FreeHoldItems DEF FreeStore, prodVars
  <2> QED BY <2>1, FreeHoldItems DEF NothingStale, Exhausted
<1>6. ASSUME NEW e \in Emts, FreeAdvance(e) PROVE NothingStale'
  <2>1. kept /\ aFreeItems' = aFreeItems /\ pItems[e] # <<>> /\ iFreeHead' = NextSlot(iFreeHead)
    BY <1>6 DEF FreeAdvance, prodVars, IInv, FlushTypes, NobodyRacesUs
  <2>2. iFreeTail' # iFreeHead'
    BY <2>1, RoomInRing
  <2> QED BY <2>1, <2>2 DEF NothingStale, Exhausted
<1>7. ASSUME UNCHANGED vars PROVE kept /\ UNCHANGED <<iFreeHead, aFreeItems>>
  BY <1>7 DEF ringVars, prodVars, vars
<1> HIDE DEF kept
<1> QED BY <1>1, <1>2, <1>3, <1>4, <1>5, <1>6, <1>7, TurnTake DEF Next, InsertStep, FlushStep

\* As long as the allocations are no more than the ring has slots, a compare-exchange of
\* PDMQueueAlloc that finds the tail where it was finds the item there as well.
THEOREM NothingStaleWithinATurn == MaxAllocs <= Ring => (Spec => []NothingStale)
<1> SUFFICES ASSUME MaxAllocs <= Ring PROVE Spec => []NothingStale
  OBVIOUS
<1>1. Init => TurnInv /\ NothingStale
  <2> SUFFICES ASSUME Init PROVE TurnInv /\ NothingStale
    OBVIOUS
  <2>1. Busy = {} /\ Cardinality({}) = 0
    BY FS_EmptySet DEF Init, Busy
  <2>2. 0 \in 0 .. Ring /\ 0 # Ring
    BY SizeAssumption DEF Ring
  <2>3. TurnInv
    BY <2>1, <2>2 DEF Init, TurnInv
  <2> QED BY <2>3 DEF Init, NothingStale
<1>2. IInv /\ OnceInv /\ TurnInv /\ NothingStale /\ [Next]_vars => TurnInv' /\ NothingStale'
  BY TurnStep, StaleStep
<1>3. Init => OnceInv
  BY InitOnce
<1>4. IInv /\ NothingStale /\ OnceInv /\ [Next]_vars => OnceInv'
  BY OnceStep
<1> QED BY <1>1, <1>2, <1>3, <1>4, Invariance, PTL DEF Spec

\* So no item is handed out twice or lost.  (Beyond that the tail can come back to where a
\* delayed producer has seen it.)
THEOREM EachItemOnceWithinATurn == MaxAllocs <= Ring => (Spec => []EachItemOnce)
<1> SUFFICES ASSUME MaxAllocs <= Ring PROVE Spec => []EachItemOnce
  OBVIOUS
<1>1. Spec => []NothingStale
  BY NothingStaleWithinATurn
<1> QED BY <1>1, EachItemOnceUnlessStale, PTL

-----------------------------------------------------------------------------
(* The items of a context reach the consumer in the order of their insertion.  The order
   of what has been inserted is kept on the way: in the hands of the EMT that flushes,
   then on the list of the context. *)

\* The contexts that InOrder is about.
InLine(c) == c = "R3" \/ cRefusals = 0

\* x is nearer to the consumer than y in the hands of an EMT; what was refused is turned round.
AheadInHand(e, x, y) ==
    IF pc[e] \in {"putback", "join"} THEN Precedes(pItems[e], y, x) ELSE Precedes(pItems[e], x, y)

InHand(x) == \E e \in Emts : x \in ToSet(pItems[e])

\* x is nearer to the consumer than y.
Ahead(c, x, y) ==
    \/ \E e \in Emts : AheadInHand(e, x, y)
    \/ InHand(x) /\ y \in ToSet(pPending[c])
    \/ Precedes(pPending[c], y, x)

\* At this label of pdmR3QueueFlush lists have been taken, but not that of c.
Untaken(c, label) == (c = "RC" /\ label = "RC") \/ (c = "R0" /\ label \in {"RC", "R0"})

\* Only an EMT that flushes has items in its hands, and puts back only what was refused.
HandsInv ==
    \A e \in Emts :
        /\ pc[e] \notin {"RC", "R0", "feed", "store", "free", "putback", "join"} => pItems[e] = <<>>
        /\ pc[e] \in {"putback", "join"} => cRefusals > 0

LineInv(c) ==
    /\ \A x \in ToSet(inserted[c]) : x \in ToSet(pPending[c]) \/ InHand(x)
    /\ \A x, y \in Items : Precedes(inserted[c], x, y) => Ahead(c, x, y)
    /\ \A e \in Emts : Untaken(c, pc[e]) => ToSet(inserted[c]) \cap ToSet(pItems[e]) = {}
    /\ \A e \in Emts : pc[e] \in {"store", "free"} => Head(pItems[e]) \notin ToSet(inserted[c])

OrderInv == HandsInv /\ \A c \in AllContexts : InLine(c) => LineInv(c)

\* What the steps below need of the other invariants.
OrderInvs == IInv /\ OnceInv /\ OrderInv

\* All that is in hands is in the hands of the EMT that flushes.
LEMMA OneHand ==
  ASSUME OrderInvs, NEW e \in Emts, Flushing(e)
  PROVE  /\ \A f \in Emts \ {e} : pItems[f] = <<>> /\ ~Flushing(f)
         /\ \A x : InHand(x) => x \in ToSet(pItems[e])
         /\ \A f \in Emts : \A x, y : AheadInHand(f, x, y) => f = e
<1>1. \A f \in Emts \ {e} : ~Flushing(f)
  BY DEF OrderInvs, IInv, OneFlusher
<1>2. \A f \in Emts \ {e} : pItems[f] = <<>>
  BY <1>1 DEF OrderInvs, OrderInv, HandsInv, Flushing
<1>3. ASSUME NEW x, InHand(x) PROVE x \in ToSet(pItems[e])
  BY <1>2, <1>3, EmptyList DEF InHand
<1>4. ASSUME NEW f \in Emts, NEW x, NEW y, AheadInHand(f, x, y) PROVE f = e
  <2>1. \A u, v : ~Precedes(<<>>, u, v)
    BY DEF Precedes
  <2> QED BY <1>2, <1>4, <2>1 DEF AheadInHand
<1> QED BY <1>1, <1>2, <1>3, <1>4

\* Lists, what was inserted, and the hands hold items, each once.
LEMMA OrderTypes ==
  ASSUME OrderInvs
  PROVE  /\ \A c \in AllContexts : /\ pPending[c] \in Seq(Items) /\ ToSet(pPending[c]) \subseteq Items
                                   /\ inserted[c] \in Seq(Items) /\ ToSet(inserted[c]) \subseteq Items
                                   /\ IsInjective(pPending[c])
         /\ \A e \in Emts : /\ pItems[e] \in Seq(Items) /\ ToSet(pItems[e]) \subseteq Items
                            /\ IsInjective(pItems[e])
         /\ pPending \in [AllContexts -> Seq(Items)] /\ pItems \in [Emts -> Seq(Items)]
         /\ inserted \in [AllContexts -> Seq(Items)] /\ cRefusals \in Nat /\ pc \in [Emts -> Labels]
<1>1. \A s \in Seq(Items) : ToSet(s) \subseteq Items
  BY DEF ToSet
<1> QED BY <1>1, BoundsAssumption DEF OrderInvs, IInv, FlushTypes, TypeOK, OnceInv, Distinct, Labels

\* An EMT that turns to another label with its hands as they are.
Turns ==
  /\ UNCHANGED <<pItems, pPending, inserted, cRefusals>>
  /\ \A e \in Emts :
        \/ pc'[e] = pc[e]
        \/ pItems[e] = <<>> /\ pc'[e] \notin {"RC", "R0", "store", "free", "putback", "join"}
        \/ pc[e] = "store" /\ pc'[e] = "free"
        \/ pc[e] = "putback" /\ pc'[e] = "join"

\* That does not touch the order.
LEMMA OrderTurns == ASSUME OrderInvs, Turns PROVE OrderInv'
<1>1. HandsInv'
  BY DEF OrderInvs, OrderInv, HandsInv, Turns
<1>2. \A e \in Emts : \A x, y : AheadInHand(e, x, y) => AheadInHand(e, x, y)'
  <2> SUFFICES ASSUME NEW e \in Emts, NEW x, NEW y, AheadInHand(e, x, y) PROVE AheadInHand(e, x, y)'
    OBVIOUS
  <2>1. pItems'[e] = pItems[e] /\ pItems[e] # <<>>
    <3>1. \A u, v : ~Precedes(<<>>, u, v)
      BY DEF Precedes
    <3> QED BY <3>1 DEF AheadInHand, Turns
  <2>2. pc'[e] \in {"putback", "join"} <=> pc[e] \in {"putback", "join"}
    BY <2>1 DEF Turns
  <2> QED BY <2>1, <2>2 DEF AheadInHand
<1>3. \A x : InHand(x)' <=> InHand(x)
  BY DEF InHand, Turns
<1>4. ASSUME NEW c \in AllContexts, InLine(c)' PROVE LineInv(c)'
  <2>1. LineInv(c)
    BY <1>4 DEF OrderInvs, OrderInv, InLine, Turns
  <2>2. \A x, y : Ahead(c, x, y) => Ahead(c, x, y)'
    BY <1>2, <1>3 DEF Ahead, Turns
  <2>3. \A e \in Emts : Untaken(c, pc'[e]) => ToSet(inserted'[c]) \cap ToSet(pItems'[e]) = {}
    BY <2>1 DEF LineInv, Untaken, Turns
  <2>4. \A e \in Emts : pc'[e] \in {"store", "free"} => Head(pItems'[e]) \notin ToSet(inserted'[c])
    BY <2>1 DEF LineInv, Turns
  <2>5. \A x \in ToSet(inserted'[c]) : x \in ToSet(pPending'[c]) \/ InHand(x)'
    BY <1>3, <2>1 DEF LineInv, Turns
  <2>6. \A x, y \in Items : Precedes(inserted'[c], x, y) => Ahead(c, x, y)'
    BY <2>1, <2>2 DEF LineInv, Turns
  <2> QED BY <2>3, <2>4, <2>5, <2>6 DEF LineInv
<1> QED BY <1>1, <1>4 DEF OrderInv

\* What is inserted is behind all that was inserted.
LEMMA OrderPush ==
  ASSUME OrderInvs, NEW p \in Producers, InsertPush(p)
  PROVE  /\ OrderInv'
         /\ \A c \in AllContexts : inserted'[c] = inserted[c] \/ \E x \in Items : inserted'[c] = Append(inserted[c], x)
<1>0. PICK c \in Contexts : /\ pPending' = [pPending EXCEPT ![c] = <<pNew[p]>> \o @]
                            /\ inserted' = [inserted EXCEPT ![c] = Append(@, pNew[p])]
  BY DEF InsertPush
<1>1. PICK z \in Items : z = pNew[p] /\ z \in HeldBy(p)
  BY DEF InsertPush, OrderInvs, IInv, RingInv, HeldBy
<1>2. /\ c \in AllContexts /\ pPending'[c] = <<z>> \o pPending[c] /\ inserted'[c] = Append(inserted[c], z)
      /\ \A d \in AllContexts \ {c} : pPending'[d] = pPending[d] /\ inserted'[d] = inserted[d]
      /\ UNCHANGED <<pc, pItems, cRefusals>>
  BY <1>0, <1>1, ContextsAssumption, OrderTypes DEF InsertPush, AllContexts, emtVars
<1>3. \A e \in Emts : z \notin ToSet(pItems[e])
  BY <1>1, Apart DEF OrderInvs, OnceInv, IInv
<1>4. HandsInv'
  BY <1>2 DEF OrderInvs, OrderInv, HandsInv
<1>5. /\ \A x : InHand(x)' <=> InHand(x)
      /\ \A e \in Emts : \A x, y : AheadInHand(e, x, y)' <=> AheadInHand(e, x, y)
  BY <1>2 DEF InHand, AheadInHand
<1>6. ASSUME NEW d \in AllContexts \ {c}, InLine(d)' PROVE LineInv(d)'
  <2>1. LineInv(d)
    BY <1>2, <1>6 DEF OrderInvs, OrderInv, InLine
  <2>2. \A x, y : Ahead(d, x, y)' <=> Ahead(d, x, y)
    BY <1>2, <1>5 DEF Ahead
  <2> QED BY <1>2, <1>5, <2>1, <2>2 DEF LineInv
<1>7. ASSUME InLine(c)' PROVE LineInv(c)'
  <2>1. LineInv(c)
    BY <1>2, <1>7 DEF OrderInvs, OrderInv, InLine
  <2>2. /\ ToSet(pPending'[c]) = ToSet(pPending[c]) \cup {z} /\ ToSet(inserted'[c]) = ToSet(inserted[c]) \cup {z}
    <3>1. pPending[c] \in Seq(Items) /\ inserted[c] \in Seq(Items)
      BY <1>2, OrderTypes
    <3>2. ToSet(<<z>> \o pPending[c]) = ToSet(pPending[c]) \cup {z}
      BY <3>1, PushedOnList
    <3>3. ToSet(Append(inserted[c], z)) = ToSet(inserted[c]) \cup {z}
      BY <3>1, PrecedesAppended
    <3> QED BY <1>2, <3>2, <3>3
  <2>3. ASSUME NEW x \in Items, NEW y \in Items, Ahead(c, x, y) PROVE Ahead(c, x, y)'
    <3>1. ASSUME Precedes(pPending[c], y, x) PROVE Precedes(pPending'[c], y, x)
      <4>1. PICK s \in Seq(Items) : s = <<z>>
        BY OneElement
      <4>2. Precedes(s \o pPending[c], y, x)
        BY <1>2, <3>1, OrderTypes, PrecedesJoined
      <4> QED BY <1>2, <4>1, <4>2
    <3> QED BY <1>5, <2>2, <2>3, <3>1 DEF Ahead
  <2>4. ASSUME NEW x \in ToSet(inserted[c]) PROVE Ahead(c, x, z)'
    <3>1. CASE x \in ToSet(pPending[c])
      <4>1. PICK s \in Seq(Items) : s = <<z>> /\ z \in ToSet(s)
        BY OneElement
      <4>2. Precedes(s \o pPending[c], z, x)
        BY <1>2, <3>1, <4>1, OrderTypes, PrecedesJoined
      <4>3. Precedes(pPending'[c], z, x)
        BY <1>2, <4>1, <4>2
      <4> QED BY <4>3 DEF Ahead
    <3>2. CASE InHand(x)
      BY <1>5, <2>2, <3>2 DEF Ahead
    <3> QED BY <2>1, <3>1, <3>2 DEF LineInv
  <2>5. ASSUME NEW x \in Items, NEW y \in Items, Precedes(inserted'[c], x, y) PROVE Ahead(c, x, y)'
    <3>1. Precedes(inserted[c], x, y) \/ (x \in ToSet(inserted[c]) /\ y = z)
      BY <1>2, <2>5, OrderTypes, PrecedesAppended
    <3> QED BY <2>1, <2>3, <2>4, <3>1 DEF LineInv
  <2>6. \A e \in Emts : Untaken(c, pc'[e]) => ToSet(inserted'[c]) \cap ToSet(pItems'[e]) = {}
    BY <1>2, <1>3, <2>1, <2>2 DEF LineInv
  <2>7. ASSUME NEW e \in Emts, pc'[e] \in {"store", "free"} PROVE Head(pItems'[e]) \notin ToSet(inserted'[c])
    <3>1. pItems[e] # <<>> /\ pItems'[e] = pItems[e] /\ pc[e] \in {"store", "free"}
      BY <1>2, <2>7 DEF OrderInvs, IInv, FlushTypes
    <3>2. Head(pItems[e]) \in ToSet(pItems[e])
      BY <3>1, OrderTypes, TailOfList
    <3> QED BY <1>3, <2>1, <2>2, <3>1, <3>2 DEF LineInv
  <2>8. \A x \in ToSet(inserted'[c]) : x \in ToSet(pPending'[c]) \/ InHand(x)'
    BY <1>5, <2>1, <2>2 DEF LineInv
  <2> QED BY <2>5, <2>6, <2>7, <2>8 DEF LineInv
<1> QED BY <1>2, <1>4, <1>6, <1>7 DEF OrderInv

\* A list is taken: its items are in their order in the hands, in front of the others.
LEMMA OrderTakeList ==
  ASSUME OrderInvs, NEW e \in Emts, TakeList(e)
  PROVE  OrderInv'
<1>0. PICK step \in {<<"R3", "RC">>, <<"RC", "R0">>, <<"R0", "feed">>} :
          /\ pc[e] = step[1]
          /\ pItems' = [pItems EXCEPT ![e] = OldestFirst(pPending[step[1]]) \o @]
          /\ pPending' = [pPending EXCEPT ![step[1]] = <<>>]
          /\ pc' = [pc EXCEPT ![e] = step[2]]
          /\ UNCHANGED <<cRefusals, inserted>>
  BY DEF TakeList, Goto
<1>1. PICK k \in AllContexts : k = step[1]
  BY DEF AllContexts
<1>2. PICK r \in Seq(Items) : r = Reverse(pPending[k]) /\ ToSet(r) = ToSet(pPending[k])
  BY OrderTypes, ReversedList
<1>3. /\ pItems'[e] = r \o pItems[e] /\ \A f \in Emts \ {e} : pItems'[f] = pItems[f] /\ pc'[f] = pc[f]
      /\ pPending'[k] = <<>> /\ \A d \in AllContexts \ {k} : pPending'[d] = pPending[d]
      /\ pc[e] = k /\ pc'[e] = step[2] /\ inserted' = inserted /\ cRefusals' = cRefusals
  BY <1>0, <1>1, <1>2, OrderTypes DEF OldestFirst
<1>4. Flushing(e) /\ pc[e] \in {"R3", "RC", "R0"} /\ pc'[e] \in {"RC", "R0", "feed"}
  <2>1. step[1] \in {"R3", "RC", "R0"} /\ step[2] \in {"RC", "R0", "feed"}
    OBVIOUS
  <2> QED BY <1>0, <1>3, <2>1 DEF Flushing
<1>5. ToSet(pItems'[e]) = ToSet(pPending[k]) \cup ToSet(pItems[e])
  BY <1>2, <1>3, OrderTypes, JoinedLists
<1>6. HandsInv'
  BY <1>3, <1>4 DEF OrderInvs, OrderInv, HandsInv
<1>7. \A f \in Emts \ {e} : pItems'[f] = <<>> /\ pc'[f] \notin {"RC", "R0", "store", "free"}
  BY <1>3, <1>4, OneHand DEF Flushing
<1>8. ASSUME NEW c \in AllContexts, LineInv(c), NEW x \in ToSet(inserted[c]), c = k \/ Untaken(c, pc'[e])
      PROVE  x \in ToSet(pPending[c]) /\ ~InHand(x)
  <2>1. CASE pc[e] = "R3"
    <3>1. pItems[e] = <<>>
      BY <2>1 DEF OrderInvs, OrderInv, HandsInv
    <3> QED BY <1>4, <1>8, <3>1, OneHand, EmptyList DEF LineInv
  <2>2. CASE pc[e] # "R3"
    <3>1. Untaken(c, pc[e])
      BY <1>0, <1>1, <1>3, <1>8, <2>2 DEF Untaken
    <3> QED BY <1>4, <1>8, <3>1, OneHand DEF LineInv
  <2> QED BY <2>1, <2>2
<1>9. ASSUME NEW c \in AllContexts, InLine(c)' PROVE LineInv(c)'
  <2>1. LineInv(c)
    BY <1>3, <1>9 DEF OrderInvs, OrderInv, InLine
  <2>2. \A x \in ToSet(inserted'[c]) : x \in ToSet(pPending'[c]) \/ InHand(x)'
    <3>1. \A x : InHand(x) => InHand(x)'
      BY <1>4, <1>5, OneHand DEF InHand
    <3>2. \A x \in ToSet(pPending[c]) : x \in ToSet(pPending'[c]) \/ InHand(x)'
      BY <1>3, <1>5 DEF InHand
    <3> QED BY <1>3, <2>1, <3>1, <3>2 DEF LineInv
  <2>3. ASSUME NEW x \in Items, NEW y \in Items, Precedes(inserted'[c], x, y) PROVE Ahead(c, x, y)'
    <3>1. Ahead(c, x, y) /\ x \in ToSet(inserted[c]) /\ y \in ToSet(inserted[c])
      BY <1>3, <2>1, <2>3, OrderTypes, PrecedesOnList DEF LineInv
    <3>2. ASSUME Precedes(pItems'[e], x, y) PROVE Ahead(c, x, y)'
      <4>1. AheadInHand(e, x, y)'
        BY <1>4, <3>2 DEF AheadInHand
      <4> QED BY <4>1 DEF Ahead
    <3>3. CASE c = k
      <4>1. ~InHand(x) /\ ~InHand(y)
        BY <2>1, <1>8, <3>1, <3>3
      <4>2. ASSUME NEW f \in Emts, AheadInHand(f, x, y) PROVE FALSE
        <5>1. x \in ToSet(pItems[f])
          BY <4>2, OrderTypes, PrecedesOnList DEF AheadInHand
        <5> QED BY <4>1, <5>1 DEF InHand
      <4>3. Precedes(pPending[k], y, x)
        BY <3>1, <3>3, <4>1, <4>2 DEF Ahead
      <4>4. Precedes(r, x, y)
        BY <1>2, <4>3, OrderTypes, PrecedesReversed
      <4>5. Precedes(r \o pItems[e], x, y)
        BY <1>2, <4>4, OrderTypes, PrecedesJoined
      <4> QED BY <1>3, <3>2, <4>5
    <3>4. CASE c # k
      <4>1. ASSUME NEW f \in Emts, AheadInHand(f, x, y) PROVE Ahead(c, x, y)'
        <5>1. Precedes(pItems[e], x, y)
          BY <1>4, <4>1, OneHand DEF AheadInHand
        <5>2. Precedes(r \o pItems[e], x, y)
          BY <1>2, <5>1, OrderTypes, PrecedesJoined
        <5> QED BY <1>3, <3>2, <5>2
      <4>2. InHand(x) => InHand(x)'
        BY <1>4, <1>5, OneHand DEF InHand
      <4>3. pPending'[c] = pPending[c]
        BY <1>3, <3>4
      <4> QED BY <3>1, <4>1, <4>2, <4>3 DEF Ahead
    <3> QED BY <3>3, <3>4
  <2>4. ASSUME NEW f \in Emts, Untaken(c, pc'[f]) PROVE ToSet(inserted'[c]) \cap ToSet(pItems'[f]) = {}
    <3>1. f = e
      BY <1>7, <2>4 DEF Untaken
    <3>2. c # k
      BY <1>0, <1>1, <1>3, <2>4, <3>1 DEF Untaken
    <3>3. ASSUME NEW x \in ToSet(inserted[c]) PROVE x \notin ToSet(pItems'[e])
      <4>1. x \in ToSet(pPending[c]) /\ ~InHand(x) /\ x \in Items
        BY <1>8, <2>1, <2>4, <3>1, <3>3, OrderTypes
      <4>2. x \notin ToSet(pPending[k])
        BY <3>2, <4>1, Apart DEF OrderInvs, OnceInv, IInv
      <4> QED BY <1>5, <4>1, <4>2 DEF InHand
    <3> QED BY <1>3, <3>1, <3>3
  <2>5. \A f \in Emts : pc'[f] \notin {"store", "free"}
    BY <1>4, <1>7
  <2> QED BY <2>2, <2>3, <2>4, <2>5 DEF LineInv
<1> QED BY <1>6, <1>9 DEF OrderInv

\* The first item in the hands was the first to be inserted, of its context.
LEMMA FirstInLine ==
  ASSUME OrderInvs, NEW e \in Emts, pc[e] = "feed", pItems[e] # <<>>, NEW c \in AllContexts, InLine(c),
         Head(pItems[e]) \in ToSet(inserted[c])
  PROVE  /\ inserted[c] # <<>> /\ Head(pItems[e]) = Head(inserted[c])
         /\ Head(pItems[e]) \notin ToSet(Tail(inserted[c]))
         /\ RemoveFirst(inserted[c], Head(pItems[e])) = Tail(inserted[c])
<1>1. PICK y \in Items : y = Head(pItems[e]) /\ y \in ToSet(pItems[e])
  BY OrderTypes, TailOfList
<1>2. Flushing(e) /\ LineInv(c)
  BY DEF Flushing, OrderInvs, OrderInv
<1>3. y \notin ToSet(pPending[c])
  BY <1>1, Apart DEF OrderInvs, OnceInv, IInv
<1>4. ASSUME NEW x \in Items PROVE ~Precedes(inserted[c], x, y)
  <2> SUFFICES ASSUME Ahead(c, x, y) PROVE FALSE
    BY <1>2 DEF LineInv
  <2>1. ASSUME NEW f \in Emts, AheadInHand(f, x, y) PROVE FALSE
    <3>1. Precedes(pItems[e], x, y)
      BY <1>2, <2>1, OneHand DEF AheadInHand
    <3> QED BY <1>1, <3>1, OrderTypes, PrecedesOnList
  <2>2. ~Precedes(pPending[c], y, x)
    BY <1>3, OrderTypes, PrecedesOnList
  <2> QED BY <1>3, <2>1, <2>2 DEF Ahead
<1>5. PICK s \in Seq(Items) : s = inserted[c] /\ y \in ToSet(s)
  BY <1>1, OrderTypes
<1>6. s # <<>>
  BY <1>5, EmptyList
<1>7. Head(s) \in Items
  BY <1>5, <1>6, TailOfList
<1>8. y = Head(s) /\ y \notin ToSet(Tail(s))
  BY <1>4, <1>5, <1>6, <1>7, PrecedesTail
<1>9. RemoveFirst(s, y) = Tail(s)
  <2>1. Len(s) \in Nat \ {0} /\ Head(s) = s[1] /\ 1 \in 1 .. Len(s)
    BY <1>5, <1>6, EmptySeq
  <2>2. PICK i \in 1 .. Len(s) : (\A j \in 1 .. Len(s) : s[j] = y => i <= j) /\ RemoveFirst(s, y) = RemoveAt(s, i)
    BY <1>8, <2>1, FirstPlace
  <2>3. i = 1
    BY <1>8, <2>1, <2>2
  <2>4. RemoveAt(s, 1) = SubSeq(s, 1, 0) \o SubSeq(s, 2, Len(s))
    BY DEF RemoveAt
  <2>5. SubSeq(s, 1, 0) = <<>> /\ SubSeq(s, 2, Len(s)) = Tail(s) /\ Tail(s) \in Seq(Items)
    BY <1>5, <1>6, <2>1
  <2>6. <<>> \o Tail(s) = Tail(s)
    BY <2>5
  <2> QED BY <2>2, <2>3, <2>4, <2>5, <2>6
<1> QED BY <1>1, <1>5, <1>6, <1>8, <1>9

\* So the consumer takes what was inserted first,
LEMMA OrderConsume ==
  ASSUME OrderInvs, NEW e \in Emts, ConsumerTakes(e)
  PROVE  /\ OrderInv'
         /\ \A c \in AllContexts : InLine(c) =>
               \/ inserted'[c] = inserted[c]
               \/ \E x \in Items : inserted[c] = <<x>> \o inserted'[c]
<1>1. /\ pc[e] = "feed" /\ pItems[e] # <<>> /\ Flushing(e) /\ pc'[e] = "store"
      /\ \A f \in Emts \ {e} : pc'[f] = pc[f]
      /\ \A c \in AllContexts : inserted'[c] = RemoveFirst(inserted[c], Head(pItems[e]))
      /\ UNCHANGED <<pItems, pPending, cRefusals>>
  BY OrderTypes DEF ConsumerTakes, Goto, Flushing
<1>2. PICK y \in Items : y = Head(pItems[e])
  BY <1>1, OrderTypes, TailOfList
<1>3. ASSUME NEW c \in AllContexts, InLine(c)
      PROVE  /\ y \notin ToSet(inserted'[c])
             /\ \/ inserted'[c] = inserted[c]
                \/ inserted[c] # <<>> /\ Head(inserted[c]) = y /\ inserted'[c] = Tail(inserted[c])
  <2>1. CASE y \in ToSet(inserted[c])
    BY <1>1, <1>2, <1>3, <2>1, FirstInLine
  <2>2. CASE y \notin ToSet(inserted[c])
    <3>1. ~ \E i \in 1 .. Len(inserted[c]) : inserted[c][i] = y
      BY <2>2, OrderTypes DEF ToSet
    <3>2. RemoveFirst(inserted[c], y) = inserted[c]
      BY <3>1 DEF RemoveFirst
    <3> QED BY <1>1, <1>2, <2>2, <3>2
  <2> QED BY <2>1, <2>2
<1>4. ASSUME NEW c \in AllContexts, InLine(c)
      PROVE  inserted'[c] = inserted[c] \/ \E x \in Items : inserted[c] = <<x>> \o inserted'[c]
  <2>1. ASSUME NEW s \in Seq(Items), s # <<>> PROVE s = <<Head(s)>> \o Tail(s)
    BY <2>1
  <2>2. CASE inserted'[c] = inserted[c]
    BY <2>2
  <2>3. CASE inserted[c] # <<>> /\ Head(inserted[c]) = y /\ inserted'[c] = Tail(inserted[c])
    <3>1. inserted[c] = <<y>> \o inserted'[c]
      BY <2>1, <2>3, OrderTypes
    <3> QED BY <3>1
  <2> QED BY <1>3, <1>4, <2>2, <2>3
<1>5. HandsInv'
  BY <1>1 DEF OrderInvs, OrderInv, HandsInv
<1>6. ASSUME NEW c \in AllContexts, InLine(c)' PROVE LineInv(c)'
  <2>1. InLine(c) /\ LineInv(c)
    BY <1>1, <1>6 DEF OrderInvs, OrderInv, InLine
  <2>2. ToSet(inserted'[c]) \subseteq ToSet(inserted[c])
    <3>1. CASE inserted'[c] = inserted[c]
      BY <3>1
    <3>2. CASE inserted[c] # <<>> /\ inserted'[c] = Tail(inserted[c])
      <4>1. ASSUME NEW x \in ToSet(Tail(inserted[c])) PROVE x \in ToSet(inserted[c])
        <5>1. Precedes(inserted[c], Head(inserted[c]), x)
          BY <3>2, <4>1, OrderTypes, PrecedesTail
        <5> QED BY <5>1, OrderTypes, PrecedesOnList
      <4> QED BY <3>2, <4>1
    <3> QED BY <1>3, <2>1, <3>1, <3>2
  <2>3. \A x, y1 \in Items : Precedes(inserted'[c], x, y1) => Precedes(inserted[c], x, y1)
    BY <1>3, <2>1, OrderTypes, PrecedesTail
  <2>4. \A f \in Emts : \A x, y1 : AheadInHand(f, x, y1) => AheadInHand(f, x, y1)'
    BY <1>1 DEF AheadInHand
  <2>5. \A x : InHand(x)' <=> InHand(x)
    BY <1>1 DEF InHand
  <2>6. \A x, y1 : Ahead(c, x, y1) => Ahead(c, x, y1)'
    BY <1>1, <2>4, <2>5 DEF Ahead
  <2>7. \A f \in Emts : Untaken(c, pc'[f]) => ToSet(inserted'[c]) \cap ToSet(pItems'[f]) = {}
    BY <1>1, <2>1, <2>2 DEF LineInv, Untaken
  <2>8. \A f \in Emts : pc'[f] \in {"store", "free"} => Head(pItems'[f]) \notin ToSet(inserted'[c])
    BY <1>1, <1>2, <1>3, <2>1, OneHand DEF Flushing
  <2>9. \A x \in ToSet(inserted'[c]) : x \in ToSet(pPending'[c]) \/ InHand(x)'
    BY <1>1, <2>1, <2>2, <2>5 DEF LineInv
  <2>10. \A x, y1 \in Items : Precedes(inserted'[c], x, y1) => Ahead(c, x, y1)'
    BY <2>1, <2>3, <2>6 DEF LineInv
  <2> QED BY <2>7, <2>8, <2>9, <2>10 DEF LineInv
<1> QED BY <1>4, <1>5, <1>6 DEF OrderInv

\* and it leaves the hands.
LEMMA OrderFree ==
  ASSUME OrderInvs, NEW e \in Emts, FreeAdvance(e)
  PROVE  OrderInv'
<1>1. /\ pc[e] = "free" /\ pItems[e] # <<>> /\ Flushing(e) /\ pc'[e] = "feed"
      /\ \A f \in Emts \ {e} : pc'[f] = pc[f] /\ pItems'[f] = pItems[f]
      /\ pItems'[e] = Tail(pItems[e])
      /\ UNCHANGED <<inserted, pPending, cRefusals>>
  BY OrderTypes DEF FreeAdvance, Goto, Flushing, OrderInvs, IInv, FlushTypes
<1>2. PICK z \in Items : z = Head(pItems[e])
  BY <1>1, OrderTypes, TailOfList
<1>3. ToSet(pItems'[e]) = ToSet(pItems[e]) \ {z}
  BY <1>1, <1>2, OrderTypes, TailOfList
<1>4. HandsInv'
  BY <1>1 DEF OrderInvs, OrderInv, HandsInv
<1>5. \A f \in Emts \ {e} : pc'[f] \notin {"RC", "R0", "store", "free"}
  BY <1>1, OneHand DEF Flushing
<1>6. ASSUME NEW c \in AllContexts, InLine(c)' PROVE LineInv(c)'
  <2>1. LineInv(c) /\ z \notin ToSet(inserted[c])
    BY <1>1, <1>2, <1>6 DEF OrderInvs, OrderInv, InLine, LineInv
  <2>2. \A x \in ToSet(inserted[c]) : InHand(x) => InHand(x)'
    BY <1>1, <1>3, <2>1, OneHand DEF InHand
  <2>3. ASSUME NEW x \in Items, NEW y \in Items, Precedes(inserted'[c], x, y) PROVE Ahead(c, x, y)'
    <3>1. Ahead(c, x, y) /\ x \in ToSet(inserted[c]) /\ x # z
      BY <1>1, <2>1, <2>3, OrderTypes, PrecedesOnList DEF LineInv
    <3>2. ASSUME NEW f \in Emts, AheadInHand(f, x, y) PROVE AheadInHand(e, x, y)'
      <4>1. Precedes(pItems[e], x, y)
        BY <1>1, <3>2, OneHand DEF AheadInHand
      <4>2. Precedes(Tail(pItems[e]), x, y)
        BY <1>1, <1>2, <3>1, <4>1, OrderTypes, PrecedesTail
      <4> QED BY <1>1, <4>2 DEF AheadInHand
    <3> QED BY <1>1, <2>2, <3>1, <3>2 DEF Ahead
  <2>4. \A f \in Emts : ~Untaken(c, pc'[f]) /\ pc'[f] \notin {"store", "free"}
    BY <1>1, <1>5 DEF Untaken
  <2>5. \A x \in ToSet(inserted'[c]) : x \in ToSet(pPending'[c]) \/ InHand(x)'
    BY <1>1, <2>1, <2>2 DEF LineInv
  <2> QED BY <2>3, <2>4, <2>5 DEF LineInv
<1> QED BY <1>4, <1>6 DEF OrderInv

\* What is refused is turned round,
LEMMA OrderRefuse ==
  ASSUME OrderInvs, NEW e \in Emts, ConsumerRefuses(e)
  PROVE  OrderInv'
<1>1. /\ pc[e] = "feed" /\ Flushing(e) /\ pc'[e] = "putback" /\ cRefusals' = cRefusals + 1 /\ cRefusals' > 0
      /\ \A f \in Emts \ {e} : pc'[f] = pc[f] /\ pItems'[f] = pItems[f]
      /\ pItems'[e] = Reverse(pItems[e])
      /\ UNCHANGED <<inserted, pPending>>
  BY OrderTypes DEF ConsumerRefuses, Goto, Flushing
<1>2. ToSet(pItems'[e]) = ToSet(pItems[e])
  BY <1>1, OrderTypes, ReversedList
<1>3. HandsInv'
  BY <1>1 DEF OrderInvs, OrderInv, HandsInv
<1>4. \A f \in Emts \ {e} : pc'[f] \notin {"RC", "R0", "store", "free"}
  BY <1>1, OneHand DEF Flushing
<1>5. ASSUME NEW c \in AllContexts, InLine(c)' PROVE LineInv(c)'
  <2>1. LineInv(c)
    BY <1>1, <1>5 DEF OrderInvs, OrderInv, InLine
  <2>2. \A x : InHand(x) => InHand(x)'
    BY <1>1, <1>2, OneHand DEF InHand
  <2>3. ASSUME NEW x \in Items, NEW y \in Items, Precedes(inserted'[c], x, y) PROVE Ahead(c, x, y)'
    <3>1. Ahead(c, x, y)
      BY <1>1, <2>1, <2>3 DEF LineInv
    <3>2. ASSUME NEW f \in Emts, AheadInHand(f, x, y) PROVE AheadInHand(e, x, y)'
      <4>1. Precedes(pItems[e], x, y)
        BY <1>1, <3>2, OneHand DEF AheadInHand
      <4>2. Precedes(Reverse(pItems[e]), y, x)
        BY <4>1, OrderTypes, PrecedesReversed
      <4> QED BY <1>1, <4>2 DEF AheadInHand
    <3> QED BY <1>1, <2>2, <3>1, <3>2 DEF Ahead
  <2>4. \A f \in Emts : ~Untaken(c, pc'[f]) /\ pc'[f] \notin {"store", "free"}
    BY <1>1, <1>4 DEF Untaken
  <2>5. \A x \in ToSet(inserted'[c]) : x \in ToSet(pPending'[c]) \/ InHand(x)'
    BY <1>1, <2>1, <2>2 DEF LineInv
  <2> QED BY <2>3, <2>4, <2>5 DEF LineInv
<1> QED BY <1>3, <1>5 DEF OrderInv

\* and as it is goes to the ring-3 list, if that is empty;
LEMMA OrderPutBack ==
  ASSUME OrderInvs, NEW e \in Emts, PutBack(e)
  PROVE  OrderInv'
<1>1. CASE pPending["R3"] # <<>>
  <2>1. Turns
    BY <1>1, OrderTypes DEF PutBack, Goto, Turns
  <2> QED BY <2>1, OrderTurns
<1>2. CASE pPending["R3"] = <<>>
  <2>1. /\ pc[e] = "putback" /\ Flushing(e) /\ cRefusals > 0 /\ cRefusals' = cRefusals
        /\ pc'[e] \notin {"RC", "R0", "feed", "store", "free", "putback", "join"}
        /\ \A f \in Emts \ {e} : pc'[f] = pc[f] /\ pItems'[f] = pItems[f]
        /\ pItems'[e] = <<>> /\ pPending'["R3"] = pItems[e]
        /\ UNCHANGED inserted
    BY <1>2, OrderTypes DEF PutBack, Goto, Flushing, FlushReturns, OrderInvs, OrderInv, HandsInv, AllContexts
  <2>2. HandsInv'
    BY <2>1 DEF OrderInvs, OrderInv, HandsInv
  <2>3. \A f \in Emts \ {e} : pc'[f] \notin {"RC", "R0", "store", "free"}
    BY <2>1, OneHand DEF Flushing
  <2>4. ASSUME NEW c \in AllContexts, InLine(c)' PROVE LineInv(c)'
    <3>1. c = "R3" /\ LineInv(c)
      BY <2>1, <2>4, OrderTypes DEF OrderInvs, OrderInv, InLine
    <3>2. ASSUME NEW x \in Items, NEW y \in Items, Precedes(inserted'[c], x, y) PROVE Ahead(c, x, y)'
      <4>1. Ahead(c, x, y)
        BY <2>1, <3>1, <3>2 DEF LineInv
      <4>2. y \notin ToSet(pPending[c]) /\ ~Precedes(pPending[c], y, x)
        BY <1>2, <3>1, EmptyList DEF Precedes
      <4>3. PICK f \in Emts : AheadInHand(f, x, y)
        BY <4>1, <4>2 DEF Ahead
      <4>4. Precedes(pItems[e], y, x)
        BY <2>1, <4>3, OneHand DEF AheadInHand
      <4> QED BY <2>1, <3>1, <4>4 DEF Ahead
    <3>3. \A f \in Emts : ~Untaken(c, pc'[f]) /\ pc'[f] \notin {"store", "free"}
      BY <2>1, <2>3 DEF Untaken
    <3>4. \A x \in ToSet(inserted'[c]) : x \in ToSet(pPending'[c])
      BY <1>2, <2>1, <3>1, OneHand, EmptyList DEF LineInv
    <3> QED BY <3>2, <3>3, <3>4 DEF LineInv
  <2> QED BY <2>2, <2>4 DEF OrderInv
<1> QED BY <1>1, <1>2

\* otherwise behind the newcomers, which were inserted later.
LEMMA OrderJoin ==
  ASSUME OrderInvs, NEW e \in Emts, JoinNewcomers(e)
  PROVE  OrderInv'
<1>1. /\ pc[e] = "join" /\ Flushing(e) /\ cRefusals > 0 /\ cRefusals' = cRefusals /\ pc'[e] = "putback"
      /\ \A f \in Emts \ {e} : pc'[f] = pc[f] /\ pItems'[f] = pItems[f]
      /\ pItems'[e] = pPending["R3"] \o pItems[e] /\ pPending'["R3"] = <<>> /\ "R3" \in AllContexts
      /\ UNCHANGED inserted
  BY OrderTypes DEF JoinNewcomers, Join, Goto, Flushing, OrderInvs, OrderInv, HandsInv, AllContexts
<1>2. ToSet(pItems'[e]) = ToSet(pPending["R3"]) \cup ToSet(pItems[e])
  BY <1>1, OrderTypes, JoinedLists
<1>3. HandsInv'
  BY <1>1 DEF OrderInvs, OrderInv, HandsInv
<1>4. \A f \in Emts \ {e} : pc'[f] \notin {"RC", "R0", "store", "free"}
  BY <1>1, OneHand DEF Flushing
<1>5. ASSUME NEW c \in AllContexts, InLine(c)' PROVE LineInv(c)'
  <2>1. c = "R3" /\ LineInv(c)
    BY <1>1, <1>5, OrderTypes DEF OrderInvs, OrderInv, InLine
  <2>2. ASSUME NEW x \in Items, NEW y \in Items, Precedes(inserted'[c], x, y) PROVE Ahead(c, x, y)'
    <3>1. Ahead(c, x, y)
      BY <1>1, <2>1, <2>2 DEF LineInv
    <3>2. Precedes(pPending[c] \o pItems[e], y, x)
      <4>1. ASSUME NEW f \in Emts, AheadInHand(f, x, y) PROVE Precedes(pItems[e], y, x)
        BY <1>1, <4>1, OneHand DEF AheadInHand
      <4>2. InHand(x) => x \in ToSet(pItems[e])
        BY <1>1, OneHand
      <4> QED BY <3>1, <4>1, <4>2, OrderTypes, PrecedesJoined DEF Ahead
    <3>3. AheadInHand(e, x, y)'
      BY <1>1, <2>1, <3>2 DEF AheadInHand
    <3> QED BY <3>3 DEF Ahead
  <2>3. \A f \in Emts : ~Untaken(c, pc'[f]) /\ pc'[f] \notin {"store", "free"}
    BY <1>1, <1>4 DEF Untaken
  <2>4. \A x \in ToSet(inserted'[c]) : InHand(x)'
    BY <1>1, <1>2, <2>1, OneHand DEF LineInv, InHand
  <2> QED BY <2>2, <2>3, <2>4 DEF LineInv
<1> QED BY <1>3, <1>5 DEF OrderInv

\* What a step does to the items that are not consumed yet.
OneInOrOneOut ==
    \A c \in AllContexts : c = "R3" \/ cRefusals = 0 =>
        \/ inserted'[c] = inserted[c]
        \/ \E x \in Items : inserted'[c] = Append(inserted[c], x)
        \/ \E x \in Items : inserted[c] = <<x>> \o inserted'[c]

\* Every step keeps the order; nothing else changes what is inserted.
LEMMA OrderStep ==
  ASSUME OrderInvs, [Next]_vars
  PROVE  OrderInv' /\ [OneInOrOneOut]_vars
<1>1. ASSUME inserted' = inserted PROVE OneInOrOneOut
  BY <1>1 DEF OneInOrOneOut
<1>2. ASSUME NEW p \in Producers, \/ AllocRead(p) \/ AllocTake(p) \/ AllocRetry(p)
                                  \/ InsertSetFF(p) \/ InsertSetPending(p)
      PROVE  Turns
  BY <1>2 DEF AllocRead, AllocTake, AllocRetry, InsertSetFF, InsertSetPending, emtVars, Turns
<1>3. ASSUME NEW e \in Emts, FlushAllStep(e) \/ TimerFires(e) PROVE Turns
  BY <1>3, OrderTypes DEF FlushAllStep, ForcedAction, ClearFF, TestAndSetActive, ClearPending, ClearActive,
     CheckAgain, TimerFires, Goto, Turns, OrderInvs, OrderInv, HandsInv
<1>4. ASSUME NEW e \in Emts, Look(e) \/ FlushDone(e) \/ FreeStore(e) PROVE Turns
  BY <1>4, OrderTypes DEF Look, FlushDone, FreeStore, FlushReturns, Goto, Turns, OrderInvs, OrderInv, HandsInv
<1>5. ASSUME UNCHANGED vars PROVE Turns
  BY <1>5 DEF Turns, emtVars, vars
<1>6. ASSUME Turns PROVE OrderInv' /\ OneInOrOneOut
  BY <1>1, <1>6, OrderTurns DEF Turns
<1>7. ASSUME NEW e \in Emts, TakeList(e) \/ ConsumerRefuses(e) \/ FreeAdvance(e) \/ PutBack(e) \/ JoinNewcomers(e)
      PROVE  OrderInv' /\ OneInOrOneOut
  <2>1. inserted' = inserted
    BY <1>7 DEF TakeList, ConsumerRefuses, FreeAdvance, PutBack, JoinNewcomers
  <2> QED BY <1>1, <1>7, <2>1, OrderTakeList, OrderRefuse, OrderFree, OrderPutBack, OrderJoin
<1>8. ASSUME NEW e \in Emts, ConsumerTakes(e) PROVE OrderInv' /\ OneInOrOneOut
  BY <1>8, OrderConsume DEF OneInOrOneOut, InLine
<1>9. ASSUME NEW p \in Producers, InsertPush(p) PROVE OrderInv' /\ OneInOrOneOut
  BY <1>9, OrderPush DEF OneInOrOneOut
<1> QED BY <1>2, <1>3, <1>4, <1>5, <1>6, <1>7, <1>8, <1>9 DEF Next, InsertStep, FlushStep

\* Nothing is inserted at first.
LEMMA InitOrder == Init => OrderInv
<1> SUFFICES ASSUME Init PROVE OrderInv
  OBVIOUS
<1>1. HandsInv
  BY DEF Init, HandsInv
<1>2. ASSUME NEW c \in AllContexts PROVE LineInv(c)
  <2>1. inserted[c] = <<>> /\ ToSet(inserted[c]) = {}
    BY EmptyList DEF Init
  <2>2. \A x, y : ~Precedes(inserted[c], x, y)
    BY <2>1 DEF Precedes
  <2> QED BY <2>1, <2>2 DEF LineInv
<1> QED BY <1>1, <1>2 DEF OrderInv

\* The consumer gets the items of a context in the order of their insertion, in every
\* behaviour in which no compare-exchange of PDMQueueAlloc succeeds on a stale view,
THEOREM InOrderUnlessStale == Spec /\ []NothingStale => InOrder
<1>1. Init => OnceInv /\ OrderInv
  BY InitOnce, InitOrder
<1>2. IInv /\ NothingStale /\ OnceInv /\ OrderInv /\ [Next]_vars => OnceInv' /\ OrderInv' /\ [OneInOrOneOut]_vars
  BY OnceStep, OrderStep DEF OrderInvs
<1>3. Spec /\ []NothingStale => [][OneInOrOneOut]_vars
  BY <1>1, <1>2, Invariance, PTL DEF Spec
<1> QED BY <1>3 DEF InOrder, OneInOrOneOut

\* so in all of them as long as the allocations are no more than the ring has slots.
THEOREM InOrderWithinATurn == MaxAllocs <= Ring => (Spec => InOrder)
<1> SUFFICES ASSUME MaxAllocs <= Ring PROVE Spec => InOrder
  OBVIOUS
<1>1. Spec => []NothingStale
  BY NothingStaleWithinATurn
<1> QED BY <1>1, InOrderUnlessStale, PTL

=============================================================================
