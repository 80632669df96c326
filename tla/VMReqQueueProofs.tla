-------------------------- MODULE VMReqQueueProofs --------------------------
(* Proofs about VMReqQueue: for any number of CPUs and requests. *)
EXTENDS VMReqQueue, ListLemmas, FiniteSetTheorems, TLAPS

-----------------------------------------------------------------------------
(* The inductive invariants *)

\* Where an EMT is in its loop and what it has announced; where a notification goes.
LoopInv ==
    /\ \A e \in Emts : dst[e] \in {ANY, e}
    /\ \A e \in Emts : pc[e] \in {"check", "block", "unwait"} <=> fWait[e]
    /\ \A e \in Emts : fPriorityOnly[e] \/ pc[e] = "async" => async # "never"
    /\ \A r \in Reqs : rpc[r] = "notify" /\ idDstCpu[r] # ANY => iCpu[r] = idDstCpu[r]

\* No request is on a list twice.
OnceInv ==
    /\ \A d \in Queues, k \in Kinds : IsInjective(pReqs[d][k])
    /\ \A e \in Emts : IsInjective(pReqList[e])

\* A request on a list is queued, and on the list that its packet's fields name.
ListInv ==
    \A r \in Reqs, d \in Queues, k \in Kinds : r \in ToSet(pReqs[d][k]) =>
        /\ enmState[r] = "queued"
        /\ idDstCpu[r] = d /\ (fPriority[r] <=> k = "priority")

\* So is one that an EMT is about to push back, which it does alone.
PartInv ==
    \A e \in Emts, r \in Reqs : r \in ToSet(pReqList[e]) =>
        /\ enmState[r] = "queued"
        /\ idDstCpu[r] = dst[e] /\ (fPriority[r] <=> kind[e] = "priority")
        /\ r \notin ToSet(pReqs[dst[e]][kind[e]])
        /\ \A f \in Emts : r \in ToSet(pReqList[f]) => e = f

\* Where an EMT has a request in its hands.
Holding == {"peek", "pushback", "join", "setff", "run", "complete"}

\* The request in an EMT's hands is nowhere else.
HandInv ==
    /\ \A e \in Emts : pReq[e] = NIL <=> pc[e] \notin Holding
    /\ \A e \in Emts : pReqList[e] # <<>> => pc[e] \in {"pushback", "join"}
    /\ \A e \in Emts : pReq[e] # NIL =>
           /\ enmState[pReq[e]] = IF pc[e] = "complete" THEN "processing" ELSE "queued"
           /\ \A d \in Queues, k \in Kinds : pReq[e] \notin ToSet(pReqs[d][k])
           /\ \A f \in Emts : pReq[e] \notin ToSet(pReqList[f])
           /\ \A f \in Emts : pReq[f] = pReq[e] => e = f

\* And a request that is to be processed is somewhere.
SomewhereInv ==
    \A r \in Reqs : enmState[r] \in {"queued", "processing"} =>
        \/ r \in ToSet(pReqs[idDstCpu[r]][IF fPriority[r] THEN "priority" ELSE "normal"])
        \/ \E e \in Emts : r \in ToSet(pReqList[e]) \/ pReq[e] = r

PlaceInv == OnceInv /\ ListInv /\ PartInv /\ HandInv /\ SomewhereInv

-----------------------------------------------------------------------------
(* The parts of steps that move requests between lists *)

\* The queues, and the two kinds of list each has.
LEMMA Names ==
    /\ Emts \subseteq Queues /\ ANY \in Queues /\ ANY \notin Emts /\ 0 \in Emts
    /\ \A d \in Queues : d # ANY => d \in Emts
    /\ "priority" \in Kinds /\ "normal" \in Kinds
BY CpusAssumption DEF Emts, Queues, ANY, Kinds

ListsType == [Queues -> [Kinds -> Seq(Reqs)]]

\* List k of queue d is replaced by s, and no other.
Stored(d, k, s) ==
    /\ pReqs' \in ListsType
    /\ pReqs'[d][k] = s
    /\ \A x \in Queues, y \in Kinds : x # d \/ y # k => pReqs'[x][y] = pReqs[x][y]

\* A write to one list leaves the others.
LEMMA StoredAt ==
    ASSUME pReqs \in ListsType, NEW d \in Queues, NEW k \in Kinds, NEW s \in Seq(Reqs),
           pReqs' = [pReqs EXCEPT ![d][k] = s]
    PROVE  Stored(d, k, s)
<1>1. pReqs' \in ListsType
  BY DEF ListsType
<1>2. pReqs'[d][k] = s
  BY DEF ListsType
<1>3. ASSUME NEW x \in Queues, NEW y \in Kinds, x # d \/ y # k PROVE pReqs'[x][y] = pReqs[x][y]
  BY <1>3 DEF ListsType
<1> QED BY <1>1, <1>2, <1>3 DEF Stored

\* What the requester's push does.
LEMMA Pushed ==
    ASSUME pReqs \in ListsType, NEW r \in Reqs, Push(r),
           idDstCpu'[r] \in Queues, fPriority'[r] \in BOOLEAN
    PROVE  LET d == idDstCpu'[r]
               k == KindOf(r)
           IN  k \in Kinds /\ Stored(d, k, <<r>> \o pReqs[d][k]) /\ (fPriority'[r] <=> k = "priority")
<1> DEFINE d == idDstCpu'[r]
           k == KindOf(r)
           s == <<r>> \o pReqs[d][k]
<1>1. d \in Queues /\ k \in Kinds
  BY DEF KindOf, Kinds
<1>2. pReqs[d][k] \in Seq(Reqs)
  BY <1>1 DEF ListsType
<1>3. s \in Seq(Reqs)
  <2>1. <<r>> \in Seq(Reqs)
    OBVIOUS
  <2> QED BY <2>1, <1>2, ConcatProperties
<1>4. pReqs' = [pReqs EXCEPT ![d][k] = s]
  BY DEF Push
<1>5. fPriority'[r] <=> k = "priority"
  BY DEF KindOf
<1> HIDE DEF d, k, s
<1>6. Stored(d, k, s)
  BY <1>1, <1>3, <1>4, StoredAt
<1> QED BY <1>1, <1>5, <1>6 DEF d, k, s

\* What taking a list off does.
LEMMA TakenOff ==
    ASSUME pReqs \in ListsType, pReq \in [Emts -> Reqs \cup {NIL}], pReqList \in [Emts -> Seq(Reqs)],
           NEW e \in Emts, dst[e] \in Queues, NEW k \in Kinds, NEW single,
           pReqs[dst[e]][k] # <<>>, Took(e, k, pReqs[dst[e]][k], single)
    PROVE  LET list == pReqs[dst[e]][k] IN
           /\ list \in Seq(Reqs) /\ Last(list) \in Reqs /\ Front(list) \in Seq(Reqs)
           /\ Stored(dst[e], k, <<>>)
           /\ pReq' = [pReq EXCEPT ![e] = Last(list)] /\ pReq' \in [Emts -> Reqs \cup {NIL}]
           /\ pReqList' = [pReqList EXCEPT ![e] = Front(list)] /\ pReqList' \in [Emts -> Seq(Reqs)]
<1> DEFINE list == pReqs[dst[e]][k]
<1>1. list \in Seq(Reqs)
  BY DEF ListsType
<1>2. Last(list) \in Reqs /\ Front(list) \in Seq(Reqs)
  <2> HIDE DEF list
  <2>1. list # <<>>
    BY DEF list
  <2> QED BY <1>1, <2>1, ChoppedList
<1>3. Stored(dst[e], k, <<>>)
  BY EmptyList, StoredAt DEF Took
<1>4. pReq' = [pReq EXCEPT ![e] = Last(list)] /\ pReqList' = [pReqList EXCEPT ![e] = Front(list)]
  BY DEF Took, Chop
<1> HIDE DEF list
<1>5. pReq' \in [Emts -> Reqs \cup {NIL}] /\ pReqList' \in [Emts -> Seq(Reqs)]
  BY <1>2, <1>4
<1> QED BY <1>1, <1>2, <1>3, <1>4, <1>5 DEF list

\* A step in which only EMT e moves, and stays with its own queue or the common one.
Moves(e) ==
    /\ pc' \in [Emts -> Labels] /\ dst' \in [Emts -> Queues]
    /\ dst'[e] \in {ANY, e, dst[e]}
    /\ \A f \in Emts : f # e => pc'[f] = pc[f] /\ dst'[f] = dst[f]

\* Wherever a step of an EMT takes it, it takes no other along.
LEMMA Moved ==
    ASSUME pc \in [Emts -> Labels], dst \in [Emts -> Queues], NEW e \in Emts,
           \/ ProcessCall(e, ANY) \/ ProcessCall(e, e) \/ ProcessReturns(e) \/ WaitReturns(e)
           \/ (\E l \in Labels : Goto(e, l)) /\ UNCHANGED dst
    PROVE  /\ Moves(e)
           /\ ProcessCall(e, ANY) \/ ProcessCall(e, e) => pc'[e] = "clear"
           /\ ProcessReturns(e) \/ WaitReturns(e) =>
                  pc'[e] \in {"clear", "async", "top", "own", "idle"} /\ (pc'[e] = "async" => fPriorityOnly[e])
<1>1. ANY \in Queues /\ e \in Queues
  BY Names
<1>2. ASSUME NEW d \in {ANY, e, dst[e]}, NEW l \in Labels, Goto(e, l), dst' = [dst EXCEPT ![e] = d]
      PROVE  Moves(e) /\ pc'[e] = l
  BY <1>1, <1>2 DEF Moves, Goto
<1>3. ASSUME NEW d \in {ANY, e}, ProcessCall(e, d) PROVE Moves(e) /\ pc'[e] = "clear"
  BY <1>2, <1>3 DEF ProcessCall, Labels
<1>4. ASSUME NEW l \in Labels, Goto(e, l), UNCHANGED dst PROVE Moves(e) /\ pc'[e] = l
  <2>1. dst' = [dst EXCEPT ![e] = dst[e]]
    BY <1>4
  <2> QED BY <1>2, <1>4, <2>1
<1>5. ASSUME WaitReturns(e) 
      PROVE  Moves(e) /\ pc'[e] \in {"clear", "async", "top", "own", "idle"} /\ (pc'[e] = "async" => fPriorityOnly[e])
  <2>1. CASE fPriorityOnly[e]
    BY <1>3, <1>5, <2>1 DEF WaitReturns
  <2>2. CASE ~fPriorityOnly[e]
    BY <1>4, <1>5, <2>2 DEF WaitReturns, Labels
  <2> QED BY <2>1, <2>2
<1>6. ASSUME ProcessReturns(e) 
      PROVE  Moves(e) /\ pc'[e] \in {"clear", "async", "top", "own", "idle"} /\ (pc'[e] = "async" => fPriorityOnly[e])
  <2>1. CASE ProcessCall(e, e)
    BY <1>3, <2>1
  <2>2. CASE ~ProcessCall(e, e)
    <3>1. PICK l \in {"async", "top", "own", "idle"} :
              Goto(e, l) /\ dst' = [dst EXCEPT ![e] = ANY] /\ (l = "async" => fPriorityOnly[e])
      BY <1>6, <2>2 DEF ProcessReturns
    <3> QED BY <1>2, <3>1 DEF Labels
  <2> QED BY <2>1, <2>2
<1>7. (\E l \in Labels : Goto(e, l)) /\ UNCHANGED dst => Moves(e)
  BY <1>4
<1> QED BY <1>3, <1>5, <1>6, <1>7

-----------------------------------------------------------------------------
(* Types *)

\* Every step keeps the types.
LEMMA TypeStep ==
    ASSUME TypeOK, [Next]_vars PROVE TypeOK'
<1> USE NilAssumption, BoundsAssumption DEF reqVars, callVars, procVars, emtVars
<1>0. CASE UNCHANGED vars
  BY <1>0 DEF vars, TypeOK, Labels
<1>1. ASSUME NEW r \in Reqs, ReqQueue(r) PROVE TypeOK'
  <2> USE <1>1 DEF ReqQueue
  <2>1. PICK c \in Calls[r] :
          /\ idDstCpu' = [idDstCpu EXCEPT ![r] = c.first]
          /\ iStep' = [iStep EXCEPT ![r] = c.step]
          /\ fPriority' = [fPriority EXCEPT ![r] = c.priority]
          /\ fNoWait' = [fNoWait EXCEPT ![r] = c.nowait]
    OBVIOUS
  <2>2. c.first \in Queues /\ c.step \in {-1, 0, 1} /\ c.priority \in BOOLEAN /\ c.nowait \in BOOLEAN
    BY CallsAssumption DEF AllCalls
  <2>3. /\ idDstCpu' \in [Reqs -> Queues] /\ iStep' \in [Reqs -> {-1, 0, 1}]
        /\ fPriority' \in [Reqs -> BOOLEAN] /\ fNoWait' \in [Reqs -> BOOLEAN]
    BY <2>1, <2>2 DEF TypeOK
  <2>4. pReqs' \in ListsType
    BY <2>3, Pushed DEF TypeOK, ListsType, Stored
  <2>5. /\ enmState' \in [Reqs -> {"free", "queued", "processing", "completed"}]
        /\ rpc' \in [Reqs -> {"idle", "setff", "notify", "wait"}]
    BY DEF Push, TypeOK
  <2>6. cCalls' \in 0 .. MaxCalls
    BY DEF TypeOK
  <2> QED BY <2>3, <2>4, <2>5, <2>6 DEF TypeOK, ListsType
<1>2. ASSUME NEW r \in Reqs, ReqSetFF(r) PROVE TypeOK'
  <2> USE <1>2 DEF ReqSetFF
  <2>1. iCpu' \in [Reqs -> Emts]
    <3>1. (IF idDstCpu[r] = ANY THEN 0 ELSE idDstCpu[r]) \in Emts
      BY Names DEF TypeOK
    <3> QED BY <3>1 DEF TypeOK
  <2>2. ff' \in [Queues -> BOOLEAN] /\ rpc' \in [Reqs -> {"idle", "setff", "notify", "wait"}]
    BY DEF TypeOK
  <2> QED BY <2>1, <2>2 DEF TypeOK
<1>3. ASSUME NEW r \in Reqs, ReqNotify(r) PROVE TypeOK'
  <2> USE <1>3 DEF ReqNotify
  <2>1. EventSemWait' \in [Emts -> BOOLEAN]
    BY DEF TypeOK
  <2>2. iCpu' \in [Reqs -> Emts]
    <3>1. iCpu[r] \in Emts
      BY DEF TypeOK
    <3>2. iCpu[r] < LastToNotify(r) => iCpu[r] + 1 \in Emts
      BY <3>1, CpusAssumption DEF LastToNotify, Emts
    <3>3. CASE iCpu[r] < LastToNotify(r)
      BY <3>2, <3>3 DEF TypeOK
    <3>4. CASE ~(iCpu[r] < LastToNotify(r))
      BY <3>4, Names DEF TypeOK
    <3> QED BY <3>3, <3>4
  <2>3. rpc' \in [Reqs -> {"idle", "setff", "notify", "wait"}]
    <3>1. CASE iCpu[r] < LastToNotify(r)
      BY <3>1 DEF TypeOK
    <3>2. CASE ~(iCpu[r] < LastToNotify(r))
      <4>1. PICK l \in {"idle", "wait"} : rpc' = [rpc EXCEPT ![r] = l]
        BY <3>2
      <4> QED BY <4>1 DEF TypeOK
    <3> QED BY <3>1, <3>2
  <2> QED BY <2>1, <2>2, <2>3 DEF TypeOK
<1>4. ASSUME NEW r \in Reqs, ReqWaitReturns(r) PROVE TypeOK'
  <2> USE <1>4 DEF ReqWaitReturns
  <2>1. CASE iStep[r] # 0 /\ NextCpu(r) \in Emts
    <3>1. idDstCpu' \in [Reqs -> Queues] /\ fPriority' \in [Reqs -> BOOLEAN]
      <4>1. NextCpu(r) \in Queues
        BY <2>1, Names
      <4> QED BY <2>1, <4>1 DEF TypeOK
    <3>2. Push(r)
      BY <2>1
    <3>3. pReqs' \in ListsType
      BY <3>1, <3>2, Pushed DEF TypeOK, ListsType, Stored
    <3>4. enmState' \in [Reqs -> {"free", "queued", "processing", "completed"}]
          /\ rpc' \in [Reqs -> {"idle", "setff", "notify", "wait"}]
      BY <3>2 DEF Push, TypeOK
    <3> QED BY <3>1, <3>3, <3>4 DEF TypeOK, ListsType
  <2>2. CASE ~(iStep[r] # 0 /\ NextCpu(r) \in Emts)
    BY <2>2 DEF TypeOK
  <2> QED BY <2>1, <2>2
<1>5. ASSUME NEW e \in Emts, CheckAny(e) PROVE TypeOK'
  <2> USE <1>5 DEF CheckAny
  <2>1. pc' \in [Emts -> Labels] /\ dst' \in [Emts -> Queues]
    <3>1. CASE Pending(ANY)
      BY <3>1, Moved DEF TypeOK, Moves
    <3>2. CASE ~Pending(ANY)
      BY <3>2 DEF Goto, TypeOK, Labels
    <3> QED BY <3>1, <3>2
  <2> QED BY <2>1 DEF TypeOK
<1>6. ASSUME NEW e \in Emts, CheckOwn(e) PROVE TypeOK'
  <2> USE <1>6 DEF CheckOwn
  <2>1. pc' \in [Emts -> Labels] /\ dst' \in [Emts -> Queues]
    <3>1. CASE Pending(e)
      BY <3>1, Moved DEF TypeOK, Moves
    <3>2. CASE ~Pending(e)
      BY <3>2 DEF Goto, TypeOK, Labels
    <3> QED BY <3>1, <3>2
  <2> QED BY <2>1 DEF TypeOK
<1>7. ASSUME NEW e \in Emts, WaitCall(e) PROVE TypeOK'
  <2> USE <1>7 DEF WaitCall
  <2>1. pc' \in [Emts -> Labels] /\ dst' \in [Emts -> Queues]
    <3>1. CASE FFPending(e)
      BY <3>1, Moved DEF TypeOK, Moves
    <3>2. CASE ~FFPending(e)
      BY <3>2 DEF Goto, TypeOK, Labels
    <3> QED BY <3>1, <3>2
  <2> QED BY <2>1 DEF TypeOK
<1>8. ASSUME NEW e \in Emts, SetWait(e) PROVE TypeOK'
  BY <1>8 DEF Goto, SetWait, TypeOK, Labels
<1>9. ASSUME NEW e \in Emts, WaitCheck(e) PROVE TypeOK'
  BY <1>9 DEF Goto, WaitCheck, MustStopWaiting, FFPending, TypeOK, Labels
<1>10. ASSUME NEW e \in Emts, Woken(e) PROVE TypeOK'
  BY <1>10 DEF Goto, Woken, TypeOK, Labels
<1>11. ASSUME NEW e \in Emts, ClearWait(e) PROVE TypeOK'
  <2> USE <1>11 DEF ClearWait
  <2>1. pc' \in [Emts -> Labels] /\ dst' \in [Emts -> Queues]
    BY Moved DEF TypeOK, Moves
  <2>2. fWait' \in [Emts -> BOOLEAN]
    BY DEF TypeOK
  <2> QED BY <2>1, <2>2 DEF TypeOK
<1>12. ASSUME NEW e \in Emts, ClearFF(e) PROVE TypeOK'
  BY <1>12 DEF Goto, ClearFF, TypeOK, Labels
<1>13. ASSUME NEW e \in Emts, TakePriority(e) PROVE TypeOK'
  <2> USE <1>13 DEF TakePriority
  <2>1. CASE pReqs[dst[e]]["priority"] # <<>>
    <3>1. Took(e, "priority", pReqs[dst[e]]["priority"], "peek")
      BY <2>1
    <3>2. pReqs' \in ListsType /\ pReq' \in [Emts -> Reqs \cup {NIL}] /\ pReqList' \in [Emts -> Seq(Reqs)]
      BY <2>1, <3>1, Names, TakenOff DEF TypeOK, ListsType, Stored
    <3>3. kind' \in [Emts -> Kinds] /\ pc' \in [Emts -> Labels]
      BY <3>1, Names DEF Took, Goto, TypeOK, Labels
    <3> QED BY <3>2, <3>3 DEF TypeOK, ListsType
  <2>2. CASE pReqs[dst[e]]["priority"] = <<>>
    BY <2>2 DEF Goto, TypeOK, Labels
  <2> QED BY <2>1, <2>2
<1>14. ASSUME NEW e \in Emts, PeekNormal(e) PROVE TypeOK'
  BY <1>14 DEF Goto, PeekNormal, MoreBehind, NormalKind, TypeOK, Labels
<1>15. ASSUME NEW e \in Emts, TakeNormal(e) PROVE TypeOK'
  <2> USE <1>15 DEF TakeNormal
  <2> DEFINE k == NormalKind(e)
  <2>0. k \in Kinds
    BY Names DEF NormalKind
  <2>1. CASE pReqs[dst[e]][k] # <<>>
    <3>1. Took(e, k, pReqs[dst[e]][k], "run") /\ dst' = dst
      BY <2>1
    <3> HIDE DEF k
    <3>2. pReqs' \in ListsType /\ pReq' \in [Emts -> Reqs \cup {NIL}] /\ pReqList' \in [Emts -> Seq(Reqs)]
      BY <2>0, <2>1, <3>1, TakenOff DEF TypeOK, ListsType, Stored
    <3>3. kind' \in [Emts -> Kinds] /\ pc' \in [Emts -> Labels]
      BY <2>0, <3>1 DEF Took, Goto, TypeOK, Labels
    <3> QED BY <3>1, <3>2, <3>3 DEF TypeOK, ListsType
  <2>2. CASE pReqs[dst[e]][k] = <<>>
    <3>1. ProcessReturns(e)
      BY <2>2
    <3>2. pc' \in [Emts -> Labels] /\ dst' \in [Emts -> Queues]
      BY <3>1, Moved DEF TypeOK, Moves
    <3> QED BY <2>2, <3>2 DEF TypeOK
  <2> QED BY <2>1, <2>2
<1>16. ASSUME NEW e \in Emts, PushBack(e) PROVE TypeOK'
  <2> USE <1>16 DEF PushBack
  <2>1. pReqs' \in ListsType
    BY StoredAt DEF TypeOK, ListsType, Stored
  <2>2. pReqList' \in [Emts -> Seq(Reqs)]
    BY EmptyList DEF TypeOK
  <2> QED BY <2>1, <2>2 DEF Goto, PushedBack, TypeOK, Labels, ListsType
<1>17. ASSUME NEW e \in Emts, PushBackRaces(e) PROVE TypeOK'
  BY <1>17 DEF Goto, PushBackRaces, TypeOK, Labels
<1>18. ASSUME NEW e \in Emts, JoinNewcomers(e) PROVE TypeOK'
  <2> USE <1>18 DEF JoinNewcomers
  <2>1. pReqs' \in ListsType
    BY EmptyList, StoredAt DEF TypeOK, ListsType, Stored
  <2>2. pReqList' \in [Emts -> Seq(Reqs)]
    <3> DEFINE newer == pReqs[dst[e]][kind[e]]
               all == IF newer # <<>> THEN newer \o pReqList[e] ELSE pReqList[e]
    <3>1. newer \in Seq(Reqs) /\ pReqList[e] \in Seq(Reqs)
      BY DEF TypeOK
    <3>2. pReqList' = [pReqList EXCEPT ![e] = all]
      BY DEF Join
    <3> HIDE DEF newer
    <3>3. all \in Seq(Reqs)
      BY <3>1, ConcatProperties
    <3> HIDE DEF all
    <3> QED BY <3>2, <3>3 DEF TypeOK
  <2> QED BY <2>1, <2>2 DEF Goto, TypeOK, Labels, ListsType
<1>19. ASSUME NEW e \in Emts, SetFF(e) PROVE TypeOK'
  BY <1>19 DEF Goto, SetFF, TypeOK, Labels
<1>20. ASSUME NEW e \in Emts, RunRequest(e) PROVE TypeOK'
  BY <1>20 DEF Goto, RunRequest, TypeOK, Labels
<1>21. ASSUME NEW e \in Emts, CompleteRequest(e) PROVE TypeOK'
  <2> USE <1>21 DEF CompleteRequest
  <2>1. pc' \in [Emts -> Labels] /\ dst' \in [Emts -> Queues]
    <3>1. CASE Goto(e, "clear") /\ UNCHANGED dst
      BY <3>1 DEF Goto, TypeOK, Labels
    <3>2. CASE ProcessReturns(e)
      BY <3>2, Moved DEF TypeOK, Moves
    <3> QED BY <3>1, <3>2
  <2>2. pReq' \in [Emts -> Reqs \cup {NIL}] /\ kind' \in [Emts -> Kinds]
    BY Names DEF TypeOK
  <2>3. enmState' \in [Reqs -> {"free", "queued", "processing", "completed"}]
    BY DEF TypeOK
  <2> QED BY <2>1, <2>2, <2>3 DEF TypeOK
<1>22. ASSUME NEW e \in Emts, RunGuest(e) PROVE TypeOK'
  BY <1>22 DEF Goto, RunGuest, TypeOK, Labels
<1>23. ASSUME NEW e \in Emts, WaitTimeout(e) PROVE TypeOK'
  BY <1>23 DEF Goto, WaitTimeout, TypeOK, Labels
<1>24. CASE AsyncBegin
  BY <1>24 DEF Goto, AsyncBegin, TypeOK, Labels
<1>25. CASE AsyncLoop
  BY <1>25 DEF Goto, AsyncLoop, TypeOK, Labels
<1>26. CASE AsyncDone
  BY <1>26 DEF Goto, AsyncDone, TypeOK, Labels
<1>27. CASE AsyncWakeupFF
  BY <1>27 DEF Goto, AsyncWakeupFF, TypeOK, Labels
<1>28. CASE AsyncWakeupNotify
  BY <1>28 DEF Goto, AsyncWakeupNotify, TypeOK, Labels
<1> QED BY <1>0, <1>1, <1>2, <1>3, <1>4, <1>5, <1>6, <1>7, <1>8, <1>9, <1>10, <1>11, <1>12, <1>13, <1>14, <1>15, <1>16, <1>17, <1>18, <1>19, <1>20, <1>21, <1>22, <1>23, <1>24, <1>25, <1>26, <1>27, <1>28 DEF Next, RequesterStep, LoopStep, ProcessStep, AsyncStep, AsyncPart

-----------------------------------------------------------------------------
(* The loop *)

\* Every EMT step is a move.  What it does to the waits and to the flags is seen from
\* where the EMT is.
LEMMA EmtMoves ==
    ASSUME TypeOK, LoopInv, NEW e \in Emts, LoopStep(e) \/ ProcessStep(e) \/ RunGuest(e) \/ WaitTimeout(e)
    PROVE  /\ Moves(e)
           /\ UNCHANGED <<rpc, iCpu, idDstCpu, fPriority, async, fPriorityOnly, enmVMState>>
           /\ \A f \in Emts : f # e => fWait'[f] = fWait[f] /\ EventSemWait'[f] = EventSemWait[f]
           /\ pc'[e] \in {"check", "block", "unwait"} <=> fWait'[e]
           /\ pc'[e] = "block" => UNCHANGED ff /\ ~ff[ANY] /\ ~ff[e]
           /\ UNCHANGED ff \/ \E v \in BOOLEAN : ff' = [ff EXCEPT ![dst[e]] = v]
           /\ pc'[e] = "async" => fPriorityOnly[e]
<1> USE DEF reqVars, callVars, procVars, emtVars, LoopInv
<1> DEFINE Same == /\ UNCHANGED <<rpc, iCpu, idDstCpu, fPriority, async, fPriorityOnly, enmVMState>>
                   /\ \A f \in Emts : f # e => fWait'[f] = fWait[f] /\ EventSemWait'[f] = EventSemWait[f]
           Flag == /\ pc'[e] \in {"check", "block", "unwait"} <=> fWait'[e]
                   /\ pc'[e] = "block" => UNCHANGED ff /\ ~ff[ANY] /\ ~ff[e]
                   /\ UNCHANGED ff \/ \E v \in BOOLEAN : ff' = [ff EXCEPT ![dst[e]] = v]
                   /\ pc'[e] = "async" => fPriorityOnly[e]
<1> SUFFICES Moves(e) /\ Same /\ Flag
  OBVIOUS
<1>1. CASE CheckAny(e)
  <2>1. ProcessCall(e, ANY) \/ ((\E l \in {"own"} : Goto(e, l)) /\ UNCHANGED dst)
    BY <1>1 DEF CheckAny
  <2>2. Moves(e)
    BY <2>1, Moved DEF TypeOK, Labels
  <2>3. Same
    BY <1>1 DEF CheckAny, TypeOK
  <2>4. Flag
    <3>1. pc'[e] \in {"check", "block", "unwait"} <=> fWait'[e]
      BY <1>1, <2>1, Moved DEF CheckAny, TypeOK, Labels, Goto
    <3>2. pc'[e] = "block" => UNCHANGED ff /\ ~ff[ANY] /\ ~ff[e]
      BY <1>1, <2>1, Moved DEF CheckAny, TypeOK, Labels, Goto
    <3>3. UNCHANGED ff \/ \E v \in BOOLEAN : ff' = [ff EXCEPT ![dst[e]] = v]
      BY <1>1 DEF CheckAny
    <3>4. pc'[e] = "async" => fPriorityOnly[e]
      BY <1>1, <2>1, Moved DEF TypeOK, Labels, Goto
    <3> QED BY <3>1, <3>2, <3>3, <3>4
  <2> QED BY <2>2, <2>3, <2>4
<1>2. CASE CheckOwn(e)
  <2>1. ProcessCall(e, e) \/ ((\E l \in {"idle"} : Goto(e, l)) /\ UNCHANGED dst)
    BY <1>2 DEF CheckOwn
  <2>2. Moves(e)
    BY <2>1, Moved DEF TypeOK, Labels
  <2>3. Same
    BY <1>2 DEF CheckOwn, TypeOK
  <2>4. Flag
    <3>1. pc'[e] \in {"check", "block", "unwait"} <=> fWait'[e]
      BY <1>2, <2>1, Moved DEF CheckOwn, TypeOK, Labels, Goto
    <3>2. pc'[e] = "block" => UNCHANGED ff /\ ~ff[ANY] /\ ~ff[e]
      BY <1>2, <2>1, Moved DEF CheckOwn, TypeOK, Labels, Goto
    <3>3. UNCHANGED ff \/ \E v \in BOOLEAN : ff' = [ff EXCEPT ![dst[e]] = v]
      BY <1>2 DEF CheckOwn
    <3>4. pc'[e] = "async" => fPriorityOnly[e]
      BY <1>2, <2>1, Moved DEF TypeOK, Labels, Goto
    <3> QED BY <3>1, <3>2, <3>3, <3>4
  <2> QED BY <2>2, <2>3, <2>4
<1>3. CASE WaitCall(e)
  <2>1. WaitReturns(e) \/ ((\E l \in {"setwait"} : Goto(e, l)) /\ UNCHANGED dst)
    BY <1>3 DEF WaitCall
  <2>2. Moves(e)
    BY <2>1, Moved DEF TypeOK, Labels
  <2>3. Same
    BY <1>3 DEF WaitCall, TypeOK
  <2>4. Flag
    <3>1. pc'[e] \in {"check", "block", "unwait"} <=> fWait'[e]
      BY <1>3, <2>1, Moved DEF WaitCall, TypeOK, Labels, Goto
    <3>2. pc'[e] = "block" => UNCHANGED ff /\ ~ff[ANY] /\ ~ff[e]
      BY <1>3, <2>1, Moved DEF WaitCall, TypeOK, Labels, Goto
    <3>3. UNCHANGED ff \/ \E v \in BOOLEAN : ff' = [ff EXCEPT ![dst[e]] = v]
      BY <1>3 DEF WaitCall
    <3>4. pc'[e] = "async" => fPriorityOnly[e]
      BY <1>3, <2>1, Moved DEF TypeOK, Labels, Goto
    <3> QED BY <3>1, <3>2, <3>3, <3>4
  <2> QED BY <2>2, <2>3, <2>4
<1>4. CASE SetWait(e)
  <2>1. (\E l \in {"check"} : Goto(e, l)) /\ UNCHANGED dst
    BY <1>4 DEF SetWait
  <2>2. Moves(e)
    BY <2>1, Moved DEF TypeOK, Labels
  <2>3. Same
    BY <1>4 DEF SetWait, TypeOK
  <2>4. Flag
    <3>1. pc'[e] \in {"check", "block", "unwait"} <=> fWait'[e]
      BY <1>4, <2>1, Moved DEF SetWait, TypeOK, Labels, Goto
    <3>2. pc'[e] = "block" => UNCHANGED ff /\ ~ff[ANY] /\ ~ff[e]
      BY <1>4, <2>1, Moved DEF SetWait, TypeOK, Labels, Goto
    <3>3. UNCHANGED ff \/ \E v \in BOOLEAN : ff' = [ff EXCEPT ![dst[e]] = v]
      BY <1>4 DEF SetWait
    <3>4. pc'[e] = "async" => fPriorityOnly[e]
      BY <1>4, <2>1, Moved DEF TypeOK, Labels, Goto
    <3> QED BY <3>1, <3>2, <3>3, <3>4
  <2> QED BY <2>2, <2>3, <2>4
<1>5. CASE WaitCheck(e)
  <2>1. (\E l \in {"unwait", "block"} : Goto(e, l)) /\ UNCHANGED dst
    BY <1>5 DEF WaitCheck
  <2>2. Moves(e)
    BY <2>1, Moved DEF TypeOK, Labels
  <2>3. Same
    BY <1>5 DEF WaitCheck, TypeOK
  <2>4. Flag
    <3>1. pc'[e] \in {"check", "block", "unwait"} <=> fWait'[e]
      BY <1>5, <2>1, Moved DEF WaitCheck, TypeOK, Labels, Goto
    <3>2. pc'[e] = "block" => UNCHANGED ff /\ ~ff[ANY] /\ ~ff[e]
      BY <1>5, <2>1, Moved DEF WaitCheck, TypeOK, Labels, Goto, MustStopWaiting, FFPending
    <3>3. UNCHANGED ff \/ \E v \in BOOLEAN : ff' = [ff EXCEPT ![dst[e]] = v]
      BY <1>5 DEF WaitCheck
    <3>4. pc'[e] = "async" => fPriorityOnly[e]
      BY <1>5, <2>1, Moved DEF TypeOK, Labels, Goto
    <3> QED BY <3>1, <3>2, <3>3, <3>4
  <2> QED BY <2>2, <2>3, <2>4
<1>6. CASE Woken(e)
  <2>1. (\E l \in {"check"} : Goto(e, l)) /\ UNCHANGED dst
    BY <1>6 DEF Woken
  <2>2. Moves(e)
    BY <2>1, Moved DEF TypeOK, Labels
  <2>3. Same
    BY <1>6 DEF Woken, TypeOK
  <2>4. Flag
    <3>1. pc'[e] \in {"check", "block", "unwait"} <=> fWait'[e]
      BY <1>6, <2>1, Moved DEF Woken, TypeOK, Labels, Goto
    <3>2. pc'[e] = "block" => UNCHANGED ff /\ ~ff[ANY] /\ ~ff[e]
      BY <1>6, <2>1, Moved DEF Woken, TypeOK, Labels, Goto
    <3>3. UNCHANGED ff \/ \E v \in BOOLEAN : ff' = [ff EXCEPT ![dst[e]] = v]
      BY <1>6 DEF Woken
    <3>4. pc'[e] = "async" => fPriorityOnly[e]
      BY <1>6, <2>1, Moved DEF TypeOK, Labels, Goto
    <3> QED BY <3>1, <3>2, <3>3, <3>4
  <2> QED BY <2>2, <2>3, <2>4
<1>7. CASE ClearWait(e)
  <2>1. WaitReturns(e)
    BY <1>7 DEF ClearWait
  <2>2. Moves(e)
    BY <2>1, Moved DEF TypeOK, Labels
  <2>3. Same
    BY <1>7 DEF ClearWait, TypeOK
  <2>4. Flag
    <3>1. pc'[e] \in {"check", "block", "unwait"} <=> fWait'[e]
      BY <1>7, <2>1, Moved DEF ClearWait, TypeOK, Labels, Goto
    <3>2. pc'[e] = "block" => UNCHANGED ff /\ ~ff[ANY] /\ ~ff[e]
      BY <1>7, <2>1, Moved DEF ClearWait, TypeOK, Labels, Goto
    <3>3. UNCHANGED ff \/ \E v \in BOOLEAN : ff' = [ff EXCEPT ![dst[e]] = v]
      BY <1>7 DEF ClearWait
    <3>4. pc'[e] = "async" => fPriorityOnly[e]
      BY <1>7, <2>1, Moved DEF TypeOK, Labels, Goto
    <3> QED BY <3>1, <3>2, <3>3, <3>4
  <2> QED BY <2>2, <2>3, <2>4
<1>8. CASE ClearFF(e)
  <2>1. (\E l \in {"priority"} : Goto(e, l)) /\ UNCHANGED dst
    BY <1>8 DEF ClearFF
  <2>2. Moves(e)
    BY <2>1, Moved DEF TypeOK, Labels
  <2>3. Same
    BY <1>8 DEF ClearFF, TypeOK
  <2>4. Flag
    <3>1. pc'[e] \in {"check", "block", "unwait"} <=> fWait'[e]
      BY <1>8, <2>1, Moved DEF ClearFF, TypeOK, Labels, Goto
    <3>2. pc'[e] = "block" => UNCHANGED ff /\ ~ff[ANY] /\ ~ff[e]
      BY <1>8, <2>1, Moved DEF ClearFF, TypeOK, Labels, Goto
    <3>3. UNCHANGED ff \/ \E v \in BOOLEAN : ff' = [ff EXCEPT ![dst[e]] = v]
      BY <1>8 DEF ClearFF
    <3>4. pc'[e] = "async" => fPriorityOnly[e]
      BY <1>8, <2>1, Moved DEF TypeOK, Labels, Goto
    <3> QED BY <3>1, <3>2, <3>3, <3>4
  <2> QED BY <2>2, <2>3, <2>4
<1>9. CASE TakePriority(e)
  <2>1. (\E l \in {"pushback", "peek", "normal"} : Goto(e, l)) /\ UNCHANGED dst
    BY <1>9 DEF TakePriority, Took
  <2>2. Moves(e)
    BY <2>1, Moved DEF TypeOK, Labels
  <2>3. Same
    BY <1>9 DEF TakePriority, TypeOK
  <2>4. Flag
    <3>1. pc'[e] \in {"check", "block", "unwait"} <=> fWait'[e]
      BY <1>9, <2>1, Moved DEF TakePriority, TypeOK, Labels, Goto
    <3>2. pc'[e] = "block" => UNCHANGED ff /\ ~ff[ANY] /\ ~ff[e]
      BY <1>9, <2>1, Moved DEF TakePriority, TypeOK, Labels, Goto
    <3>3. UNCHANGED ff \/ \E v \in BOOLEAN : ff' = [ff EXCEPT ![dst[e]] = v]
      BY <1>9 DEF TakePriority
    <3>4. pc'[e] = "async" => fPriorityOnly[e]
      BY <1>9, <2>1, Moved DEF TypeOK, Labels, Goto
    <3> QED BY <3>1, <3>2, <3>3, <3>4
  <2> QED BY <2>2, <2>3, <2>4
<1>10. CASE PeekNormal(e)
  <2>1. (\E l \in {"setff", "run"} : Goto(e, l)) /\ UNCHANGED dst
    BY <1>10 DEF PeekNormal
  <2>2. Moves(e)
    BY <2>1, Moved DEF TypeOK, Labels
  <2>3. Same
    BY <1>10 DEF PeekNormal, TypeOK
  <2>4. Flag
    <3>1. pc'[e] \in {"check", "block", "unwait"} <=> fWait'[e]
      BY <1>10, <2>1, Moved DEF PeekNormal, TypeOK, Labels, Goto
    <3>2. pc'[e] = "block" => UNCHANGED ff /\ ~ff[ANY] /\ ~ff[e]
      BY <1>10, <2>1, Moved DEF PeekNormal, TypeOK, Labels, Goto
    <3>3. UNCHANGED ff \/ \E v \in BOOLEAN : ff' = [ff EXCEPT ![dst[e]] = v]
      BY <1>10 DEF PeekNormal
    <3>4. pc'[e] = "async" => fPriorityOnly[e]
      BY <1>10, <2>1, Moved DEF TypeOK, Labels, Goto
    <3> QED BY <3>1, <3>2, <3>3, <3>4
  <2> QED BY <2>2, <2>3, <2>4
<1>11. CASE TakeNormal(e)
  <2>1. ProcessReturns(e) \/ ((\E l \in {"pushback", "run"} : Goto(e, l)) /\ UNCHANGED dst)
    BY <1>11 DEF TakeNormal, Took
  <2>2. Moves(e)
    BY <2>1, Moved DEF TypeOK, Labels
  <2>3. Same
    BY <1>11 DEF TakeNormal, TypeOK
  <2>4. Flag
    <3>1. pc'[e] \in {"check", "block", "unwait"} <=> fWait'[e]
      BY <1>11, <2>1, Moved DEF TakeNormal, TypeOK, Labels, Goto
    <3>2. pc'[e] = "block" => UNCHANGED ff /\ ~ff[ANY] /\ ~ff[e]
      BY <1>11, <2>1, Moved DEF TakeNormal, TypeOK, Labels, Goto
    <3>3. UNCHANGED ff \/ \E v \in BOOLEAN : ff' = [ff EXCEPT ![dst[e]] = v]
      BY <1>11 DEF TakeNormal
    <3>4. pc'[e] = "async" => fPriorityOnly[e]
      BY <1>11, <2>1, Moved DEF TypeOK, Labels, Goto
    <3> QED BY <3>1, <3>2, <3>3, <3>4
  <2> QED BY <2>2, <2>3, <2>4
<1>12. CASE PushBack(e)
  <2>1. (\E l \in {"setff"} : Goto(e, l)) /\ UNCHANGED dst
    BY <1>12 DEF PushBack, PushedBack
  <2>2. Moves(e)
    BY <2>1, Moved DEF TypeOK, Labels
  <2>3. Same
    BY <1>12 DEF PushBack, TypeOK
  <2>4. Flag
    <3>1. pc'[e] \in {"check", "block", "unwait"} <=> fWait'[e]
      BY <1>12, <2>1, Moved DEF PushBack, TypeOK, Labels, Goto
    <3>2. pc'[e] = "block" => UNCHANGED ff /\ ~ff[ANY] /\ ~ff[e]
      BY <1>12, <2>1, Moved DEF PushBack, TypeOK, Labels, Goto, PushedBack
    <3>3. UNCHANGED ff \/ \E v \in BOOLEAN : ff' = [ff EXCEPT ![dst[e]] = v]
      BY <1>12 DEF PushBack
    <3>4. pc'[e] = "async" => fPriorityOnly[e]
      BY <1>12, <2>1, Moved DEF TypeOK, Labels, Goto
    <3> QED BY <3>1, <3>2, <3>3, <3>4
  <2> QED BY <2>2, <2>3, <2>4
<1>13. CASE PushBackRaces(e)
  <2>1. (\E l \in {"join"} : Goto(e, l)) /\ UNCHANGED dst
    BY <1>13 DEF PushBackRaces
  <2>2. Moves(e)
    BY <2>1, Moved DEF TypeOK, Labels
  <2>3. Same
    BY <1>13 DEF PushBackRaces, TypeOK
  <2>4. Flag
    <3>1. pc'[e] \in {"check", "block", "unwait"} <=> fWait'[e]
      BY <1>13, <2>1, Moved DEF PushBackRaces, TypeOK, Labels, Goto
    <3>2. pc'[e] = "block" => UNCHANGED ff /\ ~ff[ANY] /\ ~ff[e]
      BY <1>13, <2>1, Moved DEF PushBackRaces, TypeOK, Labels, Goto
    <3>3. UNCHANGED ff \/ \E v \in BOOLEAN : ff' = [ff EXCEPT ![dst[e]] = v]
      BY <1>13 DEF PushBackRaces
    <3>4. pc'[e] = "async" => fPriorityOnly[e]
      BY <1>13, <2>1, Moved DEF TypeOK, Labels, Goto
    <3> QED BY <3>1, <3>2, <3>3, <3>4
  <2> QED BY <2>2, <2>3, <2>4
<1>14. CASE JoinNewcomers(e)
  <2>1. (\E l \in {"pushback"} : Goto(e, l)) /\ UNCHANGED dst
    BY <1>14 DEF JoinNewcomers
  <2>2. Moves(e)
    BY <2>1, Moved DEF TypeOK, Labels
  <2>3. Same
    BY <1>14 DEF JoinNewcomers, TypeOK
  <2>4. Flag
    <3>1. pc'[e] \in {"check", "block", "unwait"} <=> fWait'[e]
      BY <1>14, <2>1, Moved DEF JoinNewcomers, TypeOK, Labels, Goto
    <3>2. pc'[e] = "block" => UNCHANGED ff /\ ~ff[ANY] /\ ~ff[e]
      BY <1>14, <2>1, Moved DEF JoinNewcomers, TypeOK, Labels, Goto
    <3>3. UNCHANGED ff \/ \E v \in BOOLEAN : ff' = [ff EXCEPT ![dst[e]] = v]
      BY <1>14 DEF JoinNewcomers
    <3>4. pc'[e] = "async" => fPriorityOnly[e]
      BY <1>14, <2>1, Moved DEF TypeOK, Labels, Goto
    <3> QED BY <3>1, <3>2, <3>3, <3>4
  <2> QED BY <2>2, <2>3, <2>4
<1>15. CASE SetFF(e)
  <2>1. (\E l \in {"run"} : Goto(e, l)) /\ UNCHANGED dst
    BY <1>15 DEF SetFF
  <2>2. Moves(e)
    BY <2>1, Moved DEF TypeOK, Labels
  <2>3. Same
    BY <1>15 DEF SetFF, TypeOK
  <2>4. Flag
    <3>1. pc'[e] \in {"check", "block", "unwait"} <=> fWait'[e]
      BY <1>15, <2>1, Moved DEF SetFF, TypeOK, Labels, Goto
    <3>2. pc'[e] = "block" => UNCHANGED ff /\ ~ff[ANY] /\ ~ff[e]
      BY <1>15, <2>1, Moved DEF SetFF, TypeOK, Labels, Goto
    <3>3. UNCHANGED ff \/ \E v \in BOOLEAN : ff' = [ff EXCEPT ![dst[e]] = v]
      BY <1>15 DEF SetFF
    <3>4. pc'[e] = "async" => fPriorityOnly[e]
      BY <1>15, <2>1, Moved DEF TypeOK, Labels, Goto
    <3> QED BY <3>1, <3>2, <3>3, <3>4
  <2> QED BY <2>2, <2>3, <2>4
<1>16. CASE RunRequest(e)
  <2>1. (\E l \in {"complete"} : Goto(e, l)) /\ UNCHANGED dst
    BY <1>16 DEF RunRequest
  <2>2. Moves(e)
    BY <2>1, Moved DEF TypeOK, Labels
  <2>3. Same
    BY <1>16 DEF RunRequest, TypeOK
  <2>4. Flag
    <3>1. pc'[e] \in {"check", "block", "unwait"} <=> fWait'[e]
      BY <1>16, <2>1, Moved DEF RunRequest, TypeOK, Labels, Goto
    <3>2. pc'[e] = "block" => UNCHANGED ff /\ ~ff[ANY] /\ ~ff[e]
      BY <1>16, <2>1, Moved DEF RunRequest, TypeOK, Labels, Goto
    <3>3. UNCHANGED ff \/ \E v \in BOOLEAN : ff' = [ff EXCEPT ![dst[e]] = v]
      BY <1>16 DEF RunRequest
    <3>4. pc'[e] = "async" => fPriorityOnly[e]
      BY <1>16, <2>1, Moved DEF TypeOK, Labels, Goto
    <3> QED BY <3>1, <3>2, <3>3, <3>4
  <2> QED BY <2>2, <2>3, <2>4
<1>17. CASE CompleteRequest(e)
  <2>1. ProcessReturns(e) \/ ((\E l \in {"clear"} : Goto(e, l)) /\ UNCHANGED dst)
    BY <1>17 DEF CompleteRequest
  <2>2. Moves(e)
    BY <2>1, Moved DEF TypeOK, Labels
  <2>3. Same
    BY <1>17 DEF CompleteRequest, TypeOK
  <2>4. Flag
    <3>1. pc'[e] \in {"check", "block", "unwait"} <=> fWait'[e]
      BY <1>17, <2>1, Moved DEF CompleteRequest, TypeOK, Labels, Goto
    <3>2. pc'[e] = "block" => UNCHANGED ff /\ ~ff[ANY] /\ ~ff[e]
      BY <1>17, <2>1, Moved DEF CompleteRequest, TypeOK, Labels, Goto
    <3>3. UNCHANGED ff \/ \E v \in BOOLEAN : ff' = [ff EXCEPT ![dst[e]] = v]
      BY <1>17 DEF CompleteRequest
    <3>4. pc'[e] = "async" => fPriorityOnly[e]
      BY <1>17, <2>1, Moved DEF TypeOK, Labels, Goto
    <3> QED BY <3>1, <3>2, <3>3, <3>4
  <2> QED BY <2>2, <2>3, <2>4
<1>18. CASE RunGuest(e)
  <2>1. (\E l \in {"top"} : Goto(e, l)) /\ UNCHANGED dst
    BY <1>18 DEF RunGuest
  <2>2. Moves(e)
    BY <2>1, Moved DEF TypeOK, Labels
  <2>3. Same
    BY <1>18 DEF RunGuest, TypeOK
  <2>4. Flag
    <3>1. pc'[e] \in {"check", "block", "unwait"} <=> fWait'[e]
      BY <1>18, <2>1, Moved DEF RunGuest, TypeOK, Labels, Goto
    <3>2. pc'[e] = "block" => UNCHANGED ff /\ ~ff[ANY] /\ ~ff[e]
      BY <1>18, <2>1, Moved DEF RunGuest, TypeOK, Labels, Goto
    <3>3. UNCHANGED ff \/ \E v \in BOOLEAN : ff' = [ff EXCEPT ![dst[e]] = v]
      BY <1>18 DEF RunGuest
    <3>4. pc'[e] = "async" => fPriorityOnly[e]
      BY <1>18, <2>1, Moved DEF TypeOK, Labels, Goto
    <3> QED BY <3>1, <3>2, <3>3, <3>4
  <2> QED BY <2>2, <2>3, <2>4
<1>19. CASE WaitTimeout(e)
  <2>1. (\E l \in {"check"} : Goto(e, l)) /\ UNCHANGED dst
    BY <1>19 DEF WaitTimeout
  <2>2. Moves(e)
    BY <2>1, Moved DEF TypeOK, Labels
  <2>3. Same
    BY <1>19 DEF WaitTimeout, TypeOK
  <2>4. Flag
    <3>1. pc'[e] \in {"check", "block", "unwait"} <=> fWait'[e]
      BY <1>19, <2>1, Moved DEF WaitTimeout, TypeOK, Labels, Goto
    <3>2. pc'[e] = "block" => UNCHANGED ff /\ ~ff[ANY] /\ ~ff[e]
      BY <1>19, <2>1, Moved DEF WaitTimeout, TypeOK, Labels, Goto
    <3>3. UNCHANGED ff \/ \E v \in BOOLEAN : ff' = [ff EXCEPT ![dst[e]] = v]
      BY <1>19 DEF WaitTimeout
    <3>4. pc'[e] = "async" => fPriorityOnly[e]
      BY <1>19, <2>1, Moved DEF TypeOK, Labels, Goto
    <3> QED BY <3>1, <3>2, <3>3, <3>4
  <2> QED BY <2>2, <2>3, <2>4
<1> QED BY <1>1, <1>2, <1>3, <1>4, <1>5, <1>6, <1>7, <1>8, <1>9, <1>10, <1>11, <1>12, <1>13, <1>14, <1>15, <1>16, <1>17, <1>18, <1>19 DEF LoopStep, ProcessStep

\* What a requester's step leaves alone, and what it does with its own packet.
LEMMA RequesterMoves ==
    ASSUME TypeOK, LoopInv, NEW r \in Reqs, ReqQueue(r) \/ RequesterStep(r)
    PROVE  /\ UNCHANGED <<pc, dst, fWait, fPriorityOnly, async, enmVMState, kind, pReqList, pReq>>
           /\ rpc'[r] = "notify" /\ idDstCpu'[r] # ANY => iCpu'[r] = idDstCpu'[r]
           /\ \A f \in Emts : EventSemWait[f] => EventSemWait'[f]
           /\ \A q \in Reqs : q # r => /\ rpc'[q] = rpc[q] /\ idDstCpu'[q] = idDstCpu[q]
                                       /\ iCpu'[q] = iCpu[q] /\ enmState'[q] = enmState[q]
                                       /\ fPriority'[q] = fPriority[q]
<1> USE DEF reqVars, callVars, procVars, emtVars, LoopInv
<1>1. CASE ReqQueue(r)
  <2>1. PICK c \in Calls[r] : /\ idDstCpu' = [idDstCpu EXCEPT ![r] = c.first]
                              /\ fPriority' = [fPriority EXCEPT ![r] = c.priority]
    BY <1>1 DEF ReqQueue
  <2> QED BY <1>1, <2>1 DEF ReqQueue, Push, TypeOK
<1>2. CASE ReqSetFF(r)
  BY <1>2 DEF ReqSetFF, TypeOK
<1>3. CASE ReqNotify(r)
  <2>1. CASE iCpu[r] < LastToNotify(r)
    <3>1. idDstCpu[r] = ANY
      <4>1. iCpu[r] \in Int
        BY DEF TypeOK, Emts
      <4> QED BY <2>1, <4>1 DEF LastToNotify
    <3> QED BY <1>3, <2>1, <3>1 DEF ReqNotify, TypeOK
  <2>2. CASE ~(iCpu[r] < LastToNotify(r))
    <3>1. PICK l \in {"idle", "wait"} : rpc' = [rpc EXCEPT ![r] = l]
      BY <1>3, <2>2 DEF ReqNotify
    <3> QED BY <1>3, <2>2, <3>1 DEF ReqNotify, TypeOK
  <2> QED BY <2>1, <2>2
<1>4. CASE ReqWaitReturns(r)
  <2>1. CASE iStep[r] # 0 /\ NextCpu(r) \in Emts
    BY <1>4, <2>1 DEF ReqWaitReturns, Push, TypeOK
  <2>2. CASE ~(iStep[r] # 0 /\ NextCpu(r) \in Emts)
    BY <1>4, <2>2 DEF ReqWaitReturns, TypeOK
  <2> QED BY <2>1, <2>2
<1> QED BY <1>1, <1>2, <1>3, <1>4 DEF RequesterStep

\* The asynchronous notification moves EMT 0 only.
LEMMA AsyncMoves ==
    ASSUME TypeOK, LoopInv, AsyncBegin \/ AsyncStep
    PROVE  /\ Moves(0) /\ 0 \in Emts
           /\ UNCHANGED <<rpc, iCpu, idDstCpu, fPriority, fWait, pReqs, enmState, kind, pReqList, pReq, dst>>
           /\ async' # "never"
           /\ pc'[0] # pc[0] => pc[0] \in {"top", "async"} /\ pc'[0] \in {"async", "idle", "look"}
           /\ \A f \in Emts : f # 0 \/ pc'[f] = pc[f] => fPriorityOnly'[f] = fPriorityOnly[f]
           /\ \A d \in Queues : ff[d] => ff'[d]
<1> USE Names DEF reqVars, callVars, procVars, emtVars, LoopInv
<1>1. CASE AsyncBegin
  <2>1. Moves(0)
    BY <1>1, Moved DEF AsyncBegin, TypeOK, Labels
  <2> QED BY <1>1, <2>1 DEF AsyncBegin, TypeOK, Goto
<1>2. CASE AsyncLoop
  <2>1. async # "never"
    BY <1>2 DEF AsyncLoop
  <2>2. Moves(0)
    BY <1>2, Moved DEF AsyncLoop, TypeOK, Labels
  <2> QED BY <1>2, <2>1, <2>2 DEF AsyncLoop, TypeOK, Goto
<1>3. CASE AsyncDone \/ AsyncWakeupFF \/ AsyncWakeupNotify
  <2>1. UNCHANGED <<pc, dst, fPriorityOnly, rpc, iCpu, idDstCpu, fPriority, fWait, pReqs, enmState, kind, pReqList, pReq>> /\ async' # "never"
    BY <1>3 DEF AsyncDone, AsyncWakeupFF, AsyncWakeupNotify
  <2>2. Moves(0)
    BY <2>1 DEF Moves, TypeOK
  <2>3. \A d \in Queues : ff[d] => ff'[d]
    <3>1. UNCHANGED ff \/ ff' = [ff EXCEPT ![ANY] = TRUE]
      BY <1>3 DEF AsyncDone, AsyncWakeupFF, AsyncWakeupNotify
    <3>2. ASSUME NEW d \in Queues, ff[d], ff' = [ff EXCEPT ![ANY] = TRUE] PROVE ff'[d]
      <4>1. CASE d = ANY
        BY <3>2, <4>1 DEF TypeOK
      <4>2. CASE d # ANY
        BY <3>2, <4>2 DEF TypeOK
      <4> QED BY <4>1, <4>2
    <3> QED BY <3>1, <3>2
  <2> QED BY <2>1, <2>2, <2>3
<1> QED BY <1>1, <1>2, <1>3 DEF AsyncStep, AsyncPart

\* LoopInv is inductive.
LEMMA LoopStepKeeps ==
    ASSUME TypeOK, LoopInv, [Next]_vars PROVE LoopInv'
<1>0. CASE UNCHANGED vars
  BY <1>0 DEF vars, reqVars, callVars, emtVars, procVars, LoopInv
<1>1. ASSUME NEW e \in Emts, LoopStep(e) \/ ProcessStep(e) \/ RunGuest(e) \/ WaitTimeout(e) PROVE LoopInv'
  BY <1>1, EmtMoves DEF LoopInv, Moves
<1>2. ASSUME NEW r \in Reqs, ReqQueue(r) \/ RequesterStep(r) PROVE LoopInv'
  BY <1>2, RequesterMoves DEF LoopInv
<1>3. CASE AsyncBegin \/ AsyncStep
  <2>1. \A f \in Emts : f # 0 => pc'[f] = pc[f]
    BY <1>3, AsyncMoves DEF Moves
  <2> QED BY <1>3, <2>1, AsyncMoves DEF LoopInv
<1> QED BY <1>0, <1>1, <1>2, <1>3 DEF Next

-----------------------------------------------------------------------------
(* No request is forgotten *)

\* EMT e has still to look at list k of queue d: its part of WillLook.
Looks(e, d, k) ==
    /\ dst[e] = d
    /\ \/ pc[e] \in {"clear", "priority", "pushback", "join", "setff"}
       \/ pc[e] \in {"peek", "normal"} /\ NormalKind(e) = k

Telling(d) == \E r \in Reqs : rpc[r] = "setff" /\ idDstCpu[r] = d

Unstranded(d, k) ==
    pReqs[d][k] # <<>> =>
        ff[d] \/ Telling(d) \/ (\E e \in Emts : Looks(e, d, k)) \/ (k = "normal" /\ async # "never")

\* NothingStranded, list by list.
LEMMA StrandedIs == NothingStranded <=> \A d \in Queues, k \in Kinds : Unstranded(d, k)
BY DEF NothingStranded, Unstranded, WillLook, Looks, Telling

\* An EMT's step leaves a list behind only if it sets the flag, keeps looking, or
\* neither filled the list nor was the one to look.
LEMMA EmtLeaves ==
    ASSUME TypeOK, LoopInv, NEW e \in Emts,
           LoopStep(e) \/ ProcessStep(e) \/ RunGuest(e) \/ WaitTimeout(e),
           NEW d \in Queues, NEW k \in Kinds, Unstranded(d, k),
           \/ ff'[d] \/ Looks(e, d, k)' \/ pReqs'[d][k] = <<>> \/ (k = "normal" /\ async # "never")
           \/ pReqs'[d][k] = pReqs[d][k] /\ ff'[d] = ff[d] /\ ~Looks(e, d, k)
    PROVE  Unstranded(d, k)'
<1>1. \A f \in Emts : f # e => (Looks(f, d, k)' <=> Looks(f, d, k))
  BY EmtMoves DEF Moves, Looks, NormalKind
<1>2. (Telling(d)' <=> Telling(d)) /\ async' = async
  BY EmtMoves DEF Telling
<1> HIDE DEF Looks, Telling
<1> QED BY <1>1, <1>2 DEF Unstranded

\* No step strands a list.
LEMMA StrandedStep ==
    ASSUME TypeOK, LoopInv, NothingStranded, [Next]_vars PROVE NothingStranded'
<1> USE DEF reqVars, callVars, procVars, emtVars
<1> SUFFICES ASSUME NEW d \in Queues, NEW k \in Kinds PROVE Unstranded(d, k)'
  BY DEF NothingStranded, Unstranded, WillLook, Looks, Telling
<1>s. Unstranded(d, k)
  BY StrandedIs
<1>0. CASE UNCHANGED vars
  BY <1>0, <1>s DEF vars, Unstranded, Looks, Telling, NormalKind
<1>1. ASSUME NEW e \in Emts, LoopStep(e) \/ ProcessStep(e) \/ RunGuest(e) \/ WaitTimeout(e) PROVE Unstranded(d, k)'
  <2> SUFFICES \/ ff'[d] \/ Looks(e, d, k)' \/ pReqs'[d][k] = <<>> \/ (k = "normal" /\ async # "never")
               \/ pReqs'[d][k] = pReqs[d][k] /\ ff'[d] = ff[d] /\ ~Looks(e, d, k)
    BY <1>1, <1>s, EmtLeaves
  <2>0. UNCHANGED <<async, fPriorityOnly>> /\ (fPriorityOnly[e] => async # "never") /\ dst[e] \in Queues
    BY <1>1, EmtMoves DEF LoopInv, TypeOK
  <2>1. CASE LoopStep(e) \/ RunRequest(e) \/ CompleteRequest(e) \/ RunGuest(e) \/ WaitTimeout(e)
    <3>1. UNCHANGED <<pReqs, ff>> /\ pc[e] \in {"top", "look", "own", "idle", "setwait", "check", "block", "unwait", "run", "complete"}
      BY <2>1 DEF LoopStep, CheckAny, CheckOwn, WaitCall, SetWait, WaitCheck, Woken, ClearWait,
                  RunRequest, CompleteRequest, RunGuest, WaitTimeout
    <3> QED BY <3>1 DEF Looks
  <2>2. CASE ClearFF(e)
    <3>1. CASE d = dst[e]
      BY <2>2, <3>1 DEF ClearFF, Goto, TypeOK, Looks
    <3>2. CASE d # dst[e]
      BY <2>2, <3>2 DEF ClearFF, TypeOK, Looks
    <3> QED BY <3>1, <3>2
  <2>3. CASE TakePriority(e)
    <3> USE <2>3 DEF TakePriority
    <3>1. CASE pReqs[dst[e]]["priority"] # <<>>
      <4>1. Took(e, "priority", pReqs[dst[e]]["priority"], "peek")
        BY <3>1
      <4>2. Stored(dst[e], "priority", <<>>)
        BY <3>1, <4>1, Names, TakenOff DEF TypeOK, ListsType
      <4>3. CASE d # dst[e]
        BY <4>2, <4>3 DEF Stored, Looks
      <4>4. CASE d = dst[e] /\ k = "priority"
        BY <4>2, <4>4 DEF Stored
      <4>5. CASE d = dst[e] /\ k = "normal"
        <5>1. pc'[e] \in {"pushback", "peek"}
          BY <4>1 DEF Took, Goto, TypeOK
        <5> QED BY <2>0, <4>5, <5>1 DEF Looks, NormalKind
      <4> QED BY <4>3, <4>4, <4>5 DEF Kinds
    <3>2. CASE pReqs[dst[e]]["priority"] = <<>>
      <4>1. UNCHANGED <<pReqs, ff, dst>> /\ pc'[e] = "normal"
        BY <3>2 DEF Goto, TypeOK
      <4> QED BY <2>0, <3>2, <4>1 DEF Looks, NormalKind, Kinds
    <3> QED BY <3>1, <3>2
  <2>4. CASE PeekNormal(e)
    <3>1. UNCHANGED <<pReqs, ff, dst>> /\ pc[e] = "peek" /\ pc'[e] = IF MoreBehind(e) THEN "setff" ELSE "run"
      BY <2>4 DEF PeekNormal, Goto, TypeOK
    <3> QED BY <2>0, <3>1 DEF Looks, MoreBehind
  <2>5. CASE TakeNormal(e)
    <3> USE <2>5 DEF TakeNormal
    <3> DEFINE n == NormalKind(e)
    <3>0. n \in Kinds
      BY Names DEF NormalKind
    <3>1. CASE pReqs[dst[e]][n] # <<>>
      <4>1. Took(e, n, pReqs[dst[e]][n], "run")
        BY <3>1
      <4>2. Stored(dst[e], n, <<>>)
        BY <3>0, <3>1, <4>1, TakenOff DEF TypeOK, ListsType
      <4> QED BY <4>2 DEF Stored, Looks
    <3>2. CASE pReqs[dst[e]][n] = <<>>
      <4>1. UNCHANGED <<pReqs, ff>>
        BY <3>2
      <4> QED BY <3>2, <4>1 DEF Looks
    <3> QED BY <3>1, <3>2
  <2>6. CASE PushBack(e)
    <3>1. Stored(dst[e], kind[e], pReqList[e])
      BY <2>6, StoredAt DEF PushBack, TypeOK, ListsType
    <3>2. pc'[e] = "setff" /\ UNCHANGED <<dst, ff>>
      BY <2>6 DEF PushBack, PushedBack, Goto, TypeOK
    <3> QED BY <3>1, <3>2 DEF Stored, Looks
  <2>7. CASE PushBackRaces(e)
    BY <2>7 DEF PushBackRaces, Goto, TypeOK, Looks
  <2>8. CASE JoinNewcomers(e)
    <3>1. Stored(dst[e], kind[e], <<>>)
      BY <2>8, StoredAt, EmptyList DEF JoinNewcomers, TypeOK, ListsType
    <3>2. pc'[e] = "pushback" /\ UNCHANGED <<dst, ff>>
      BY <2>8 DEF JoinNewcomers, Goto, TypeOK
    <3> QED BY <3>1, <3>2 DEF Stored, Looks
  <2>9. CASE SetFF(e)
    BY <2>9 DEF SetFF, TypeOK, Looks
  <2> QED BY <1>1, <2>1, <2>2, <2>3, <2>4, <2>5, <2>6, <2>7, <2>8, <2>9 DEF ProcessStep
<1>2. ASSUME NEW r \in Reqs, ReqQueue(r) \/ RequesterStep(r) PROVE Unstranded(d, k)'
  <2>1. \A e \in Emts : Looks(e, d, k)' <=> Looks(e, d, k)
    BY <1>2, RequesterMoves DEF Looks, NormalKind
  <2>2. async' = async /\ \A q \in Reqs : q # r => rpc'[q] = rpc[q] /\ idDstCpu'[q] = idDstCpu[q]
    BY <1>2, RequesterMoves
  <2>3. ASSUME \/ Telling(d)' \/ ff'[d]
               \/ pReqs'[d][k] = pReqs[d][k] /\ ff'[d] = ff[d] /\ ~(rpc[r] = "setff" /\ idDstCpu[r] = d)
        PROVE  Unstranded(d, k)'
    <3>1. ~(rpc[r] = "setff" /\ idDstCpu[r] = d) /\ Telling(d) => Telling(d)'
      BY <2>2 DEF Telling
    <3> HIDE DEF Looks, Telling
    <3> QED BY <1>s, <2>1, <2>2, <2>3, <3>1 DEF Unstranded
  <2>4. ASSUME rpc[r] # "setff", Push(r), idDstCpu'[r] \in Queues, fPriority'[r] \in BOOLEAN, UNCHANGED ff
        PROVE  Unstranded(d, k)'
    <3>1. CASE d = idDstCpu'[r]
      <4>1. Telling(d)'
        BY <2>4, <3>1 DEF Push, Telling, TypeOK
      <4> QED BY <2>3, <4>1
    <3>2. CASE d # idDstCpu'[r]
      <4>0. pReqs \in ListsType
        BY DEF TypeOK, ListsType
      <4>1. pReqs'[d][k] = pReqs[d][k]
        BY <2>4, <3>2, <4>0, Pushed DEF Stored
      <4> QED BY <2>3, <2>4, <4>1
    <3> QED BY <3>1, <3>2
  <2>5. CASE ReqQueue(r)
    <3>1. TypeOK'
      BY <1>2, TypeStep DEF Next
    <3> QED BY <2>4, <2>5, <3>1 DEF ReqQueue, TypeOK
  <2>6. CASE ReqSetFF(r)
    <3>1. ff'[d] \/ (UNCHANGED pReqs /\ ff'[d] = ff[d] /\ idDstCpu[r] # d)
      BY <2>6 DEF ReqSetFF, TypeOK
    <3> QED BY <2>3, <3>1
  <2>7. CASE ReqNotify(r)
    BY <2>3, <2>7 DEF ReqNotify
  <2>8. CASE ReqWaitReturns(r)
    <3>1. TypeOK'
      BY <1>2, TypeStep DEF Next
    <3>2. CASE Push(r)
      BY <2>4, <2>8, <3>1, <3>2 DEF ReqWaitReturns, TypeOK
    <3>3. CASE ~Push(r)
      BY <2>3, <2>8, <3>3 DEF ReqWaitReturns
    <3> QED BY <3>2, <3>3
  <2> QED BY <1>2, <2>5, <2>6, <2>7, <2>8 DEF RequesterStep
<1>3. CASE AsyncBegin \/ AsyncStep
  <2>1. /\ UNCHANGED <<pReqs, rpc, idDstCpu, dst>> /\ async' # "never" /\ (ff[d] => ff'[d])
        /\ \A f \in Emts : pc'[f] = pc[f] => fPriorityOnly'[f] = fPriorityOnly[f]
        /\ \A f \in Emts : pc'[f] # pc[f] => pc[f] \in {"top", "async"}
    BY <1>3, AsyncMoves DEF Moves
  <2>2. \A f \in Emts : Looks(f, d, k) => Looks(f, d, k)'
    BY <2>1 DEF Looks, NormalKind
  <2>3. Telling(d)' <=> Telling(d)
    BY <2>1 DEF Telling
  <2> HIDE DEF Looks, Telling
  <2> QED BY <1>s, <2>1, <2>2, <2>3 DEF Unstranded, Kinds
<1> QED BY <1>0, <1>1, <1>2, <1>3 DEF Next

-----------------------------------------------------------------------------
(* No EMT sleeps through a flag *)

\* No step loses a wakeup.
LEMMA WakeupStep ==
    ASSUME TypeOK, LoopInv, NoLostWakeup, [Next]_vars PROVE NoLostWakeup'
<1> USE DEF reqVars, callVars, procVars, emtVars
<1> DEFINE Own(e) == \E r \in Reqs : rpc[r] = "notify" /\ idDstCpu[r] = e
           Common(e) == \E r \in Reqs : rpc[r] = "notify" /\ idDstCpu[r] = ANY /\ iCpu[r] <= e
           Awake == async = "notify" \/ \E f \in Emts : ~Blocked(f)
<1> SUFFICES ASSUME NEW e \in Emts, Blocked(e)'
             PROVE  (ff'[e] => Own(e)') /\ (ff'[ANY] => Common(e)' \/ Awake')
  BY DEF NoLostWakeup
<1>n. /\ e \in Queues /\ ANY \in Queues /\ e # ANY
      /\ Blocked(e) => (ff[e] => Own(e)) /\ (ff[ANY] => Common(e) \/ Awake)
  BY Names DEF NoLostWakeup
<1>0. CASE UNCHANGED vars
  BY <1>0, <1>n DEF vars, Blocked
<1>1. ASSUME NEW f \in Emts, LoopStep(f) \/ ProcessStep(f) \/ RunGuest(f) \/ WaitTimeout(f)
      PROVE  (ff'[e] => Own(e)') /\ (ff'[ANY] => Common(e)' \/ Awake')
  <2>1. /\ pc'[f] = "block" => UNCHANGED ff /\ ~ff[ANY] /\ ~ff[f]
        /\ UNCHANGED <<rpc, idDstCpu>>
        /\ f # e => pc'[e] = pc[e] /\ EventSemWait'[e] = EventSemWait[e] /\ ff'[e] = ff[e]
    <3>1. f # e => ff'[e] = ff[e]
      <4>1. UNCHANGED ff \/ \E v \in BOOLEAN : ff' = [ff EXCEPT ![dst[f]] = v]
        BY <1>1, EmtMoves
      <4>2. f # e => dst[f] # e
        BY <1>n DEF LoopInv
      <4> QED BY <1>n, <4>1, <4>2 DEF TypeOK
    <3> QED BY <1>1, <3>1, EmtMoves DEF Moves
  <2>2. CASE f = e
    BY <2>1, <2>2 DEF Blocked
  <2>3. CASE f # e
    <3>1. Blocked(e)
      BY <2>1, <2>3 DEF Blocked
    <3>2. ff'[e] => Own(e)'
      BY <1>n, <2>1, <2>3, <3>1
    <3>3. ff'[ANY] => ~Blocked(f)'
      BY <2>1 DEF Blocked
    <3> QED BY <3>2, <3>3
  <2> QED BY <2>2, <2>3
<1>2. ASSUME NEW r \in Reqs, ReqQueue(r) \/ RequesterStep(r)
      PROVE  (ff'[e] => Own(e)') /\ (ff'[ANY] => Common(e)' \/ Awake')
  <2>1. /\ UNCHANGED <<pc, async, fWait>> /\ \A f \in Emts : EventSemWait[f] => EventSemWait'[f]
        /\ \A q \in Reqs : q # r => rpc'[q] = rpc[q] /\ idDstCpu'[q] = idDstCpu[q] /\ iCpu'[q] = iCpu[q]
    BY <1>2, RequesterMoves
  <2>2. Blocked(e) /\ (Awake => Awake')
    BY <2>1 DEF Blocked
  <2> HIDE DEF Awake
  <2>3. CASE rpc[r] # "notify" /\ UNCHANGED ff
    <3>1. (Own(e) => Own(e)') /\ (Common(e) => Common(e)')
      BY <2>1, <2>3
    <3> QED BY <1>n, <2>2, <2>3, <3>1
  <2>4. CASE ReqQueue(r) \/ ReqWaitReturns(r)
    BY <2>3, <2>4 DEF ReqQueue, ReqWaitReturns
  <2>5. CASE ReqSetFF(r)
    <3>1. (Own(e) => Own(e)') /\ (Common(e) => Common(e)')
      BY <2>1, <2>5 DEF ReqSetFF
    <3>2. ff'[e] => Own(e)'
      BY <1>n, <2>2, <2>5, <3>1 DEF ReqSetFF, TypeOK
    <3>3. ff'[ANY] => Common(e)' \/ Awake'
      <4>1. CASE idDstCpu[r] = ANY
        <5>1. rpc'[r] = "notify" /\ idDstCpu'[r] = ANY /\ iCpu'[r] = 0
          BY <2>5, <4>1 DEF ReqSetFF, TypeOK
        <5> QED BY <5>1 DEF Emts
      <4>2. CASE idDstCpu[r] # ANY
        BY <1>n, <2>2, <2>5, <3>1, <4>2 DEF ReqSetFF, TypeOK
      <4> QED BY <4>1, <4>2
    <3> QED BY <3>2, <3>3
  <2>6. CASE ReqNotify(r)
    <3>1. e # iCpu[r]
      BY <2>1, <2>6 DEF ReqNotify, Blocked, LoopInv, TypeOK
    <3>2. Own(e) => Own(e)'
      <4>1. ~(rpc[r] = "notify" /\ idDstCpu[r] = e)
        BY <1>n, <3>1 DEF LoopInv
      <4> QED BY <2>1, <4>1
    <3>3. Common(e) => Common(e)'
      <4>1. CASE idDstCpu[r] = ANY /\ iCpu[r] <= e
        <5>0. e \in Int /\ iCpu[r] \in Int /\ e <= cCpus - 1 /\ cCpus \in Int
          BY CpusAssumption DEF Emts, TypeOK
        <5>1. iCpu[r] < e /\ iCpu[r] < LastToNotify(r)
          BY <3>1, <4>1, <5>0 DEF LastToNotify
        <5>2. rpc'[r] = "notify" /\ idDstCpu'[r] = ANY /\ iCpu'[r] = iCpu[r] + 1
          BY <2>6, <4>1, <5>1 DEF ReqNotify, TypeOK
        <5> QED BY <5>0, <5>1, <5>2
      <4>2. CASE ~(idDstCpu[r] = ANY /\ iCpu[r] <= e)
        BY <2>1, <4>2
      <4> QED BY <4>1, <4>2
    <3> QED BY <1>n, <2>2, <2>6, <3>2, <3>3 DEF ReqNotify
  <2> QED BY <1>2, <2>4, <2>5, <2>6 DEF RequesterStep
<1>3. CASE AsyncBegin \/ AsyncLoop
  <2>1. pc'[0] # "block" /\ 0 \in Emts
    BY <1>3, Names DEF AsyncBegin, AsyncLoop, Goto, TypeOK
  <2>2. UNCHANGED <<ff, rpc, idDstCpu, EventSemWait>> /\ (e # 0 => pc'[e] = pc[e])
    BY <1>3 DEF AsyncBegin, AsyncLoop, Goto, TypeOK
  <2>3. Blocked(e)
    BY <2>1, <2>2 DEF Blocked
  <2> QED BY <1>n, <2>1, <2>2, <2>3 DEF Blocked
<1>4. CASE AsyncDone
  BY <1>4, <1>n DEF AsyncDone, Blocked
<1>5. CASE AsyncWakeupFF
  BY <1>5, <1>n DEF AsyncWakeupFF, Blocked, TypeOK
<1>6. CASE AsyncWakeupNotify
  <2>1. 0 \in Emts /\ ~Blocked(0)'
    BY <1>6, Names DEF AsyncWakeupNotify, Blocked, LoopInv, TypeOK
  <2>2. Blocked(e) /\ UNCHANGED <<ff, rpc, idDstCpu>>
    BY <1>6 DEF AsyncWakeupNotify, Blocked, TypeOK
  <2> QED BY <1>n, <2>1, <2>2
<1> QED BY <1>0, <1>1, <1>2, <1>3, <1>4, <1>5, <1>6 DEF Next, AsyncStep, AsyncPart

-----------------------------------------------------------------------------
(* Every request is in one place *)

\* A step that moves no request.
Rests ==
    /\ UNCHANGED <<pReqs, enmState, idDstCpu, fPriority, pReqList, pReq>>
    /\ \A e \in Emts :
          /\ pc'[e] \in Holding <=> pc[e] \in Holding
          /\ pc'[e] = "complete" <=> pc[e] = "complete"
          /\ \/ pReqList[e] = <<>>
             \/ dst'[e] = dst[e] /\ kind'[e] = kind[e] /\ pc'[e] \in {"pushback", "join"}

\* PlaceInv survives the steps that move no request,
LEMMA PlaceQuiet ==
    ASSUME TypeOK, PlaceInv, Rests PROVE PlaceInv'
<1> USE DEF PlaceInv, Rests
<1>1. OnceInv' /\ ListInv' /\ SomewhereInv'
  BY DEF OnceInv, ListInv, SomewhereInv
<1>2. \A e \in Emts, r \in Reqs : r \in ToSet(pReqList[e]) => dst'[e] = dst[e] /\ kind'[e] = kind[e]
  BY EmptyList
<1>3. PartInv'
  BY <1>2 DEF PartInv
<1>4. HandInv'
  BY DEF HandInv
<1> QED BY <1>1, <1>3, <1>4

\* A packet that is free or completed is nowhere.
LEMMA Nowhere ==
    ASSUME TypeOK, PlaceInv, NEW r \in Reqs, enmState[r] \notin {"queued", "processing"}
    PROVE  /\ \A d \in Queues, k \in Kinds : r \notin ToSet(pReqs[d][k])
           /\ \A e \in Emts : r \notin ToSet(pReqList[e]) /\ pReq[e] # r
BY NilAssumption DEF PlaceInv, ListInv, PartInv, HandInv

\* A push.
Pushes(r) ==
    /\ Push(r) /\ enmState[r] \notin {"queued", "processing"}
    /\ UNCHANGED <<pc, dst, kind, pReqList, pReq>>
    /\ \A q \in Reqs : q # r => idDstCpu'[q] = idDstCpu[q] /\ fPriority'[q] = fPriority[q]

\* a request that is queued,
LEMMA PlacePush ==
    ASSUME TypeOK, TypeOK', PlaceInv, NEW r \in Reqs, Pushes(r) PROVE PlaceInv'
<1> USE DEF Pushes
<1> DEFINE d == idDstCpu'[r]
           k == KindOf(r)
<1>0. /\ \A x \in Queues, y \in Kinds : r \notin ToSet(pReqs[x][y])
      /\ \A e \in Emts : r \notin ToSet(pReqList[e]) /\ pReq[e] # r
  BY Nowhere
<1>1. d \in Queues /\ k \in Kinds /\ Stored(d, k, <<r>> \o pReqs[d][k]) /\ (fPriority'[r] <=> k = "priority")
  <2>1. pReqs \in ListsType /\ idDstCpu'[r] \in Queues /\ fPriority'[r] \in BOOLEAN
    BY DEF TypeOK, ListsType
  <2> QED BY <2>1, Pushed
<1>2. enmState'[r] = "queued" /\ \A q \in Reqs : q # r => enmState'[q] = enmState[q]
  BY DEF Push, TypeOK
<1> HIDE DEF d, k
<1>3. /\ IsInjective(<<r>>) /\ ToSet(<<r>>) = {r} /\ <<r>> \in Seq(Reqs)
      /\ pReqs[d][k] \in Seq(Reqs) /\ IsInjective(pReqs[d][k])
  <2>1. IsInjective(<<r>>) /\ ToSet(<<r>>) = {r} /\ <<r>> \in Seq(Reqs)
    BY OneElement
  <2>2. pReqs[d][k] \in Seq(Reqs) /\ IsInjective(pReqs[d][k])
    BY <1>1 DEF TypeOK, PlaceInv, OnceInv
  <2> QED BY <2>1, <2>2
<1>4. /\ ToSet(<<r>> \o pReqs[d][k]) = {r} \cup ToSet(pReqs[d][k])
      /\ IsInjective(<<r>> \o pReqs[d][k])
  <2> DEFINE s == <<r>>
             u == pReqs[d][k]
  <2>1. /\ s \in Seq(Reqs) /\ u \in Seq(Reqs) /\ IsInjective(s) /\ IsInjective(u)
        /\ ToSet(s) = {r} /\ ToSet(s) \cap ToSet(u) = {}
    BY <1>0, <1>1, <1>3
  <2> HIDE DEF s, u
  <2>2. ToSet(s \o u) = {r} \cup ToSet(u) /\ IsInjective(s \o u)
    BY <2>1, JoinedLists
  <2> QED BY <2>2 DEF s, u
<1>5. \A x \in Queues, y \in Kinds :
          /\ ToSet(pReqs'[x][y]) = ToSet(pReqs[x][y]) \cup (IF x = d /\ y = k THEN {r} ELSE {})
          /\ IsInjective(pReqs'[x][y])
  BY <1>1, <1>4 DEF Stored, PlaceInv, OnceInv
<1>6. idDstCpu'[r] = d
  BY DEF d
<1> HIDE DEF Stored
<1> USE DEF PlaceInv
<1>7. OnceInv'
  BY <1>5 DEF OnceInv
<1>8. ListInv'
  BY <1>1, <1>2, <1>5, <1>6 DEF ListInv
<1>9. PartInv'
  <2> SUFFICES ASSUME NEW e \in Emts, NEW q \in Reqs, q \in ToSet(pReqList[e])
               PROVE  /\ enmState'[q] = "queued"
                      /\ idDstCpu'[q] = dst[e] /\ (fPriority'[q] <=> kind[e] = "priority")
                      /\ q \notin ToSet(pReqs'[dst[e]][kind[e]])
                      /\ \A f \in Emts : q \in ToSet(pReqList[f]) => e = f
    BY DEF PartInv
  <2>1. q # r
    BY <1>0
  <2>2. /\ enmState[q] = "queued" /\ idDstCpu[q] = dst[e] /\ (fPriority[q] <=> kind[e] = "priority")
        /\ q \notin ToSet(pReqs[dst[e]][kind[e]]) /\ \A f \in Emts : q \in ToSet(pReqList[f]) => e = f
    BY DEF PartInv
  <2>3. dst[e] \in Queues /\ kind[e] \in Kinds
    BY DEF TypeOK
  <2>4. q \notin ToSet(pReqs'[dst[e]][kind[e]])
    BY <1>5, <2>1, <2>2, <2>3
  <2> QED BY <1>2, <2>1, <2>2, <2>4
<1>10. HandInv'
  <2>1. ASSUME NEW f \in Emts, pReq[f] # NIL
        PROVE  /\ enmState'[pReq[f]] = enmState[pReq[f]]
               /\ \A u \in Queues, y \in Kinds : pReq[f] \notin ToSet(pReqs'[u][y])
    <3>1. pReq[f] \in Reqs /\ pReq[f] # r
      BY <1>0, <2>1 DEF TypeOK
    <3>2. \A u \in Queues, y \in Kinds : pReq[f] \notin ToSet(pReqs[u][y])
      BY <2>1 DEF HandInv
    <3> QED BY <1>2, <1>5, <3>1, <3>2
  <2> QED BY <2>1 DEF HandInv
<1>11. SomewhereInv'
  <2> SUFFICES ASSUME NEW q \in Reqs, enmState'[q] \in {"queued", "processing"}
               PROVE  \/ q \in ToSet(pReqs'[idDstCpu'[q]][IF fPriority'[q] THEN "priority" ELSE "normal"])
                      \/ \E e \in Emts : q \in ToSet(pReqList'[e]) \/ pReq'[e] = q
    BY DEF SomewhereInv
  <2>1. CASE q = r
    <3>1. (IF fPriority'[q] THEN "priority" ELSE "normal") = k
      BY <1>1, <2>1 DEF Kinds
    <3> QED BY <1>1, <1>5, <1>6, <2>1, <3>1
  <2>2. CASE q # r
    <3> DEFINE kq == IF fPriority[q] THEN "priority" ELSE "normal"
    <3>1. kq \in Kinds /\ idDstCpu[q] \in Queues
      BY Names DEF TypeOK
    <3>2. q \in ToSet(pReqs[idDstCpu[q]][kq]) \/ \E e \in Emts : q \in ToSet(pReqList[e]) \/ pReq[e] = q
      BY <1>2, <2>2 DEF SomewhereInv
    <3>3. q \in ToSet(pReqs[idDstCpu[q]][kq]) => q \in ToSet(pReqs'[idDstCpu[q]][kq])
      BY <1>5, <3>1
    <3> QED BY <2>2, <3>2, <3>3
  <2> QED BY <2>1, <2>2
<1> QED BY <1>7, <1>8, <1>9, <1>10, <1>11

\* A packet's last completed call ends: the packet is freed.
Frees(r) ==
    /\ enmState[r] = "completed" /\ enmState' = [enmState EXCEPT ![r] = "free"]
    /\ UNCHANGED <<pc, dst, kind, pReqList, pReq, pReqs, idDstCpu, fPriority>>

\* one that is freed,
LEMMA PlaceFree ==
    ASSUME TypeOK, PlaceInv, NEW r \in Reqs, Frees(r) PROVE PlaceInv'
<1> USE DEF Frees
<1>0. /\ \A x \in Queues, y \in Kinds : r \notin ToSet(pReqs[x][y])
      /\ \A e \in Emts : r \notin ToSet(pReqList[e]) /\ pReq[e] # r
  BY Nowhere
<1>1. enmState'[r] = "free" /\ \A q \in Reqs : q # r => enmState'[q] = enmState[q]
  BY DEF TypeOK
<1> USE DEF PlaceInv
<1>2. OnceInv'
  BY DEF OnceInv
<1>3. ListInv'
  BY <1>0, <1>1 DEF ListInv
<1>4. PartInv'
  BY <1>0, <1>1 DEF PartInv
<1>5. HandInv'
  BY <1>0, <1>1 DEF HandInv, TypeOK
<1>6. SomewhereInv'
  BY <1>1 DEF SomewhereInv
<1> QED BY <1>2, <1>3, <1>4, <1>5, <1>6

\* What is on the list that an EMT pushes back to, is not in another EMT's part.
LEMMA OnePart ==
    ASSUME TypeOK, PlaceInv, NEW d \in Queues, NEW k \in Kinds, NEW r \in Reqs, r \in ToSet(pReqs[d][k])
    PROVE  /\ \A f \in Emts : r \notin ToSet(pReqList[f]) /\ pReq[f] # r
           /\ \A x \in Queues, y \in Kinds : r \in ToSet(pReqs[x][y]) => x = d /\ y = k
<1>1. enmState[r] = "queued" /\ idDstCpu[r] = d /\ (fPriority[r] <=> k = "priority")
  BY DEF PlaceInv, ListInv
<1>2. ASSUME NEW f \in Emts PROVE r \notin ToSet(pReqList[f])
  <2>1. SUFFICES ASSUME r \in ToSet(pReqList[f]) PROVE FALSE
    OBVIOUS
  <2>2. idDstCpu[r] = dst[f] /\ (fPriority[r] <=> kind[f] = "priority") /\ r \notin ToSet(pReqs[dst[f]][kind[f]])
    BY <2>1 DEF PlaceInv, PartInv
  <2>3. kind[f] = k
    BY <1>1, <2>2 DEF TypeOK, Kinds
  <2> QED BY <1>1, <2>2, <2>3
<1>3. \A f \in Emts : pReq[f] # r
  BY NilAssumption DEF PlaceInv, HandInv
<1>4. \A x \in Queues, y \in Kinds : r \in ToSet(pReqs[x][y]) => x = d /\ y = k
  BY <1>1 DEF PlaceInv, ListInv, Kinds
<1> QED BY <1>2, <1>3, <1>4

\* A list is taken off.
Takes(e, k, single) ==
    /\ pc[e] \in {"priority", "normal"} /\ pReqs[dst[e]][k] # <<>>
    /\ Took(e, k, pReqs[dst[e]][k], single)
    /\ UNCHANGED <<enmState, idDstCpu, fPriority, dst>>

\* a list that is taken,
LEMMA PlaceTake ==
    ASSUME TypeOK, PlaceInv, NEW e \in Emts, NEW k \in Kinds, NEW single \in {"peek", "run"}, Takes(e, k, single)
    PROVE  PlaceInv'
<1> USE DEF Takes
<1> DEFINE d == dst[e]
           list == pReqs[d][k]
           x == Last(list)
           others == Front(list)
<1>0. d \in Queues /\ pReqList[e] = <<>> /\ ToSet(pReqList[e]) = {} /\ pReq[e] = NIL
  BY EmptyList DEF TypeOK, PlaceInv, HandInv, Holding
<1>1. /\ list \in Seq(Reqs) /\ x \in Reqs /\ others \in Seq(Reqs) /\ Stored(d, k, <<>>)
      /\ pReq' = [pReq EXCEPT ![e] = x] /\ pReqList' = [pReqList EXCEPT ![e] = others]
  BY TakenOff DEF TypeOK, ListsType
<1>2. kind' = [kind EXCEPT ![e] = k] /\ pc' = [pc EXCEPT ![e] = IF Len(list) > 1 THEN "pushback" ELSE single]
  BY DEF Took, Goto
<1>3. list # <<>> /\ IsInjective(list)
  BY <1>0 DEF PlaceInv, OnceInv
<1> HIDE DEF list, x, others
<1>4. ToSet(list) = ToSet(others) \cup {x} /\ IsInjective(others) /\ x \notin ToSet(others) /\ (Len(list) <= 1 => others = <<>>)
  BY <1>1, <1>3, ChoppedList DEF x, others
<1> HIDE DEF d
<1>5. /\ ToSet(pReqs[d][k]) = ToSet(others) \cup {x}
      /\ \A u \in Queues, y \in Kinds :
            /\ ToSet(pReqs'[u][y]) = IF u = d /\ y = k THEN {} ELSE ToSet(pReqs[u][y])
            /\ IsInjective(pReqs'[u][y])
  <2>1. ToSet(pReqs[d][k]) = ToSet(others) \cup {x}
    BY <1>4 DEF list
  <2> QED BY <1>1, <2>1, EmptyList DEF Stored, PlaceInv, OnceInv
<1>6. /\ pReq'[e] = x /\ pReqList'[e] = others /\ kind'[e] = k /\ dst'[e] = d /\ dst[e] = d
      /\ \A f \in Emts : f # e => pReq'[f] = pReq[f] /\ pReqList'[f] = pReqList[f] /\ kind'[f] = kind[f]
                                  /\ pc'[f] = pc[f] /\ dst'[f] = dst[f]
  BY <1>1, <1>2 DEF TypeOK, d
<1>7. pc'[e] \in {"pushback", "peek", "run"} /\ (others # <<>> => pc'[e] = "pushback")
  <2>1. Len(list) \in Nat
    BY <1>1
  <2>2. others # <<>> => Len(list) > 1
    BY <1>4, <2>1
  <2> QED BY <1>2, <2>2 DEF TypeOK
<1>8. ASSUME NEW r \in Reqs, r \in ToSet(others) \/ r = x
      PROVE  /\ enmState[r] = "queued" /\ idDstCpu[r] = d /\ (fPriority[r] <=> k = "priority")
             /\ \A f \in Emts : r \notin ToSet(pReqList[f]) /\ pReq[f] # r
             /\ \A u \in Queues, y \in Kinds : r \notin ToSet(pReqs'[u][y])
  <2>1. r \in ToSet(pReqs[d][k])
    BY <1>5, <1>8
  <2> QED BY <1>0, <1>5, <2>1, OnePart DEF PlaceInv, ListInv
<1> USE DEF PlaceInv
<1>9. OnceInv'
  BY <1>4, <1>5, <1>6 DEF OnceInv
<1>10. ListInv'
  BY <1>5 DEF ListInv
<1>11. PartInv'
  <2> SUFFICES ASSUME NEW f \in Emts, NEW r \in Reqs, r \in ToSet(pReqList'[f])
               PROVE  /\ enmState[r] = "queued"
                      /\ idDstCpu[r] = dst'[f] /\ (fPriority[r] <=> kind'[f] = "priority")
                      /\ r \notin ToSet(pReqs'[dst'[f]][kind'[f]])
                      /\ \A g \in Emts : r \in ToSet(pReqList'[g]) => f = g
    BY DEF PartInv
  <2>1. CASE f = e
    BY <1>0, <1>6, <1>8, <2>1
  <2>2. CASE f # e
    <3>1. r \in ToSet(pReqList[f])
      BY <1>6, <2>2
    <3>2. /\ enmState[r] = "queued" /\ idDstCpu[r] = dst[f] /\ (fPriority[r] <=> kind[f] = "priority")
          /\ r \notin ToSet(pReqs[dst[f]][kind[f]]) /\ \A g \in Emts : r \in ToSet(pReqList[g]) => f = g
      BY <3>1 DEF PartInv
    <3>3. r \notin ToSet(others)
      BY <1>8, <3>1
    <3>4. dst[f] \in Queues /\ kind[f] \in Kinds
      BY DEF TypeOK
    <3> QED BY <1>5, <1>6, <2>2, <3>2, <3>3, <3>4
  <2> QED BY <2>1, <2>2
<1>12. HandInv'
  <2>1. \A f \in Emts : pReq'[f] = NIL <=> pc'[f] \notin Holding
    BY <1>1, <1>6, <1>7, NilAssumption DEF HandInv, Holding
  <2>2. \A f \in Emts : pReqList'[f] # <<>> => pc'[f] \in {"pushback", "join"}
    BY <1>6, <1>7 DEF HandInv
  <2>3. ASSUME NEW f \in Emts, pReq'[f] # NIL
        PROVE  /\ enmState'[pReq'[f]] = IF pc'[f] = "complete" THEN "processing" ELSE "queued"
               /\ \A u \in Queues, y \in Kinds : pReq'[f] \notin ToSet(pReqs'[u][y])
               /\ \A g \in Emts : pReq'[f] \notin ToSet(pReqList'[g])
               /\ \A g \in Emts : pReq'[g] = pReq'[f] => f = g
    <3>1. CASE f = e
      BY <1>1, <1>4, <1>6, <1>7, <1>8, <3>1
    <3>2. CASE f # e
      <4>1. pReq'[f] = pReq[f] /\ pReq[f] \in Reqs /\ pc'[f] = pc[f] /\ pReq[f] # NIL
        BY <1>6, <2>3, <3>2 DEF TypeOK
      <4>2. pReq[f] \notin ToSet(others) /\ pReq[f] # x
        BY <1>8, <4>1
      <4> QED BY <1>5, <1>6, <3>2, <4>1, <4>2 DEF HandInv
    <3> QED BY <3>1, <3>2
  <2> QED BY <2>1, <2>2, <2>3 DEF HandInv
<1>13. SomewhereInv'
  <2> SUFFICES ASSUME NEW q \in Reqs, enmState'[q] \in {"queued", "processing"}
               PROVE  \/ q \in ToSet(pReqs'[idDstCpu'[q]][IF fPriority'[q] THEN "priority" ELSE "normal"])
                      \/ \E f \in Emts : q \in ToSet(pReqList'[f]) \/ pReq'[f] = q
    BY DEF SomewhereInv
  <2> DEFINE kq == IF fPriority[q] THEN "priority" ELSE "normal"
  <2>1. q \in ToSet(pReqs[idDstCpu[q]][kq]) \/ \E f \in Emts : q \in ToSet(pReqList[f]) \/ pReq[f] = q
    BY DEF SomewhereInv
  <2>2. idDstCpu[q] \in Queues /\ kq \in Kinds
    BY Names DEF TypeOK
  <2>3. CASE \E f \in Emts : q \in ToSet(pReqList[f]) \/ pReq[f] = q
    <3>1. PICK f \in Emts : q \in ToSet(pReqList[f]) \/ pReq[f] = q
      BY <2>3
    <3>2. f # e
      BY <1>0, <3>1, NilAssumption
    <3> QED BY <1>6, <3>1, <3>2
  <2>4. CASE q \in ToSet(pReqs[idDstCpu[q]][kq])
    <3>1. CASE idDstCpu[q] = d /\ kq = k
      BY <1>5, <1>6, <2>4, <3>1
    <3>2. CASE ~(idDstCpu[q] = d /\ kq = k)
      <4>1. q \in ToSet(pReqs'[idDstCpu[q]][kq])
        BY <1>5, <2>2, <2>4, <3>2
      <4> QED BY <4>1
    <3> QED BY <3>1, <3>2
  <2> QED BY <2>1, <2>3, <2>4
<1> QED BY <1>9, <1>10, <1>11, <1>12, <1>13

\* The part goes back.
LEMMA PlaceBack ==
    ASSUME TypeOK, PlaceInv, NEW e \in Emts, PushBack(e)
    PROVE  PlaceInv'
<1> DEFINE d == dst[e]
           k == kind[e]
<1> USE DEF reqVars, callVars
<1>0. d \in Queues /\ k \in Kinds /\ pReqList[e] \in Seq(Reqs) /\ ToSet(<<>>) = {} /\ ToSet(pReqs[d][k]) = {} /\ IsInjective(<<>>)
  BY EmptyList DEF TypeOK, PushBack
<1>1. Stored(d, k, pReqList[e])
  BY <1>0, StoredAt DEF PushBack, TypeOK, ListsType
<1>2. /\ pReqList'[e] = <<>> /\ pc'[e] = "setff" /\ pc[e] = "pushback"
      /\ \A f \in Emts : f # e => pReqList'[f] = pReqList[f] /\ pc'[f] = pc[f]
      /\ UNCHANGED <<enmState, idDstCpu, fPriority, dst, kind, pReq>>
  BY DEF PushBack, PushedBack, Goto, TypeOK
<1>3. d = dst[e] /\ k = kind[e]
  OBVIOUS
<1> HIDE DEF d, k
<1>4. \A u \in Queues, y \in Kinds :
            /\ ToSet(pReqs'[u][y]) = IF u = d /\ y = k THEN ToSet(pReqList[e]) ELSE ToSet(pReqs[u][y])
            /\ IsInjective(pReqs'[u][y])
  BY <1>1 DEF Stored, PlaceInv, OnceInv
<1>5. ToSet(pReqList'[e]) = {}
  BY <1>0, <1>2
<1> USE DEF PlaceInv
<1>6. OnceInv'
  BY <1>0, <1>2, <1>4 DEF OnceInv
<1>7. ListInv'
  BY <1>2, <1>3, <1>4 DEF ListInv, PartInv
<1>8. PartInv'
  <2> SUFFICES ASSUME NEW f \in Emts, NEW r \in Reqs, r \in ToSet(pReqList'[f])
               PROVE  /\ enmState[r] = "queued"
                      /\ idDstCpu[r] = dst[f] /\ (fPriority[r] <=> kind[f] = "priority")
                      /\ r \notin ToSet(pReqs'[dst[f]][kind[f]])
                      /\ \A g \in Emts : r \in ToSet(pReqList'[g]) => f = g
    BY <1>2 DEF PartInv
  <2>1. f # e /\ r \in ToSet(pReqList[f])
    BY <1>2, <1>5
  <2>2. /\ enmState[r] = "queued" /\ idDstCpu[r] = dst[f] /\ (fPriority[r] <=> kind[f] = "priority")
        /\ r \notin ToSet(pReqs[dst[f]][kind[f]]) /\ \A g \in Emts : r \in ToSet(pReqList[g]) => f = g
    BY <2>1 DEF PartInv
  <2>3. r \notin ToSet(pReqList[e]) /\ dst[f] \in Queues /\ kind[f] \in Kinds
    BY <2>1, <2>2 DEF TypeOK
  <2>4. r \notin ToSet(pReqs'[dst[f]][kind[f]])
    BY <1>4, <2>2, <2>3
  <2>5. \A g \in Emts : r \in ToSet(pReqList'[g]) => f = g
    BY <1>2, <1>5, <2>2
  <2> QED BY <2>2, <2>4, <2>5
<1>9. HandInv'
  <2>1. \A f \in Emts : pReq'[f] = NIL <=> pc'[f] \notin Holding
    BY <1>2 DEF HandInv, Holding
  <2>2. \A f \in Emts : pReqList'[f] # <<>> => pc'[f] \in {"pushback", "join"}
    BY <1>2 DEF HandInv
  <2>3. ASSUME NEW f \in Emts, pReq[f] # NIL
        PROVE  /\ enmState[pReq[f]] = IF pc'[f] = "complete" THEN "processing" ELSE "queued"
               /\ \A u \in Queues, y \in Kinds : pReq[f] \notin ToSet(pReqs'[u][y])
               /\ \A g \in Emts : pReq[f] \notin ToSet(pReqList'[g])
               /\ \A g \in Emts : pReq[g] = pReq[f] => f = g
    <3>1. /\ enmState[pReq[f]] = IF pc[f] = "complete" THEN "processing" ELSE "queued"
          /\ \A u \in Queues, y \in Kinds : pReq[f] \notin ToSet(pReqs[u][y])
          /\ \A g \in Emts : pReq[f] \notin ToSet(pReqList[g])
          /\ \A g \in Emts : pReq[g] = pReq[f] => f = g
      BY <2>3 DEF HandInv
    <3> QED BY <1>2, <1>4, <1>5, <3>1
  <2> QED BY <1>2, <2>1, <2>2, <2>3 DEF HandInv
<1>10. SomewhereInv'
  <2> SUFFICES ASSUME NEW q \in Reqs, enmState[q] \in {"queued", "processing"}
               PROVE  \/ q \in ToSet(pReqs'[idDstCpu[q]][IF fPriority[q] THEN "priority" ELSE "normal"])
                      \/ \E f \in Emts : q \in ToSet(pReqList'[f]) \/ pReq[f] = q
    BY <1>2 DEF SomewhereInv
  <2> DEFINE kq == IF fPriority[q] THEN "priority" ELSE "normal"
  <2>1. q \in ToSet(pReqs[idDstCpu[q]][kq]) \/ \E f \in Emts : q \in ToSet(pReqList[f]) \/ pReq[f] = q
    BY DEF SomewhereInv
  <2>2. idDstCpu[q] \in Queues /\ kq \in Kinds
    BY Names DEF TypeOK
  <2>3. CASE q \in ToSet(pReqList[e])
    <3>1. idDstCpu[q] = d /\ kq = k
      BY <1>0, <1>3, <2>3 DEF PartInv, Kinds
    <3>2. q \in ToSet(pReqs'[idDstCpu[q]][kq])
      BY <1>0, <1>4, <2>3, <3>1
    <3> QED BY <3>2
  <2>4. CASE \E f \in Emts : (f # e /\ q \in ToSet(pReqList[f])) \/ pReq[f] = q
    BY <1>2, <2>4
  <2>5. CASE q \in ToSet(pReqs[idDstCpu[q]][kq])
    <3>1. ~(idDstCpu[q] = d /\ kq = k)
      BY <1>0, <2>5
    <3>2. q \in ToSet(pReqs'[idDstCpu[q]][kq])
      BY <1>4, <2>2, <2>5, <3>1
    <3> QED BY <3>2
  <2> QED BY <2>1, <2>3, <2>4, <2>5
<1> QED BY <1>6, <1>7, <1>8, <1>9, <1>10

\* The newcomers are put in front of the part.
LEMMA PlaceJoin ==
    ASSUME TypeOK, PlaceInv, NEW e \in Emts, JoinNewcomers(e)
    PROVE  PlaceInv'
<1> DEFINE d == dst[e]
           k == kind[e]
           newer == pReqs[d][k]
           all == IF newer # <<>> THEN newer \o pReqList[e] ELSE pReqList[e]
<1> USE DEF reqVars, callVars
<1>0. d \in Queues /\ k \in Kinds /\ pReqList[e] \in Seq(Reqs) /\ newer \in Seq(Reqs)
  BY DEF TypeOK
<1>e. ToSet(<<>>) = {} /\ <<>> \in Seq(Reqs) /\ IsInjective(<<>>)
  BY EmptyList
<1>1. Stored(d, k, <<>>)
  BY <1>0, <1>e, StoredAt DEF JoinNewcomers, TypeOK, ListsType
<1>2. /\ pReqList'[e] = all /\ pc'[e] = "pushback" /\ pc[e] = "join"
      /\ \A f \in Emts : f # e => pReqList'[f] = pReqList[f] /\ pc'[f] = pc[f]
      /\ UNCHANGED <<enmState, idDstCpu, fPriority, dst, kind, pReq>>
  BY DEF JoinNewcomers, Join, Goto, TypeOK
<1>3. d = dst[e] /\ k = kind[e] /\ newer = pReqs[d][k]
  OBVIOUS
<1>4. ToSet(newer) \cap ToSet(pReqList[e]) = {} /\ IsInjective(newer) /\ IsInjective(pReqList[e]) /\ ToSet(newer) \subseteq Reqs
  <2>1. \A r \in ToSet(newer) : r \in Reqs
    BY <1>0 DEF ToSet
  <2>2. \A r \in Reqs : r \in ToSet(newer) => r \notin ToSet(pReqList[e])
    BY DEF PlaceInv, PartInv
  <2>3. IsInjective(newer) /\ IsInjective(pReqList[e])
    BY <1>0 DEF PlaceInv, OnceInv
  <2> HIDE DEF newer
  <2> QED BY <2>1, <2>2, <2>3
<1> HIDE DEF newer
<1>5. ToSet(all) = ToSet(newer) \cup ToSet(pReqList[e]) /\ IsInjective(all)
  <2>1. CASE newer # <<>>
    BY <1>0, <1>4, <2>1, JoinedLists
  <2>2. CASE newer = <<>>
    BY <1>4, <1>e, <2>2
  <2> QED BY <2>1, <2>2
<1> HIDE DEF d, k, all
<1>6. /\ ToSet(pReqList'[e]) = ToSet(pReqs[d][k]) \cup ToSet(pReqList[e]) /\ IsInjective(pReqList'[e])
      /\ \A u \in Queues, y \in Kinds :
            /\ ToSet(pReqs'[u][y]) = IF u = d /\ y = k THEN {} ELSE ToSet(pReqs[u][y])
            /\ IsInjective(pReqs'[u][y])
  BY <1>1, <1>2, <1>3, <1>5, <1>e DEF Stored, PlaceInv, OnceInv
<1> USE DEF PlaceInv
<1>7. OnceInv'
  BY <1>2, <1>6 DEF OnceInv
<1>8. ListInv'
  BY <1>2, <1>6 DEF ListInv
<1>9. ASSUME NEW r \in Reqs, r \in ToSet(pReqList'[e])
      PROVE  /\ enmState[r] = "queued" /\ idDstCpu[r] = d /\ (fPriority[r] <=> k = "priority")
             /\ \A f \in Emts : (f # e => r \notin ToSet(pReqList[f])) /\ pReq[f] # r
  <2>1. CASE r \in ToSet(pReqs[d][k])
    BY <1>0, <2>1, OnePart DEF ListInv
  <2>2. CASE r \in ToSet(pReqList[e])
    BY <1>3, <2>2, NilAssumption DEF PartInv, HandInv
  <2> QED BY <1>6, <1>9, <2>1, <2>2
<1>10. PartInv'
  <2> SUFFICES ASSUME NEW f \in Emts, NEW r \in Reqs, r \in ToSet(pReqList'[f])
               PROVE  /\ enmState[r] = "queued"
                      /\ idDstCpu[r] = dst[f] /\ (fPriority[r] <=> kind[f] = "priority")
                      /\ r \notin ToSet(pReqs'[dst[f]][kind[f]])
                      /\ \A g \in Emts : r \in ToSet(pReqList'[g]) => f = g
    BY <1>2 DEF PartInv
  <2>1. CASE f = e
    BY <1>0, <1>2, <1>3, <1>6, <1>9, <2>1
  <2>2. CASE f # e
    <3>1. r \in ToSet(pReqList[f])
      BY <1>2, <2>2
    <3>2. /\ enmState[r] = "queued" /\ idDstCpu[r] = dst[f] /\ (fPriority[r] <=> kind[f] = "priority")
          /\ r \notin ToSet(pReqs[dst[f]][kind[f]]) /\ \A g \in Emts : r \in ToSet(pReqList[g]) => f = g
      BY <3>1 DEF PartInv
    <3>3. r \notin ToSet(pReqList'[e]) /\ dst[f] \in Queues /\ kind[f] \in Kinds
      BY <1>9, <2>2, <3>1 DEF TypeOK
    <3> QED BY <1>2, <1>6, <3>2, <3>3
  <2> QED BY <2>1, <2>2
<1>11. HandInv'
  <2>1. \A f \in Emts : pReq'[f] = NIL <=> pc'[f] \notin Holding
    BY <1>2 DEF HandInv, Holding
  <2>2. \A f \in Emts : pReqList'[f] # <<>> => pc'[f] \in {"pushback", "join"}
    BY <1>2 DEF HandInv
  <2>3. ASSUME NEW f \in Emts, pReq[f] # NIL
        PROVE  /\ enmState[pReq[f]] = IF pc'[f] = "complete" THEN "processing" ELSE "queued"
               /\ \A u \in Queues, y \in Kinds : pReq[f] \notin ToSet(pReqs'[u][y])
               /\ \A g \in Emts : pReq[f] \notin ToSet(pReqList'[g])
               /\ \A g \in Emts : pReq[g] = pReq[f] => f = g
    <3>1. /\ enmState[pReq[f]] = IF pc[f] = "complete" THEN "processing" ELSE "queued"
          /\ \A u \in Queues, y \in Kinds : pReq[f] \notin ToSet(pReqs[u][y])
          /\ \A g \in Emts : pReq[f] \notin ToSet(pReqList[g])
          /\ \A g \in Emts : pReq[g] = pReq[f] => f = g
      BY <2>3 DEF HandInv
    <3>2. pReq[f] \notin ToSet(pReqList'[e])
      BY <1>0, <1>6, <3>1
    <3> QED BY <1>2, <1>6, <3>1, <3>2
  <2> QED BY <1>2, <2>1, <2>2, <2>3 DEF HandInv
<1>12. SomewhereInv'
  <2> SUFFICES ASSUME NEW q \in Reqs, enmState[q] \in {"queued", "processing"}
               PROVE  \/ q \in ToSet(pReqs'[idDstCpu[q]][IF fPriority[q] THEN "priority" ELSE "normal"])
                      \/ \E f \in Emts : q \in ToSet(pReqList'[f]) \/ pReq[f] = q
    BY <1>2 DEF SomewhereInv
  <2> DEFINE kq == IF fPriority[q] THEN "priority" ELSE "normal"
  <2>1. q \in ToSet(pReqs[idDstCpu[q]][kq]) \/ \E f \in Emts : q \in ToSet(pReqList[f]) \/ pReq[f] = q
    BY DEF SomewhereInv
  <2>2. idDstCpu[q] \in Queues /\ kq \in Kinds
    BY Names DEF TypeOK
  <2>3. CASE \E f \in Emts : q \in ToSet(pReqList[f]) \/ pReq[f] = q
    BY <1>2, <1>6, <2>3
  <2>4. CASE q \in ToSet(pReqs[idDstCpu[q]][kq])
    <3>1. CASE idDstCpu[q] = d /\ kq = k
      BY <1>6, <2>4, <3>1
    <3>2. CASE ~(idDstCpu[q] = d /\ kq = k)
      <4>1. q \in ToSet(pReqs'[idDstCpu[q]][kq])
        BY <1>6, <2>2, <2>4, <3>2
      <4> QED BY <4>1
    <3> QED BY <3>1, <3>2
  <2> QED BY <2>1, <2>3, <2>4
<1> QED BY <1>7, <1>8, <1>10, <1>11, <1>12

\* The request in an EMT's hands is run, and is completed.
LEMMA PlaceRun ==
    ASSUME TypeOK, PlaceInv, NEW e \in Emts, RunRequest(e)
    PROVE  PlaceInv'
<1> USE DEF reqVars, callVars, procVars
<1>1. /\ pc[e] = "run" /\ pc'[e] = "complete" /\ \A f \in Emts : f # e => pc'[f] = pc[f]
      /\ UNCHANGED <<pReqs, pReqList, pReq, idDstCpu, fPriority, dst, kind>>
  BY DEF RunRequest, Goto, TypeOK
<1>2. pReq[e] # NIL /\ pReq[e] \in Reqs
  BY <1>1 DEF TypeOK, PlaceInv, HandInv, Holding
<1>3. enmState'[pReq[e]] = "processing" /\ \A q \in Reqs : q # pReq[e] => enmState'[q] = enmState[q]
  BY <1>2 DEF RunRequest, TypeOK
<1> USE DEF PlaceInv
<1>4. OnceInv'
  BY <1>1 DEF OnceInv
<1>5. ListInv'
  BY <1>1, <1>2, <1>3 DEF ListInv, HandInv
<1>6. PartInv'
  BY <1>1, <1>2, <1>3 DEF PartInv, HandInv
<1>7. HandInv'
  <2>1. \A f \in Emts : pReq'[f] = NIL <=> pc'[f] \notin Holding
    BY <1>1 DEF HandInv, Holding
  <2>2. \A f \in Emts : pReqList'[f] # <<>> => pc'[f] \in {"pushback", "join"}
    BY <1>1 DEF HandInv
  <2>3. ASSUME NEW f \in Emts, pReq[f] # NIL
        PROVE  enmState'[pReq[f]] = IF pc'[f] = "complete" THEN "processing" ELSE "queued"
    <3>1. CASE f = e
      BY <1>1, <1>3, <3>1
    <3>2. CASE f # e
      <4>1. pReq[f] # pReq[e] /\ pReq[f] \in Reqs
        BY <1>2, <2>3, <3>2 DEF HandInv, TypeOK
      <4>2. enmState[pReq[f]] = IF pc[f] = "complete" THEN "processing" ELSE "queued"
        BY <2>3 DEF HandInv
      <4> QED BY <1>1, <1>3, <3>2, <4>1, <4>2
    <3> QED BY <3>1, <3>2
  <2> QED BY <1>1, <2>1, <2>2, <2>3 DEF HandInv
<1>8. SomewhereInv'
  BY <1>1, <1>2, <1>3 DEF SomewhereInv
<1> QED BY <1>4, <1>5, <1>6, <1>7, <1>8

\* and a request that is completed.
LEMMA PlaceComplete ==
    ASSUME TypeOK, PlaceInv, NEW e \in Emts, CompleteRequest(e)
    PROVE  PlaceInv'
<1> USE DEF reqVars, callVars, procVars
<1>1. /\ pc[e] = "complete" /\ UNCHANGED <<pReqs, pReqList, idDstCpu, fPriority>>
      /\ pReq'[e] = NIL /\ \A f \in Emts : f # e => pReq'[f] = pReq[f] /\ kind'[f] = kind[f]
  BY DEF CompleteRequest, TypeOK
<1>2. Moves(e) /\ pc'[e] \in {"clear", "async", "top", "own", "idle"}
  <2>1. CASE Goto(e, "clear") /\ UNCHANGED dst
    <3>1. Moves(e)
      BY <2>1, Moved DEF TypeOK, Labels
    <3> QED BY <2>1, <3>1 DEF Goto, TypeOK
  <2>2. CASE ProcessReturns(e)
    BY <2>2, Moved DEF TypeOK
  <2> QED BY <2>1, <2>2 DEF CompleteRequest
<1>3. /\ pc'[e] \notin Holding
      /\ \A f \in Emts : f # e => pc'[f] = pc[f] /\ dst'[f] = dst[f]
  BY <1>2 DEF Moves, Holding
<1>4. pReq[e] # NIL /\ pReq[e] \in Reqs /\ pReqList[e] = <<>> /\ ToSet(pReqList[e]) = {}
  BY <1>1, EmptyList DEF TypeOK, PlaceInv, HandInv, Holding
<1>5. enmState'[pReq[e]] \in {"free", "completed"} /\ \A q \in Reqs : q # pReq[e] => enmState'[q] = enmState[q]
  BY <1>4 DEF CompleteRequest, TypeOK
<1> HIDE DEF Holding
<1> USE DEF PlaceInv
<1>6. OnceInv'
  BY <1>1 DEF OnceInv
<1>7. ListInv'
  BY <1>1, <1>4, <1>5 DEF ListInv, HandInv
<1>8. PartInv'
  <2> SUFFICES ASSUME NEW f \in Emts, NEW r \in Reqs, r \in ToSet(pReqList[f])
               PROVE  /\ enmState'[r] = "queued"
                      /\ idDstCpu[r] = dst'[f] /\ (fPriority[r] <=> kind'[f] = "priority")
                      /\ r \notin ToSet(pReqs[dst'[f]][kind'[f]])
                      /\ \A g \in Emts : r \in ToSet(pReqList[g]) => f = g
    BY <1>1 DEF PartInv
  <2>1. f # e /\ dst'[f] = dst[f] /\ kind'[f] = kind[f]
    BY <1>1, <1>3, <1>4
  <2>2. r # pReq[e]
    BY <1>4 DEF HandInv
  <2> QED BY <1>5, <2>1, <2>2 DEF PartInv
<1>9. HandInv'
  <2>1. \A f \in Emts : pReq'[f] = NIL <=> pc'[f] \notin Holding
    BY <1>1, <1>3 DEF HandInv
  <2>2. \A f \in Emts : pReqList'[f] # <<>> => pc'[f] \in {"pushback", "join"}
    BY <1>1, <1>3, <1>4 DEF HandInv
  <2>3. ASSUME NEW f \in Emts, pReq'[f] # NIL
        PROVE  /\ enmState'[pReq'[f]] = IF pc'[f] = "complete" THEN "processing" ELSE "queued"
               /\ \A u \in Queues, y \in Kinds : pReq'[f] \notin ToSet(pReqs[u][y])
               /\ \A g \in Emts : pReq'[f] \notin ToSet(pReqList[g])
               /\ \A g \in Emts : pReq'[g] = pReq'[f] => f = g
    <3>1. f # e /\ pReq'[f] = pReq[f] /\ pc'[f] = pc[f] /\ pReq[f] # NIL /\ pReq[f] \in Reqs
      BY <1>1, <1>3, <2>3 DEF TypeOK
    <3>2. pReq[f] # pReq[e]
      BY <1>4, <3>1 DEF HandInv
    <3> QED BY <1>1, <1>5, <2>3, <3>1, <3>2 DEF HandInv
  <2> QED BY <1>1, <2>1, <2>2, <2>3 DEF HandInv
<1>10. SomewhereInv'
  <2> SUFFICES ASSUME NEW q \in Reqs, enmState'[q] \in {"queued", "processing"}
               PROVE  \/ q \in ToSet(pReqs[idDstCpu[q]][IF fPriority[q] THEN "priority" ELSE "normal"])
                      \/ \E f \in Emts : q \in ToSet(pReqList[f]) \/ pReq'[f] = q
    BY <1>1 DEF SomewhereInv
  <2>1. q # pReq[e] /\ enmState[q] \in {"queued", "processing"}
    BY <1>5
  <2> QED BY <1>1, <2>1 DEF SomewhereInv
<1> QED BY <1>6, <1>7, <1>8, <1>9, <1>10

\* An EMT that moves outside the processing, or within it without touching a request.
LEMMA EmtRests ==
    ASSUME TypeOK, PlaceInv, NEW e \in Emts, Moves(e),
           UNCHANGED <<pReqs, enmState, idDstCpu, fPriority, pReqList, pReq, kind>>,
           \/ pc[e] \notin Holding /\ pc'[e] \notin Holding
           \/ pc[e] \in {"peek", "setff"} /\ pc'[e] \in {"setff", "run"}
           \/ pc[e] = "pushback" /\ pc'[e] = "join" /\ UNCHANGED dst
    PROVE  Rests
<1>1. ASSUME NEW f \in Emts, f # e
      PROVE  pc'[f] = pc[f] /\ dst'[f] = dst[f] /\ kind'[f] = kind[f] /\ (pReqList[f] = <<>> \/ pc[f] \in {"pushback", "join"})
  BY <1>1 DEF Moves, PlaceInv, HandInv
<1>2. pReqList[e] = <<>> \/ pc[e] = "pushback"
  BY DEF PlaceInv, HandInv, Holding
<1>3. (pc'[e] \in Holding <=> pc[e] \in Holding) /\ (pc'[e] = "complete" <=> pc[e] = "complete")
  BY DEF Holding
<1>4. pReqList[e] = <<>> \/ (dst'[e] = dst[e] /\ kind'[e] = kind[e] /\ pc'[e] \in {"pushback", "join"})
  BY <1>2 DEF Holding
<1> QED BY <1>1, <1>3, <1>4 DEF Rests

\* What a step can do with the requests.
LEMMA StepKinds ==
    ASSUME TypeOK, LoopInv, PlaceInv, [Next]_vars
    PROVE  \/ Rests
           \/ \E r \in Reqs : Pushes(r) \/ Frees(r)
           \/ \E e \in Emts : \/ \E k \in Kinds, single \in {"peek", "run"} : Takes(e, k, single)
                              \/ PushBack(e) \/ JoinNewcomers(e) \/ RunRequest(e) \/ CompleteRequest(e)
<1> USE DEF reqVars, callVars, procVars, emtVars
<1> DEFINE Goal == \/ Rests
                   \/ \E r \in Reqs : Pushes(r) \/ Frees(r)
                   \/ \E e \in Emts : \/ \E k \in Kinds, single \in {"peek", "run"} : Takes(e, k, single)
                                      \/ PushBack(e) \/ JoinNewcomers(e) \/ RunRequest(e) \/ CompleteRequest(e)
<1> SUFFICES Goal
  OBVIOUS
<1>a. ASSUME UNCHANGED <<pc, dst, kind, pReqs, enmState, idDstCpu, fPriority, pReqList, pReq>> PROVE Rests
  BY <1>a DEF Rests, PlaceInv, HandInv
<1>0. CASE UNCHANGED vars
  BY <1>0, <1>a DEF vars
<1>1. ASSUME NEW r \in Reqs, ReqQueue(r) \/ RequesterStep(r) PROVE Goal
  <2>1. /\ UNCHANGED <<pc, dst, kind, pReqList, pReq>>
        /\ \A q \in Reqs : q # r => idDstCpu'[q] = idDstCpu[q] /\ fPriority'[q] = fPriority[q]
    BY <1>1, RequesterMoves
  <2>2. CASE ReqQueue(r)
    <3>1. Pushes(r)
      BY <2>1, <2>2 DEF ReqQueue, Pushes
    <3> QED BY <3>1
  <2>3. CASE ReqSetFF(r)
    BY <1>a, <2>3 DEF ReqSetFF
  <2>4. CASE ReqNotify(r)
    BY <1>a, <2>4 DEF ReqNotify
  <2>5. CASE ReqWaitReturns(r)
    <3>1. CASE Push(r)
      <4>1. Pushes(r)
        BY <2>1, <2>5, <3>1 DEF ReqWaitReturns, Pushes
      <4> QED BY <4>1
    <3>2. CASE ~Push(r)
      <4>1. Frees(r)
        BY <2>1, <2>5, <3>2 DEF ReqWaitReturns, Frees
      <4> QED BY <4>1
    <3> QED BY <3>1, <3>2
  <2> QED BY <1>1, <2>2, <2>3, <2>4, <2>5 DEF RequesterStep
<1>2. ASSUME NEW e \in Emts, LoopStep(e) \/ ProcessStep(e) \/ RunGuest(e) \/ WaitTimeout(e) PROVE Goal
  <2>1. Moves(e)
    BY <1>2, EmtMoves
  <2>2. CASE CheckAny(e)
    <3>1. ProcessCall(e, ANY) \/ ((\E l \in {"own"} : Goto(e, l)) /\ UNCHANGED dst)
      BY <2>2 DEF CheckAny
    <3>2. pc[e] \notin Holding /\ pc'[e] \notin Holding
      BY <2>2, <3>1, Moved DEF CheckAny, TypeOK, Labels, Goto, Holding
    <3>3. UNCHANGED <<pReqs, enmState, idDstCpu, fPriority, pReqList, pReq, kind>>
      BY <2>2 DEF CheckAny
    <3> QED BY <2>1, <3>2, <3>3, EmtRests
  <2>3. CASE CheckOwn(e)
    <3>1. ProcessCall(e, e) \/ ((\E l \in {"idle"} : Goto(e, l)) /\ UNCHANGED dst)
      BY <2>3 DEF CheckOwn
    <3>2. pc[e] \notin Holding /\ pc'[e] \notin Holding
      BY <2>3, <3>1, Moved DEF CheckOwn, TypeOK, Labels, Goto, Holding
    <3>3. UNCHANGED <<pReqs, enmState, idDstCpu, fPriority, pReqList, pReq, kind>>
      BY <2>3 DEF CheckOwn
    <3> QED BY <2>1, <3>2, <3>3, EmtRests
  <2>4. CASE WaitCall(e)
    <3>1. WaitReturns(e) \/ ((\E l \in {"setwait"} : Goto(e, l)) /\ UNCHANGED dst)
      BY <2>4 DEF WaitCall
    <3>2. pc[e] \notin Holding /\ pc'[e] \notin Holding
      BY <2>4, <3>1, Moved DEF WaitCall, TypeOK, Labels, Goto, Holding
    <3>3. UNCHANGED <<pReqs, enmState, idDstCpu, fPriority, pReqList, pReq, kind>>
      BY <2>4 DEF WaitCall
    <3> QED BY <2>1, <3>2, <3>3, EmtRests
  <2>5. CASE SetWait(e)
    <3>1. (\E l \in {"check"} : Goto(e, l)) /\ UNCHANGED dst
      BY <2>5 DEF SetWait
    <3>2. pc[e] \notin Holding /\ pc'[e] \notin Holding
      BY <2>5, <3>1, Moved DEF SetWait, TypeOK, Labels, Goto, Holding
    <3>3. UNCHANGED <<pReqs, enmState, idDstCpu, fPriority, pReqList, pReq, kind>>
      BY <2>5 DEF SetWait
    <3> QED BY <2>1, <3>2, <3>3, EmtRests
  <2>6. CASE WaitCheck(e)
    <3>1. (\E l \in {"unwait", "block"} : Goto(e, l)) /\ UNCHANGED dst
      BY <2>6 DEF WaitCheck
    <3>2. pc[e] \notin Holding /\ pc'[e] \notin Holding
      BY <2>6, <3>1, Moved DEF WaitCheck, TypeOK, Labels, Goto, Holding
    <3>3. UNCHANGED <<pReqs, enmState, idDstCpu, fPriority, pReqList, pReq, kind>>
      BY <2>6 DEF WaitCheck
    <3> QED BY <2>1, <3>2, <3>3, EmtRests
  <2>7. CASE Woken(e)
    <3>1. (\E l \in {"check"} : Goto(e, l)) /\ UNCHANGED dst
      BY <2>7 DEF Woken
    <3>2. pc[e] \notin Holding /\ pc'[e] \notin Holding
      BY <2>7, <3>1, Moved DEF Woken, TypeOK, Labels, Goto, Holding
    <3>3. UNCHANGED <<pReqs, enmState, idDstCpu, fPriority, pReqList, pReq, kind>>
      BY <2>7 DEF Woken
    <3> QED BY <2>1, <3>2, <3>3, EmtRests
  <2>8. CASE ClearWait(e)
    <3>1. WaitReturns(e)
      BY <2>8 DEF ClearWait
    <3>2. pc[e] \notin Holding /\ pc'[e] \notin Holding
      BY <2>8, <3>1, Moved DEF ClearWait, TypeOK, Labels, Goto, Holding
    <3>3. UNCHANGED <<pReqs, enmState, idDstCpu, fPriority, pReqList, pReq, kind>>
      BY <2>8 DEF ClearWait
    <3> QED BY <2>1, <3>2, <3>3, EmtRests
  <2>9. CASE ClearFF(e)
    <3>1. (\E l \in {"priority"} : Goto(e, l)) /\ UNCHANGED dst
      BY <2>9 DEF ClearFF
    <3>2. pc[e] \notin Holding /\ pc'[e] \notin Holding
      BY <2>9, <3>1, Moved DEF ClearFF, TypeOK, Labels, Goto, Holding
    <3>3. UNCHANGED <<pReqs, enmState, idDstCpu, fPriority, pReqList, pReq, kind>>
      BY <2>9 DEF ClearFF
    <3> QED BY <2>1, <3>2, <3>3, EmtRests
  <2>10. CASE RunGuest(e)
    <3>1. (\E l \in {"top"} : Goto(e, l)) /\ UNCHANGED dst
      BY <2>10 DEF RunGuest
    <3>2. pc[e] \notin Holding /\ pc'[e] \notin Holding
      BY <2>10, <3>1, Moved DEF RunGuest, TypeOK, Labels, Goto, Holding
    <3>3. UNCHANGED <<pReqs, enmState, idDstCpu, fPriority, pReqList, pReq, kind>>
      BY <2>10 DEF RunGuest
    <3> QED BY <2>1, <3>2, <3>3, EmtRests
  <2>11. CASE WaitTimeout(e)
    <3>1. (\E l \in {"check"} : Goto(e, l)) /\ UNCHANGED dst
      BY <2>11 DEF WaitTimeout
    <3>2. pc[e] \notin Holding /\ pc'[e] \notin Holding
      BY <2>11, <3>1, Moved DEF WaitTimeout, TypeOK, Labels, Goto, Holding
    <3>3. UNCHANGED <<pReqs, enmState, idDstCpu, fPriority, pReqList, pReq, kind>>
      BY <2>11 DEF WaitTimeout
    <3> QED BY <2>1, <3>2, <3>3, EmtRests
  <2>12. CASE PeekNormal(e)
    <3>1. pc[e] = "peek" /\ pc'[e] \in {"setff", "run"}
      BY <2>12 DEF PeekNormal, Goto, TypeOK
    <3>2. UNCHANGED <<pReqs, enmState, idDstCpu, fPriority, pReqList, pReq, kind>>
      BY <2>12 DEF PeekNormal
    <3> QED BY <2>1, <3>1, <3>2, EmtRests
  <2>13. CASE PushBackRaces(e)
    <3>1. pc[e] = "pushback" /\ pc'[e] = "join" /\ UNCHANGED dst
      BY <2>13 DEF PushBackRaces, Goto, TypeOK
    <3>2. UNCHANGED <<pReqs, enmState, idDstCpu, fPriority, pReqList, pReq, kind>>
      BY <2>13 DEF PushBackRaces
    <3> QED BY <2>1, <3>1, <3>2, EmtRests
  <2>14. CASE SetFF(e)
    <3>1. pc[e] = "setff" /\ pc'[e] = "run"
      BY <2>14 DEF SetFF, Goto, TypeOK
    <3>2. UNCHANGED <<pReqs, enmState, idDstCpu, fPriority, pReqList, pReq, kind>>
      BY <2>14 DEF SetFF
    <3> QED BY <2>1, <3>1, <3>2, EmtRests
  <2>15. CASE TakePriority(e)
    <3>1. CASE pReqs[dst[e]]["priority"] # <<>>
      <4>1. Takes(e, "priority", "peek")
        BY <2>15, <3>1 DEF TakePriority, Takes
      <4> QED BY <4>1, Names
    <3>2. CASE pReqs[dst[e]]["priority"] = <<>>
      <4>1. pc[e] \notin Holding /\ pc'[e] \notin Holding
        BY <2>15, <3>2 DEF TakePriority, Goto, TypeOK, Holding
      <4>2. UNCHANGED <<pReqs, enmState, idDstCpu, fPriority, pReqList, pReq, kind>>
        BY <2>15, <3>2 DEF TakePriority
      <4> QED BY <2>1, <4>1, <4>2, EmtRests
    <3> QED BY <3>1, <3>2
  <2>16. CASE TakeNormal(e)
    <3>1. CASE pReqs[dst[e]][NormalKind(e)] # <<>>
      <4>1. Takes(e, NormalKind(e), "run") /\ NormalKind(e) \in Kinds
        BY <2>16, <3>1, Names DEF TakeNormal, Takes, NormalKind
      <4> QED BY <4>1
    <3>2. CASE pReqs[dst[e]][NormalKind(e)] = <<>>
      <4>1. pc[e] \notin Holding /\ pc'[e] \notin Holding
        BY <2>16, <3>2, Moved DEF TakeNormal, TypeOK, Holding
      <4>2. UNCHANGED <<pReqs, enmState, idDstCpu, fPriority, pReqList, pReq, kind>>
        BY <2>16, <3>2 DEF TakeNormal
      <4> QED BY <2>1, <4>1, <4>2, EmtRests
    <3> QED BY <3>1, <3>2
  <2> QED BY <1>2, <2>2, <2>3, <2>4, <2>5, <2>6, <2>7, <2>8, <2>9, <2>10, <2>11, <2>12, <2>13, <2>14, <2>15, <2>16 DEF LoopStep, ProcessStep
<1>3. CASE AsyncBegin \/ AsyncStep
  <2>1. /\ Moves(0) /\ 0 \in Emts /\ UNCHANGED <<pReqs, enmState, idDstCpu, fPriority, pReqList, pReq, kind, dst>>
        /\ pc'[0] # pc[0] => pc[0] \in {"top", "async"} /\ pc'[0] \in {"async", "idle", "look"}
    BY <1>3, AsyncMoves
  <2>2. CASE pc'[0] # pc[0]
    BY <2>1, <2>2, EmtRests DEF Holding
  <2>3. CASE pc'[0] = pc[0]
    <3>1. pc' = pc
      BY <2>1, <2>3 DEF Moves, TypeOK
    <3> QED BY <1>a, <2>1, <3>1
  <2> QED BY <2>2, <2>3
<1> QED BY <1>0, <1>1, <1>2, <1>3 DEF Next

\* PlaceInv is inductive.
LEMMA PlaceStep ==
    ASSUME TypeOK, LoopInv, PlaceInv, [Next]_vars PROVE PlaceInv'
<1>1. TypeOK'
  BY TypeStep
<1> QED BY <1>1, StepKinds, PlaceQuiet, PlacePush, PlaceFree, PlaceTake, PlaceBack, PlaceJoin, PlaceRun, PlaceComplete

\* A list without repetitions.
LEMMA CountOnce ==
    ASSUME NEW S, NEW s \in Seq(S), IsInjective(s), NEW r
    PROVE  CountIn(r, s) = IF r \in ToSet(s) THEN 1 ELSE 0
<1> DEFINE at == {i \in DOMAIN s : s[i] = r}
<1>1. CASE r \in ToSet(s)
  <2>1. PICK i \in DOMAIN s : s[i] = r
    BY <1>1 DEF ToSet
  <2>2. at = {i}
    BY <2>1 DEF IsInjective
  <2>3. Cardinality({i}) = 1
    BY FS_Singleton
  <2> QED BY <1>1, <2>2, <2>3 DEF CountIn
<1>2. CASE r \notin ToSet(s)
  <2>1. at = {}
    BY <1>2 DEF ToSet
  <2> QED BY <1>2, <2>1, FS_EmptySet DEF CountIn
<1> QED BY <1>1, <1>2

\* With PlaceInv, every request is in one place.
LEMMA OnePlace == ASSUME TypeOK, PlaceInv PROVE ExactlyOnePlace
<1> SUFFICES ASSUME NEW r \in Reqs
             PROVE  LET places == {q \in Queues \X Kinds : CountIn(r, pReqs[q[1]][q[2]]) > 0}
                        parts  == {e \in Emts : CountIn(r, pReqList[e]) > 0}
                        hands  == {e \in Emts : pReq[e] = r}
                    IN  /\ \A q \in places : CountIn(r, pReqs[q[1]][q[2]]) = 1
                        /\ \A e \in parts : CountIn(r, pReqList[e]) = 1
                        /\ Cardinality(places) + Cardinality(parts) + Cardinality(hands)
                           = IF enmState[r] \in {"queued", "processing"} THEN 1 ELSE 0
  BY DEF ExactlyOnePlace
<1> DEFINE places == {q \in Queues \X Kinds : CountIn(r, pReqs[q[1]][q[2]]) > 0}
           parts  == {e \in Emts : CountIn(r, pReqList[e]) > 0}
           hands  == {e \in Emts : pReq[e] = r}
<1>1. \A d \in Queues, k \in Kinds : CountIn(r, pReqs[d][k]) = IF r \in ToSet(pReqs[d][k]) THEN 1 ELSE 0
  <2> SUFFICES ASSUME NEW d \in Queues, NEW k \in Kinds
               PROVE  CountIn(r, pReqs[d][k]) = IF r \in ToSet(pReqs[d][k]) THEN 1 ELSE 0
    OBVIOUS
  <2>1. pReqs[d][k] \in Seq(Reqs) /\ IsInjective(pReqs[d][k])
    BY DEF TypeOK, PlaceInv, OnceInv
  <2> QED BY <2>1, CountOnce
<1>2. \A e \in Emts : CountIn(r, pReqList[e]) = IF r \in ToSet(pReqList[e]) THEN 1 ELSE 0
  <2> SUFFICES ASSUME NEW e \in Emts PROVE CountIn(r, pReqList[e]) = IF r \in ToSet(pReqList[e]) THEN 1 ELSE 0
    OBVIOUS
  <2>1. pReqList[e] \in Seq(Reqs) /\ IsInjective(pReqList[e])
    BY DEF TypeOK, PlaceInv, OnceInv
  <2> QED BY <2>1, CountOnce
<1> HIDE DEF CountIn
<1>3. \A q \in Queues \X Kinds :
          /\ q[1] \in Queues /\ q[2] \in Kinds /\ q = <<q[1], q[2]>>
          /\ CountIn(r, pReqs[q[1]][q[2]]) > 0 <=> r \in ToSet(pReqs[q[1]][q[2]])
          /\ CountIn(r, pReqs[q[1]][q[2]]) > 0 <=> CountIn(r, pReqs[q[1]][q[2]]) = 1
  BY <1>1
<1>4. /\ \A q : q \in places <=> q \in Queues \X Kinds /\ r \in ToSet(pReqs[q[1]][q[2]])
      /\ \A e : e \in parts <=> e \in Emts /\ r \in ToSet(pReqList[e])
      /\ \A e : e \in hands <=> e \in Emts /\ pReq[e] = r
  <2>1. \A e \in Emts : CountIn(r, pReqList[e]) > 0 <=> r \in ToSet(pReqList[e])
    BY <1>2
  <2> QED BY <1>3, <2>1
<1>5. /\ \A q \in places : CountIn(r, pReqs[q[1]][q[2]]) = 1
      /\ \A e \in parts : CountIn(r, pReqList[e]) = 1
  BY <1>2, <1>3, <1>4
<1> HIDE DEF places, parts, hands
<1>6. Cardinality({}) = 0 /\ \A x : Cardinality({x}) = 1
  BY FS_EmptySet, FS_Singleton
<1> DEFINE total == Cardinality(places) + Cardinality(parts) + Cardinality(hands)
<1>7. ASSUME enmState[r] \notin {"queued", "processing"} PROVE total = 0
  <2>1. places = {} /\ parts = {} /\ hands = {}
    BY <1>3, <1>4, <1>7, Nowhere
  <2> QED BY <1>6, <2>1
<1>8. ASSUME enmState[r] \in {"queued", "processing"} PROVE total = 1
  <2> DEFINE k == IF fPriority[r] THEN "priority" ELSE "normal"
             d == idDstCpu[r]
  <2>0. d \in Queues /\ k \in Kinds
    BY Names DEF TypeOK
  <2>1. r \in ToSet(pReqs[d][k]) \/ \E e \in Emts : r \in ToSet(pReqList[e]) \/ pReq[e] = r
    BY <1>8 DEF PlaceInv, SomewhereInv
  <2> HIDE DEF k, d
  <2>2. CASE r \in ToSet(pReqs[d][k])
    <3>1. /\ \A f \in Emts : r \notin ToSet(pReqList[f]) /\ pReq[f] # r
          /\ \A x \in Queues, y \in Kinds : r \in ToSet(pReqs[x][y]) => x = d /\ y = k
      BY <2>0, <2>2, OnePart
    <3>2. parts = {} /\ hands = {}
      BY <1>4, <3>1
    <3>3. places = {<<d, k>>}
      BY <1>3, <1>4, <2>0, <2>2, <3>1
    <3>4. Cardinality({<<d, k>>}) = 1
      BY <1>6, Zenon
    <3>5. Cardinality(places) = 1 /\ Cardinality(parts) = 0 /\ Cardinality(hands) = 0
      BY <1>6, <3>2, <3>3, <3>4, Zenon
    <3> QED BY <3>5
  <2>3. ASSUME NEW e \in Emts, r \in ToSet(pReqList[e])
        PROVE  places = {} /\ parts = {e} /\ hands = {}
    <3>1. \A x \in Queues, y \in Kinds : r \notin ToSet(pReqs[x][y])
      BY <2>3, OnePart
    <3>2. \A f \in Emts : (r \in ToSet(pReqList[f]) => f = e) /\ pReq[f] # r
      BY <2>3, NilAssumption DEF PlaceInv, PartInv, HandInv
    <3>3. places = {}
      BY <1>3, <1>4, <3>1
    <3>4. parts = {e} /\ hands = {}
      BY <1>4, <2>3, <3>2
    <3> QED BY <3>3, <3>4
  <2>4. ASSUME NEW e \in Emts, pReq[e] = r
        PROVE  places = {} /\ parts = {} /\ hands = {e}
    <3>1. /\ \A x \in Queues, y \in Kinds : r \notin ToSet(pReqs[x][y])
          /\ \A f \in Emts : r \notin ToSet(pReqList[f]) /\ (pReq[f] = r => f = e)
      BY <2>4, NilAssumption DEF PlaceInv, HandInv
    <3>2. places = {}
      BY <1>3, <1>4, <3>1
    <3>3. parts = {} /\ hands = {e}
      BY <1>4, <2>4, <3>1
    <3> QED BY <3>2, <3>3
  <2>5. CASE \E e \in Emts : r \in ToSet(pReqList[e])
    <3>1. PICK e \in Emts : r \in ToSet(pReqList[e])
      BY <2>5
    <3>2. places = {} /\ parts = {e} /\ hands = {}
      BY <2>3, <3>1
    <3>3. Cardinality(places) = 0 /\ Cardinality(parts) = 1 /\ Cardinality(hands) = 0
      BY <1>6, <3>2, Zenon
    <3> QED BY <3>3
  <2>6. CASE \E e \in Emts : pReq[e] = r
    <3>1. PICK e \in Emts : pReq[e] = r
      BY <2>6
    <3>2. places = {} /\ parts = {} /\ hands = {e}
      BY <2>4, <3>1
    <3>3. Cardinality(places) = 0 /\ Cardinality(parts) = 0 /\ Cardinality(hands) = 1
      BY <1>6, <3>2, Zenon
    <3> QED BY <3>3
  <2> QED BY <2>1, <2>2, <2>5, <2>6
<1>9. total = IF enmState[r] \in {"queued", "processing"} THEN 1 ELSE 0
  BY <1>7, <1>8
<1> QED BY <1>5, <1>9 DEF places, parts, hands

-----------------------------------------------------------------------------
(* Requests for one CPU are started in the order of their arrival *)

PartOf(e, k) == IF dst[e] = e /\ kind[e] = k THEN pReqList[e] ELSE <<>>

\* A step adds one request at the back, takes one off the front, or leaves the order alone.
LEMMA FifoStep ==
    ASSUME TypeOK, LoopInv, PlaceInv, [Next]_vars, NEW e \in Emts, NEW k \in Kinds
    PROVE  \/ Waiting(e, k)' = Waiting(e, k)
           \/ \E r \in Reqs : Waiting(e, k)' = <<r>> \o Waiting(e, k)
           \/ \E r \in Reqs : Waiting(e, k) = Append(Waiting(e, k)', r)
<1> USE DEF reqVars, callVars, procVars, emtVars
<1> DEFINE Goal == \/ Waiting(e, k)' = Waiting(e, k)
                   \/ \E r \in Reqs : Waiting(e, k)' = <<r>> \o Waiting(e, k)
                   \/ \E r \in Reqs : Waiting(e, k) = Append(Waiting(e, k)', r)
<1>t. /\ e \in Queues /\ e # ANY /\ pReqs[e][k] \in Seq(Reqs) /\ pReqList[e] \in Seq(Reqs) /\ <<>> \in Seq(Reqs)
      /\ Waiting(e, k) = pReqs[e][k] \o PartOf(e, k) /\ Waiting(e, k)' = pReqs'[e][k] \o PartOf(e, k)'
      /\ PartOf(e, k) \in Seq(Reqs)
  BY Names, EmptyList DEF TypeOK, Waiting, PartOf
<1>0. ASSUME pReqs'[e][k] = pReqs[e][k], PartOf(e, k)' = PartOf(e, k) PROVE Goal
  BY <1>0, <1>t
<1> SUFFICES Goal
  OBVIOUS
<1>1. CASE Rests
  BY <1>0, <1>1 DEF Rests, PartOf
<1>2. ASSUME NEW r \in Reqs, Pushes(r) PROVE Goal
  <2> DEFINE d == idDstCpu'[r]
             kr == KindOf(r)
  <2>1. d \in Queues /\ kr \in Kinds /\ Stored(d, kr, <<r>> \o pReqs[d][kr])
    <3>1. pReqs \in ListsType /\ idDstCpu'[r] \in Queues /\ fPriority'[r] \in BOOLEAN
      BY TypeStep DEF TypeOK, ListsType
    <3> QED BY <1>2, <3>1, Pushed DEF Pushes
  <2>2. PartOf(e, k)' = PartOf(e, k)
    BY <1>2 DEF Pushes, PartOf
  <2> HIDE DEF d, kr
  <2>3. CASE d = e /\ kr = k
    <3>1. pReqs'[e][k] = <<r>> \o pReqs[e][k]
      BY <2>1, <2>3 DEF Stored
    <3>2. <<r>> \in Seq(Reqs)
      OBVIOUS
    <3>3. (<<r>> \o pReqs[e][k]) \o PartOf(e, k) = <<r>> \o (pReqs[e][k] \o PartOf(e, k))
      <4> DEFINE s == <<r>>
                 t == pReqs[e][k]
                 u == PartOf(e, k)
      <4>1. s \in Seq(Reqs) /\ t \in Seq(Reqs) /\ u \in Seq(Reqs)
        BY <1>t, <3>2
      <4> HIDE DEF s, t, u
      <4>2. (s \o t) \o u = s \o (t \o u)
        BY <4>1, ConcatAssociative
      <4> QED BY <4>2 DEF s, t, u
    <3> QED BY <1>t, <2>2, <3>1, <3>3
  <2>4. CASE ~(d = e /\ kr = k)
    BY <1>0, <1>t, <2>1, <2>2, <2>4 DEF Stored
  <2> QED BY <2>3, <2>4
<1>3. ASSUME NEW r \in Reqs, Frees(r) PROVE Goal
  BY <1>0, <1>3 DEF Frees, PartOf
<1>4. ASSUME NEW f \in Emts, NEW n \in Kinds, NEW single \in {"peek", "run"}, Takes(f, n, single) PROVE Goal
  <2> DEFINE list == pReqs[dst[f]][n]
  <2>1. /\ list \in Seq(Reqs) /\ Stored(dst[f], n, <<>>) /\ list # <<>>
        /\ pReqList' = [pReqList EXCEPT ![f] = Front(list)] /\ kind' = [kind EXCEPT ![f] = n] /\ dst' = dst
    BY <1>4, TakenOff DEF Takes, Took, TypeOK, ListsType
  <2>2. pReqList[f] = <<>> /\ dst[f] \in {ANY, f}
    BY <1>4 DEF Takes, PlaceInv, HandInv, LoopInv
  <2>3. CASE f # e
    <3>1. PartOf(e, k)' = PartOf(e, k)
      BY <2>1, <2>3 DEF PartOf, TypeOK
    <3> QED BY <1>0, <1>t, <2>1, <2>2, <2>3, <3>1 DEF Stored
  <2>4. CASE f = e /\ dst[e] # e
    <3>1. PartOf(e, k)' = PartOf(e, k)
      BY <2>1, <2>4 DEF PartOf
    <3> QED BY <1>0, <1>t, <2>1, <2>4, <3>1 DEF Stored
  <2>5. CASE f = e /\ dst[e] = e /\ n # k
    <3>1. PartOf(e, k)' = PartOf(e, k)
      BY <2>1, <2>2, <2>5 DEF PartOf, TypeOK
    <3> QED BY <1>0, <1>t, <2>1, <2>5, <3>1 DEF Stored
  <2>6. CASE f = e /\ dst[e] = e /\ n = k
    <3>1. list = pReqs[e][k] /\ PartOf(e, k) = <<>> /\ PartOf(e, k)' = Front(list) /\ pReqs'[e][k] = <<>>
      BY <2>1, <2>2, <2>6 DEF PartOf, Stored, TypeOK
    <3> HIDE DEF list
    <3>2. Last(list) \in Reqs /\ Front(list) \in Seq(Reqs) /\ Append(Front(list), Last(list)) = list
      BY <2>1, ChoppedList
    <3>3. list \o <<>> = list /\ <<>> \o Front(list) = Front(list)
      BY <2>1, <3>2, ConcatEmptySeq
    <3>4. Waiting(e, k) = Append(Waiting(e, k)', Last(list))
      BY <1>t, <3>1, <3>2, <3>3
    <3> QED BY <3>2, <3>4
  <2> QED BY <2>3, <2>4, <2>5, <2>6
<1>5. ASSUME NEW f \in Emts, PushBack(f) PROVE Goal
  <2>1. /\ Stored(dst[f], kind[f], pReqList[f]) /\ UNCHANGED <<dst, kind>> /\ pReqs[dst[f]][kind[f]] = <<>>
        /\ pReqList' = [pReqList EXCEPT ![f] = <<>>] /\ dst[f] \in {ANY, f}
    BY <1>5, StoredAt DEF PushBack, TypeOK, ListsType, LoopInv
  <2>2. CASE f # e \/ dst[f] # e \/ kind[f] # k
    <3>1. PartOf(e, k)' = PartOf(e, k)
      BY <2>1, <2>2 DEF PartOf, TypeOK
    <3> QED BY <1>0, <1>t, <2>1, <2>2, <3>1 DEF Stored
  <2>3. CASE f = e /\ dst[f] = e /\ kind[f] = k
    <3>1. pReqs[e][k] = <<>> /\ PartOf(e, k) = pReqList[e] /\ pReqs'[e][k] = pReqList[e] /\ PartOf(e, k)' = <<>>
      BY <2>1, <2>3 DEF PartOf, Stored, TypeOK
    <3>2. pReqList[e] \o <<>> = pReqList[e] /\ <<>> \o pReqList[e] = pReqList[e]
      BY <1>t, ConcatEmptySeq
    <3> QED BY <1>t, <3>1, <3>2
  <2> QED BY <2>2, <2>3
<1>6. ASSUME NEW f \in Emts, JoinNewcomers(f) PROVE Goal
  <2> DEFINE newer == pReqs[dst[f]][kind[f]]
             all == IF newer # <<>> THEN newer \o pReqList[f] ELSE pReqList[f]
  <2>1. /\ Stored(dst[f], kind[f], <<>>) /\ UNCHANGED <<dst, kind>>
        /\ pReqList' = [pReqList EXCEPT ![f] = all] /\ dst[f] \in {ANY, f}
    BY <1>6, StoredAt, EmptyList DEF JoinNewcomers, Join, TypeOK, ListsType, LoopInv
  <2>2. CASE f # e \/ dst[f] # e \/ kind[f] # k
    <3> HIDE DEF all
    <3>1. PartOf(e, k)' = PartOf(e, k)
      BY <2>1, <2>2 DEF PartOf, TypeOK
    <3> QED BY <1>0, <1>t, <2>1, <2>2, <3>1 DEF Stored
  <2>3. CASE f = e /\ dst[f] = e /\ kind[f] = k
    <3> HIDE DEF all
    <3>1. newer = pReqs[e][k] /\ PartOf(e, k) = pReqList[e] /\ pReqs'[e][k] = <<>> /\ PartOf(e, k)' = all
      BY <2>1, <2>3 DEF PartOf, Stored, TypeOK
    <3> HIDE DEF newer
    <3>2. all \in Seq(Reqs) /\ all = newer \o pReqList[e]
      <4>1. newer \o pReqList[e] \in Seq(Reqs)
        BY <1>t, <3>1, ConcatProperties
      <4>2. <<>> \o pReqList[e] = pReqList[e]
        BY <1>t, ConcatEmptySeq
      <4> QED BY <2>3, <4>1, <4>2 DEF all
    <3>3. <<>> \o all = all
      BY <3>2, ConcatEmptySeq
    <3> QED BY <1>t, <3>1, <3>2, <3>3
  <2> QED BY <2>2, <2>3
<1>7. ASSUME NEW f \in Emts, RunRequest(f) PROVE Goal
  BY <1>0, <1>7 DEF RunRequest, PartOf
<1>8. ASSUME NEW f \in Emts, CompleteRequest(f) PROVE Goal
  <2>1. UNCHANGED <<pReqs, pReqList>> /\ pReqList[f] = <<>> /\ (f # e => kind'[e] = kind[e])
    BY <1>8 DEF CompleteRequest, PlaceInv, HandInv, TypeOK
  <2>2. f # e => dst'[e] = dst[e]
    BY <1>8, EmtMoves DEF Moves, ProcessStep
  <2> QED BY <1>0, <2>1, <2>2 DEF PartOf
<1> QED BY StepKinds, <1>1, <1>2, <1>3, <1>4, <1>5, <1>6, <1>7, <1>8

-----------------------------------------------------------------------------
(* The theorems *)

\* The inductive invariant.
IInv == TypeOK /\ LoopInv /\ NothingStranded /\ NoLostWakeup /\ PlaceInv

\* Nothing is queued at first.
LEMMA InitIInv == Init => IInv
<1> SUFFICES ASSUME Init PROVE IInv
  OBVIOUS
<1> USE Names DEF Init
<1>1. TypeOK
  <2>1. pReqs \in [Queues -> [Kinds -> Seq(Reqs)]] /\ pReqList \in [Emts -> Seq(Reqs)]
    BY EmptyList
  <2>2. cCalls \in 0 .. MaxCalls
    BY BoundsAssumption
  <2> QED BY <2>1, <2>2 DEF TypeOK, Labels
<1>2. LoopInv
  BY DEF LoopInv
<1>3. NothingStranded
  BY DEF NothingStranded
<1>4. NoLostWakeup
  BY DEF NoLostWakeup, Blocked
<1>5. PlaceInv
  <2>1. (\A d \in Queues, k \in Kinds : pReqs[d][k] = <<>>) /\ \A e \in Emts : pReqList[e] = <<>>
    OBVIOUS
  <2>2. ToSet(<<>>) = {} /\ IsInjective(<<>>)
    BY EmptyList
  <2>3. OnceInv
    BY <2>1, <2>2 DEF OnceInv
  <2>4. ListInv /\ PartInv
    BY <2>1, <2>2 DEF ListInv, PartInv
  <2>5. HandInv /\ SomewhereInv
    BY <2>1, <2>2, NilAssumption DEF HandInv, SomewhereInv, Holding
  <2> QED BY <2>3, <2>4, <2>5 DEF PlaceInv
<1> QED BY <1>1, <1>2, <1>3, <1>4, <1>5 DEF IInv

\* The invariant is inductive,
LEMMA NextIInv == IInv /\ [Next]_vars => IInv'
BY TypeStep, LoopStepKeeps, StrandedStep, WakeupStep, PlaceStep DEF IInv

\* and so holds in every state.
LEMMA Invariant == Spec => []IInv
BY InitIInv, NextIInv, PTL DEF Spec

\* Every variable keeps its type, whatever the number of CPUs, packets and calls: no EMT
\* reads a destination, a list or a packet that is none.
THEOREM TypeCorrect == Spec => []TypeOK
<1>1. IInv => TypeOK
  BY DEF IInv
<1> QED BY <1>1, Invariant, PTL

\* vmR3ReqProcessOneU and VMR3ReqQueue between them never leave a request on a list that
\* nobody looks at: the flag is set, or about to be, or an EMT has still to look.
THEOREM NeverStranded == Spec => []NothingStranded
<1>1. IInv => NothingStranded
  BY DEF IInv
<1> QED BY <1>1, Invariant, PTL

\* The announcement of a wait (fWait), the second look at the flags and the notification
\* never miss each other: an EMT is not left asleep over a flag that concerns it.
THEOREM NeverLosesWakeup == Spec => []NoLostWakeup
<1>1. IInv => NoLostWakeup
  BY DEF IInv
<1> QED BY <1>1, Invariant, PTL

\* The lock-free taking, pushing back and joining of lists by several EMTs neither loses
\* nor duplicates a request.
THEOREM AlwaysOnePlace == Spec => []ExactlyOnePlace
<1>1. IInv => ExactlyOnePlace
  BY OnePlace DEF IInv
<1> QED BY <1>1, Invariant, PTL

\* The requests for one CPU leave its lists in the order in which they were pushed,
\* although a processed list is taken apart and put together again.
THEOREM QueueIsFifo == Spec => CpuQueueIsFifo
<1>1. IInv /\ [Next]_vars =>
        [\A e \in Emts, k \in Kinds :
            \/ Waiting(e, k)' = Waiting(e, k)
            \/ \E r \in Reqs : Waiting(e, k)' = <<r>> \o Waiting(e, k)
            \/ \E r \in Reqs : Waiting(e, k) = Append(Waiting(e, k)', r)]_vars
  BY FifoStep DEF IInv
<1> QED BY <1>1, Invariant, PTL DEF Spec, CpuQueueIsFifo
=============================================================================
