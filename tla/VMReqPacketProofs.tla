------------------------- MODULE VMReqPacketProofs --------------------------
(***************************************************************************)
(* Proofs about the request packets: for any number of requesters, packets *)
(* and free lists, the lock-free lists neither lose nor hand out twice a   *)
(* packet, and the semaphore of a packet is signalled for its own request  *)
(* only, but for the race that the model names.                            *)
(***************************************************************************)
EXTENDS VMReqPacket, FiniteSetTheorems, WellFoundedInduction, TLAPS

-----------------------------------------------------------------------------
(* The inductive invariant *)

Pointer == Packets \cup {NIL}
Links == [Packets -> Pointer]
Allocating == {"giveBack", "joinXchg", "joinLink", "joinStore", "joinUnlink", "joinRetry", "drain", "drained", "init"}
Waiting == {"wait", "loop", "waited", "result"}
Freeing == {"freeLook", "freeCount", "freeRead", "freePush"}
InEmt == {"complete", "readFlags", "unclear", "signal"}
Labels == {"idle", "fill", "queue", "free"} \cup Allocating \cup Waiting \cup Freeing \cup InEmt

\* TypeOK but for the count, and the variables that only the proof needs the type of.
TypeInv ==
    /\ apReqFree \in [Lists -> Pointer]
    /\ pNext \in Links
    /\ enmState \in [Packets -> {"INVALID", "ALLOCATED", "QUEUED", "PROCESSING", "COMPLETED", "FREE"}]
    /\ noWait \in [Packets -> BOOLEAN]
    /\ fEventSemClear \in [Packets -> BOOLEAN]
    /\ sem \in SUBSET Packets
    /\ req \in [Actors -> Pointer]
    /\ list \in [Actors -> Lists]
    /\ pRest \in [Requesters -> Pointer]
    /\ pHead \in [Requesters -> Pointer]
    /\ pOld \in [Actors -> Pointer]
    /\ kind \in [Actors -> {"NO_WAIT", "timed", "forever"}]
    /\ rc \in [Requesters -> BOOLEAN]
    /\ raced \in BOOLEAN
    /\ misread \in BOOLEAN
    /\ cReqFree \in Int
PcInv ==
    /\ pc \in [Actors -> Labels]
    /\ \A r \in Requesters : pc[r] \notin InEmt
    /\ pc[EMT] \in {"idle", "free"} \cup InEmt \cup Freeing
    /\ \A a \in Actors : pc[a] # "idle" => req[a] \in Packets

\* The chain that a requester has in hand besides its packet: what is left of the list
\* it took, or what it found on the list it gives that to.
Cut(r) == [pNext EXCEPT ![pOld[r]] = NIL]
Rest(r) ==
    IF pc[r] = "giveBack" THEN Chain(pNext[req[r]])
    ELSE IF pc[r] = "joinXchg" THEN Chain(pRest[r])
    ELSE IF pc[r] \in {"joinLink", "joinRetry"} THEN Chain(pHead[r])
    ELSE IF pc[r] \in {"joinStore", "joinUnlink"} THEN Reachable(Cut(r), pHead[r])
    ELSE {}

\* The actor has its packet for itself.
Owner(a) == pc[a] # "idle" /\ (a = EMT => pc[a] \in {"free"} \cup Freeing)

\* k and o say of every packet where it is and whose it is.
Placed(k, o) ==
    /\ \A p \in Packets, i \in Lists : p \in Chain(apReqFree[i]) <=> k[p] = "list" /\ o[p] = i
    /\ \A p \in Packets, r \in Requesters : p \in Rest(r) <=> k[p] = "rest" /\ o[p] = r
    /\ \A p \in Packets, a \in Actors : (Owner(a) /\ req[a] = p) <=> (k[p] = "own" /\ o[p] = a)
    /\ \A p \in Packets :
          /\ k[p] = "list" => o[p] \in Lists
          /\ k[p] = "rest" => o[p] \in Requesters
          /\ k[p] = "own" => o[p] \in Actors
    /\ \A p \in Packets : enmState[p] = "FREE" => k[p] # "none"
    /\ \A p \in Packets : k[p] \in {"list", "rest"} => enmState[p] = "FREE"

Kind == {"list", "rest", "own", "none"}
PlaceInv == \E k \in [Packets -> Kind], o \in [Packets -> Lists \cup Actors] : Placed(k, o)

\* The chain ends.
Ends(next, p) == p # NIL => \E q \in Reachable(next, p) : next[q] = NIL

\* What the steps of joining two chains rely on.
JoinInv(r) ==
    /\ pc[r] = "giveBack" => Ends(pNext, req[r])
    /\ pc[r] \in {"joinXchg", "joinLink", "joinStore", "joinUnlink"} => pRest[r] # NIL
    /\ pc[r] = "joinXchg" => Ends(pNext, pRest[r])
    /\ pc[r] \in {"joinLink", "joinStore", "joinUnlink", "joinRetry"} => pHead[r] # NIL
    /\ pc[r] \in {"joinLink", "joinRetry"} => Ends(pNext, pHead[r])
    /\ pc[r] \in {"joinStore", "joinUnlink"} => pOld[r] \in Rest(r) /\ pNext[pOld[r]] = pRest[r]

\* Chains end.
ChainInv ==
    /\ \A i \in Lists : Ends(pNext, apReqFree[i])
    /\ \A r \in Requesters : JoinInv(r)
    /\ \A a \in Actors : pc[a] = "freePush" => pNext[req[a]] = pOld[a]

\* What state a packet is in while somebody works on it.
InUse == {"QUEUED", "PROCESSING", "COMPLETED"}
StateOf(a) ==
    /\ pc[a] \in Allocating \cup Freeing => enmState[req[a]] = "FREE"
    /\ pc[a] \in {"fill", "queue"} => enmState[req[a]] = "ALLOCATED"
    /\ pc[a] = "queue" => noWait[req[a]] = (kind[a] = "NO_WAIT")
    /\ pc[a] \in Waiting \cup {"free"} => enmState[req[a]] \in InUse
    /\ pc[a] \in {"waited", "result"} /\ kind[a] = "forever" => enmState[req[a]] = "COMPLETED"
    /\ pc[a] = "free" => enmState[req[a]] = "COMPLETED" \/ (a # EMT /\ raced /\ kind[a] = "timed")
    /\ pc[a] \in Waiting \cup {"free"} /\ a # EMT => kind[a] \in {"timed", "forever"}
    /\ pc[a] = "complete" => enmState[req[a]] = "PROCESSING"
    /\ pc[a] = "idle" /\ a # EMT => req[a] = NIL

\* A request that nobody waits for belongs to nobody until it is completed.
Unfinished(p) ==
    \/ enmState[p] \in {"QUEUED", "PROCESSING"}
    \/ enmState[p] = "COMPLETED" /\ pc[EMT] = "readFlags" /\ req[EMT] = p
NobodyWaits ==
    \A p \in Packets : Unfinished(p) /\ noWait[p] => \A a \in Actors : Owner(a) => req[a] # p

StateInv == (\A a \in Actors : StateOf(a)) /\ NobodyWaits

\* The packet is to be signalled.
Pending(p) == (enmState[p] \in {"QUEUED", "PROCESSING"} /\ ~noWait[p]) \/ EmtOwesSignal(p)

Witness(r, p) == req[r] = p /\ pc[r] \in {"wait", "waited", "result"} /\ ~rc[r]

\* As long as no wait has ended in the middle of a completion, a semaphore is signalled
\* only for the request its packet is used for, and for one that has somebody waiting.
SignalledOnce == \A p \in sem : ~fEventSemClear[p] /\ enmState[p] \in {"COMPLETED", "FREE"}
OwedOnce ==
    /\ \A p \in Packets : EmtOwesSignal(p) => enmState[p] = "COMPLETED" /\ p \notin sem
    /\ pc[EMT] = "signal" => ~fEventSemClear[req[EMT]]
    /\ pc[EMT] = "readFlags" => enmState[req[EMT]] = "COMPLETED"
SomebodyWaits == \A p \in Packets : Pending(p) => \E r \in Requesters : Witness(r, p)
SemOf(r) ==
    /\ pc[r] \in {"drained", "init"} => req[r] \notin sem
    /\ pc[r] \notin {"loop", "waited", "result"} => ~rc[r]
    /\ pc[r] = "loop" => rc[r]
    /\ pc[r] \in {"waited", "result"} /\ kind[r] = "forever" => rc[r]
    /\ rc[r] => enmState[req[r]] = "COMPLETED" /\ req[r] \notin sem
SemInv ==
    ~raced => SignalledOnce /\ OwedOnce /\ SomebodyWaits /\ \A r \in Requesters : SemOf(r)

\* The free packets that cReqFree counts.
Uncounted == {"freeLook", "freeCount", "drained", "init"}
Counted == {p \in Packets : enmState[p] = "FREE" /\ \A a \in Actors : pc[a] \in Uncounted => req[a] # p}
CountInv == cReqFree = Cardinality(Counted)

Core == TypeInv /\ PcInv /\ PlaceInv /\ ChainInv /\ StateInv /\ SemInv /\ CountInv
IInv == TypeInv /\ PcInv /\ (misread => raced) /\ (misread \/ Core)

-----------------------------------------------------------------------------
(* Chains *)

\* A set that the links do not leave.
Closed(next, S) == \A x \in S : next[x] \in S \cup {NIL}

\* Nothing is reachable from NIL; a packet reaches packets only, and itself.
LEMMA ReachableBasics ==
    ASSUME NEW next, NEW p
    PROVE  /\ Reachable(next, NIL) = {}
           /\ Reachable(next, p) \subseteq Packets
           /\ p \in Packets => p \in Reachable(next, p)
BY NamesAssumption DEF Reachable

\* Whoever follows the links from a closed set does not leave it.
LEMMA ReachableLeast ==
    ASSUME NEW next, NEW p \in Packets, NEW S \in SUBSET Packets, p \in S, Closed(next, S)
    PROVE  Reachable(next, p) \subseteq S
BY DEF Reachable, Closed

\* The reachable packets are closed under the links.
LEMMA ReachableClosed ==
    ASSUME NEW next \in Links, NEW p \in Pointer
    PROVE  Closed(next, Reachable(next, p))
<1> SUFFICES ASSUME NEW x \in Reachable(next, p), next[x] # NIL
             PROVE  next[x] \in Reachable(next, p)
  BY DEF Closed
<1>1. x \in Packets /\ p # NIL /\ next[x] \in Packets
  BY DEF Reachable, Links, Pointer
<1> SUFFICES ASSUME NEW S \in SUBSET Packets, p \in S, \A y \in S : next[y] \in S \cup {NIL}
             PROVE  next[x] \in S
  BY <1>1 DEF Reachable
<1>2. x \in S
  BY DEF Reachable
<1> QED BY <1>2

\* Reachability is transitive.
LEMMA ReachableTransitive ==
    ASSUME NEW next \in Links, NEW p \in Pointer, NEW q \in Reachable(next, p)
    PROVE  Reachable(next, q) \subseteq Reachable(next, p)
<1>1. q \in Packets /\ Reachable(next, p) \in SUBSET Packets
  BY DEF Reachable
<1> QED BY <1>1, ReachableClosed, ReachableLeast

\* A chain is its first packet and the chain from the next.
LEMMA ReachableStep ==
    ASSUME NEW next \in Links, NEW p \in Packets
    PROVE  Reachable(next, p) = {p} \cup Reachable(next, next[p])
<1> DEFINE S == {p} \cup Reachable(next, next[p])
<1>1. next[p] \in Pointer
  BY DEF Links
<1>2. S \in SUBSET Packets /\ p \in S
  BY ReachableBasics
<1>3. Closed(next, S)
  <2>1. Closed(next, Reachable(next, next[p]))
    BY <1>1, ReachableClosed
  <2>2. next[p] \in S \cup {NIL}
    BY <1>1, ReachableBasics DEF Pointer
  <2> QED BY <2>1, <2>2 DEF Closed
<1>4. Reachable(next, p) \subseteq S
  BY <1>2, <1>3, ReachableLeast
<1>5. Reachable(next, next[p]) \subseteq Reachable(next, p)
  <2>1. CASE next[p] = NIL
    BY <2>1, ReachableBasics
  <2>2. CASE next[p] # NIL
    <3>1. p \in Reachable(next, p) /\ p \in Pointer
      BY ReachableBasics DEF Pointer
    <3>2. next[p] \in Reachable(next, p)
      BY <3>1, <2>2, ReachableClosed DEF Closed
    <3> QED BY <3>1, <3>2, ReachableTransitive
  <2> QED BY <2>1, <2>2
<1>6. p \in Reachable(next, p)
  BY ReachableBasics
<1> QED BY <1>4, <1>5, <1>6

\* Links that are changed elsewhere do not change a chain.
LEMMA ReachableFrame ==
    ASSUME NEW next \in Links, NEW new \in Links, NEW p \in Pointer,
           \A x \in Reachable(next, p) : new[x] = next[x]
    PROVE  Reachable(new, p) = Reachable(next, p)
<1>1. CASE p = NIL
  BY <1>1, ReachableBasics
<1>2. CASE p # NIL
  <2>1. p \in Packets
    BY <1>2 DEF Pointer
  <2>2. Closed(next, Reachable(next, p)) /\ Closed(new, Reachable(new, p))
    BY ReachableClosed
  <2>3. Reachable(new, p) \subseteq Reachable(next, p)
    <3>1. Closed(new, Reachable(next, p))
      BY <2>2 DEF Closed
    <3> QED BY <2>1, <3>1, ReachableLeast, ReachableBasics
  <2>4. Closed(next, Reachable(new, p))
    BY <2>2, <2>3 DEF Closed
  <2>5. Reachable(next, p) \subseteq Reachable(new, p)
    BY <2>1, <2>4, ReachableLeast, ReachableBasics
  <2> QED BY <2>3, <2>5
<1> QED BY <1>1, <1>2

\* A chain that ends does not come back to where it began, and what follows ends.
LEMMA EndsStep ==
    ASSUME NEW next \in Links, NEW p \in Packets, Ends(next, p)
    PROVE  /\ p \notin Reachable(next, next[p])
           /\ Ends(next, next[p])
<1> DEFINE S == {x \in Packets : p \in Reachable(next, x)}
<1>1. PICK t \in Reachable(next, p) : next[t] = NIL
  BY NamesAssumption DEF Ends
<1>2. t \in Packets /\ t \in {p} \cup Reachable(next, next[p])
  BY <1>1, ReachableStep, ReachableBasics
<1>3. Ends(next, next[p])
  <2> SUFFICES ASSUME next[p] # NIL
               PROVE  \E q \in Reachable(next, next[p]) : next[q] = NIL
    BY DEF Ends
  <2> QED BY <1>1, <1>2
<1>4. p \notin Reachable(next, next[p])
  <2> SUFFICES ASSUME p \in Reachable(next, next[p])
               PROVE  FALSE
    OBVIOUS
  <2>1. Closed(next, S)
    <3> SUFFICES ASSUME NEW x \in S, next[x] # NIL
                 PROVE  next[x] \in S
      BY DEF Closed
    <3>1. next[x] \in Packets
      BY DEF Links, Pointer
    <3>2. p \in {x} \cup Reachable(next, next[x])
      BY ReachableStep
    <3> QED BY <3>1, <3>2
  <2>2. t \in S
    <3>1. p \in S /\ S \in SUBSET Packets
      BY ReachableBasics
    <3> HIDE DEF S
    <3> QED BY <2>1, <3>1, <1>1, ReachableLeast
  <2>3. Reachable(next, t) = {t}
    BY <1>1, <1>2, ReachableStep, ReachableBasics
  <2>4. next[p] = NIL
    BY <2>2, <2>3, <1>1
  <2> QED BY <2>4, ReachableBasics
<1> QED BY <1>3, <1>4

\* A chain that is linked to another: from its head on, there are the packets of both.
LEMMA Linked ==
    ASSUME NEW next \in Links, NEW p \in Packets, NEW q \in Packets,
           NEW t \in Packets, next[t] = q, t \in Reachable([next EXCEPT ![t] = NIL], p),
           t \notin Reachable(next, q), Ends(next, q)
    PROVE  /\ Reachable(next, p) = Reachable([next EXCEPT ![t] = NIL], p) \cup Reachable(next, q)
           /\ Ends(next, p)
<1> DEFINE cut == [next EXCEPT ![t] = NIL]
           S == Reachable(cut, p) \cup Reachable(next, q)
<1>1. t \in Packets /\ cut \in Links
  BY ReachableBasics DEF Links, Pointer
<1>2. q \in Pointer /\ p \in Pointer
  BY DEF Pointer
<1>3. Closed(cut, Reachable(cut, p)) /\ Closed(next, Reachable(next, q)) /\ Closed(next, Reachable(next, p))
  BY <1>1, <1>2, ReachableClosed
<1>4. p \in S /\ S \in SUBSET Packets /\ q \in Reachable(next, q)
  BY ReachableBasics
<1>5. \A x \in Packets : x # t => cut[x] = next[x]
  BY DEF Links
<1> HIDE DEF cut
<1>6. Closed(next, S)
  <2> SUFFICES ASSUME NEW x \in S
               PROVE  next[x] \in S \cup {NIL}
    BY DEF Closed
  <2>1. CASE x \in Reachable(next, q)
    BY <2>1, <1>3 DEF Closed
  <2>2. CASE x = t
    BY <2>2, <1>4
  <2>3. CASE x # t /\ x \in Reachable(cut, p)
    BY <2>3, <1>3, <1>4, <1>5 DEF Closed
  <2> QED BY <2>1, <2>2, <2>3
<1>7. Reachable(next, p) \subseteq S
  BY <1>4, <1>6, ReachableLeast
<1>8. Reachable(cut, p) \subseteq Reachable(next, p)
  <2>1. Closed(cut, Reachable(next, p))
    <3>1. cut[t] = NIL
      BY <1>1 DEF cut, Links
    <3> QED BY <3>1, <1>3, <1>5, ReachableBasics DEF Closed
  <2> QED BY <2>1, ReachableLeast, ReachableBasics
<1>9. Reachable(next, q) \subseteq Reachable(next, p)
  <2>1. q \in Reachable(next, p)
    <3>1. t \in Reachable(next, p)
      BY <1>8 DEF cut
    <3>2. q # NIL
      BY NamesAssumption
    <3> QED BY <3>1, <3>2, <1>3 DEF Closed
  <2> QED BY <2>1, <1>2, ReachableTransitive
<1>10. Reachable(next, p) = S
  BY <1>7, <1>8, <1>9
<1>11. Ends(next, p)
  <2>1. PICK u \in Reachable(next, q) : next[u] = NIL
    BY NamesAssumption DEF Ends
  <2> QED BY <2>1, <1>9 DEF Ends
<1> QED BY <1>10, <1>11 DEF cut

-----------------------------------------------------------------------------
(* Types *)

\* The steps of an actor that has its packet to free, and those of a requester.
RequesterSteps(r) ==
    \/ TakeList(r) \/ GiveBack(r) \/ JoinXchg(r) \/ JoinLink(r) \/ JoinStore(r) \/ JoinUnlink(r)
    \/ JoinRetry(r) \/ Drain(r) \/ Drained(r) \/ InitPacket(r) \/ AllocNew(r)
    \/ Fill(r) \/ Queue(r) \/ Wait(r) \/ Timeout(r) \/ Loop(r) \/ Waited(r) \/ Result(r)
EmtSteps == Process \/ Complete \/ ReadFlags \/ Unclear \/ Signal

\* A step is one of a requester with its packet, one of VMR3ReqFree, or one of the EMT.
LEMMA Steps ==
    ASSUME Next
    PROVE  \/ \E r \in Requesters : RequesterSteps(r)
           \/ \E a \in Actors : FreeStep(a)
           \/ EmtSteps
BY DEF Next, EmtStep, RequesterStep, AllocStep, WaitStep, RequesterSteps, EmtSteps, Actors

\* A chain that ends has a tail.
LEMMA TailExists ==
    ASSUME TypeInv, NEW p \in Packets, Ends(pNext, p)
    PROVE  /\ TailOf(p) \in Packets
           /\ TailOf(p) \in Chain(p)
           /\ pNext[TailOf(p)] = NIL
<1>1. \E q \in Chain(p) : pNext[q] = NIL
  BY NamesAssumption DEF Ends, Chain
<1> QED BY <1>1, ReachableBasics DEF TailOf, Chain

\* Who the actors are.
LEMMA Names ==
    /\ EMT \in Actors /\ EMT \notin Requesters /\ NIL \notin Packets
    /\ \A r \in Requesters : r \in Actors /\ r # EMT
    /\ \A a \in Actors : a \in Requesters \/ a = EMT
    /\ 1 \in Lists
BY NamesAssumption, ListsAssumption DEF Actors, Lists

\* The steps of a requester keep the types,
LEMMA TypesOfRequester ==
    ASSUME TypeInv, PcInv, NEW r \in Requesters, RequesterSteps(r)
    PROVE  TypeInv'
<1> USE Names DEF TypeInv, PcInv, Links, Pointer, Go, Set, SetHead, Done, GoDrain, Joined, history
<1>1. CASE TakeList(r)
  BY <1>1, KindsAssumption DEF TakeList
<1>2. CASE GiveBack(r)
  BY <1>2 DEF GiveBack, JoinFree
<1>3. CASE JoinXchg(r)
  <2>1. CASE apReqFree[list[r]] = NIL
    BY <1>3, <2>1 DEF JoinXchg
  <2>2. CASE apReqFree[list[r]] # NIL
    BY <1>3, <2>2 DEF JoinXchg
  <2> QED BY <2>1, <2>2
<1>4. CASE JoinLink(r)
  <2>1. TailOf(pHead[r]) \in Packets
    BY <1>4, ReachableBasics DEF JoinLink, TailOf, Chain
  <2> QED BY <1>4, <2>1 DEF JoinLink
<1>5. CASE JoinStore(r)
  <2>1. CASE apReqFree[list[r]] = pRest[r]
    BY <1>5, <2>1 DEF JoinStore
  <2>2. CASE apReqFree[list[r]] # pRest[r]
    BY <1>5, <2>2 DEF JoinStore
  <2> QED BY <2>1, <2>2
<1>6. CASE JoinUnlink(r)
  BY <1>6 DEF JoinUnlink, LinkUndone, local
<1>7. CASE JoinRetry(r)
  <2>1. CASE apReqFree[list[r]] = NIL
    BY <1>7, <2>1 DEF JoinRetry
  <2>2. CASE apReqFree[list[r]] # NIL
    BY <1>7, <2>2 DEF JoinRetry
  <2> QED BY <2>1, <2>2
<1>8. CASE Drain(r)
  BY <1>8 DEF Drain, local, CountOneLess
<1>9. CASE InitPacket(r)
  BY <1>9 DEF InitPacket, local
<1>10. CASE AllocNew(r)
  BY <1>10, KindsAssumption DEF AllocNew
<1>11. CASE Queue(r)
  BY <1>11 DEF Queue
<1>12. CASE Wait(r)
  BY <1>12 DEF Wait
<1>13. CASE Timeout(r)
  BY <1>13 DEF Timeout, shared
<1>14. CASE Loop(r)
  BY <1>14 DEF Loop, shared, local
<1>15. CASE Waited(r)
  BY <1>15 DEF Waited, local
<1>16. CASE Result(r)
  BY <1>16 DEF Result, shared
<1>17. CASE Drained(r)
  BY <1>17 DEF Drained, local
<1>18. CASE Fill(r)
  BY <1>18 DEF Fill, local
<1> QED BY <1>1, <1>2, <1>3, <1>4, <1>5, <1>6, <1>7, <1>8, <1>9, <1>10, <1>11, <1>12, <1>13, <1>14,
           <1>15, <1>16, <1>17, <1>18 DEF RequesterSteps

\* and so do those of VMR3ReqFree and of the EMT.
LEMMA TypesOfOthers ==
    ASSUME TypeInv, PcInv, (\E a \in Actors : FreeStep(a)) \/ EmtSteps
    PROVE  TypeInv'
<1> USE Names DEF TypeInv, PcInv, Links, Pointer, Go, Set, SetHead, Done, history
<1>1. ASSUME NEW a \in Actors, Free(a)
      PROVE  TypeInv'
  BY <1>1 DEF Free
<1>2. ASSUME NEW a \in Actors, FreeLook(a)
      PROVE  TypeInv'
  BY <1>2 DEF FreeLook
<1>3. ASSUME NEW a \in Actors, FreeCount(a)
      PROVE  TypeInv'
  BY <1>3 DEF FreeCount, CountOneMore
<1>4. ASSUME NEW a \in Actors, FreeRead(a)
      PROVE  TypeInv'
  BY <1>4 DEF FreeRead
<1>5. ASSUME NEW a \in Actors, FreePush(a)
      PROVE  TypeInv'
  BY <1>5 DEF FreePush
<1>6. CASE Process
  BY <1>6 DEF Process
<1>7. CASE Complete
  BY <1>7 DEF Complete, local
<1>8. CASE Unclear
  BY <1>8 DEF Unclear, local
<1>9. CASE Signal
  BY <1>9 DEF Signal
<1>10. CASE ReadFlags
  BY <1>10 DEF ReadFlags, shared, local
<1> QED BY <1>1, <1>2, <1>3, <1>4, <1>5, <1>6, <1>7, <1>8, <1>9, <1>10 DEF FreeStep, EmtSteps

\* The places of all the others, and what they have in hand, stay as they are.
Others(a) ==
    \A b \in Actors \ {a} :
        /\ pc'[b] = pc[b] /\ req'[b] = req[b] /\ pOld'[b] = pOld[b] /\ kind'[b] = kind[b]
        /\ b \in Requesters => pRest'[b] = pRest[b] /\ pHead'[b] = pHead[b] /\ rc'[b] = rc[b]

\* A step of one actor leaves what the others remember: those of a requester,
LEMMA OthersOfRequester ==
    ASSUME TypeInv, PcInv, NEW r \in Requesters, RequesterSteps(r)
    PROVE  Others(r) /\ PcInv'
<1> USE Names DEF TypeInv, PcInv, Links, Pointer, Go, Done, GoDrain, Joined, Others,
        Labels, Allocating, Waiting, Freeing, InEmt
<1>1. CASE TakeList(r)
  BY <1>1 DEF TakeList
<1>2. CASE GiveBack(r)
  BY <1>2 DEF GiveBack, JoinFree
<1>3. CASE JoinXchg(r)
  BY <1>3 DEF JoinXchg
<1>4. CASE JoinLink(r)
  BY <1>4 DEF JoinLink
<1>5. CASE JoinStore(r)
  BY <1>5 DEF JoinStore
<1>6. CASE JoinUnlink(r)
  BY <1>6 DEF JoinUnlink, local
<1>7. CASE JoinRetry(r)
  BY <1>7 DEF JoinRetry
<1>8. CASE Drain(r)
  BY <1>8 DEF Drain, local, CountOneLess
<1>9. CASE InitPacket(r)
  BY <1>9 DEF InitPacket, local
<1>10. CASE AllocNew(r)
  BY <1>10 DEF AllocNew
<1>11. CASE Queue(r)
  BY <1>11 DEF Queue
<1>12. CASE Wait(r)
  BY <1>12 DEF Wait
<1>13. CASE Timeout(r)
  BY <1>13 DEF Timeout, shared
<1>14. CASE Loop(r)
  BY <1>14 DEF Loop, shared, local
<1>15. CASE Waited(r)
  BY <1>15 DEF Waited, local
<1>16. CASE Result(r)
  BY <1>16 DEF Result, shared
<1>17. CASE Drained(r)
  BY <1>17 DEF Drained, local
<1>18. CASE Fill(r)
  BY <1>18 DEF Fill, local
<1> QED BY <1>1, <1>2, <1>3, <1>4, <1>5, <1>6, <1>7, <1>8, <1>9, <1>10, <1>11, <1>12, <1>13, <1>14,
           <1>15, <1>16, <1>17, <1>18 DEF RequesterSteps

\* of VMR3ReqFree,
LEMMA OthersOfFree ==
    ASSUME TypeInv, PcInv, NEW a \in Actors, FreeStep(a)
    PROVE  Others(a) /\ PcInv'
<1> USE Names DEF TypeInv, PcInv, Links, Pointer, Go, Done, Others,
        Labels, Allocating, Waiting, Freeing, InEmt
<1>1. CASE Free(a)
  BY <1>1 DEF Free
<1>2. CASE FreeLook(a)
  BY <1>2 DEF FreeLook
<1>3. CASE FreeCount(a)
  BY <1>3 DEF FreeCount
<1>4. CASE FreeRead(a)
  BY <1>4 DEF FreeRead
<1>5. CASE FreePush(a)
  BY <1>5 DEF FreePush, ReadAgain
<1> QED BY <1>1, <1>2, <1>3, <1>4, <1>5 DEF FreeStep

\* and of the EMT.
LEMMA OthersOfEmt ==
    ASSUME TypeInv, PcInv, EmtSteps
    PROVE  Others(EMT) /\ PcInv'
<1> USE Names DEF TypeInv, PcInv, Links, Pointer, Go, Done, Others,
        Labels, Allocating, Waiting, Freeing, InEmt
<1>1. CASE Process
  BY <1>1 DEF Process
<1>2. CASE Complete
  BY <1>2 DEF Complete, local
<1>3. CASE Unclear
  BY <1>3 DEF Unclear, local
<1>4. CASE Signal
  BY <1>4 DEF Signal
<1>5. CASE ReadFlags
  BY <1>5 DEF ReadFlags, local
<1> QED BY <1>1, <1>2, <1>3, <1>4, <1>5 DEF EmtSteps

-----------------------------------------------------------------------------
(* Places and chains *)

\* Nobody shares a packet.
LEMMA Exclusive ==
    ASSUME TypeInv, PcInv, PlaceInv, NEW p \in Packets
    PROVE  /\ \A i, j \in Lists : p \in Chain(apReqFree[i]) /\ p \in Chain(apReqFree[j]) => i = j
           /\ \A i \in Lists, r \in Requesters : ~(p \in Chain(apReqFree[i]) /\ p \in Rest(r))
           /\ \A r, q \in Requesters : p \in Rest(r) /\ p \in Rest(q) => r = q
           /\ \A a \in Actors, i \in Lists : ~(Owner(a) /\ req[a] = p /\ p \in Chain(apReqFree[i]))
           /\ \A a \in Actors, r \in Requesters : ~(Owner(a) /\ req[a] = p /\ p \in Rest(r))
           /\ \A a, b \in Actors : Owner(a) /\ req[a] = p /\ Owner(b) /\ req[b] = p => a = b
BY DEF PlaceInv, Placed

\* The packets of a chain that somebody has are packets.
LEMMA RestIsPackets ==
    ASSUME NEW r \in Requesters
    PROVE  Rest(r) \subseteq Packets
BY ReachableBasics DEF Rest, Chain

\* A change of links outside a chain does not matter to it.
LEMMA ChainKept ==
    ASSUME NEW next \in Links, NEW new \in Links, NEW p \in Pointer, NEW x,
           \A y \in Packets : y # x => new[y] = next[y],
           x \notin Reachable(next, p)
    PROVE  /\ Reachable(new, p) = Reachable(next, p)
           /\ Ends(next, p) => Ends(new, p)
<1>1. \A y \in Reachable(next, p) : new[y] = next[y]
  BY ReachableBasics
<1>2. Reachable(new, p) = Reachable(next, p)
  BY <1>1, ReachableFrame
<1> QED BY <1>1, <1>2 DEF Ends

\* Nor does it to what a requester has in hand.
LEMMA RestKept ==
    ASSUME TypeInv, TypeInv', PcInv, NEW r \in Requesters, JoinInv(r), NEW x,
           \A y \in Packets : y # x => pNext'[y] = pNext[y],
           x \notin Rest(r), pc[r] = "giveBack" => x # req[r],
           pc'[r] = pc[r], req'[r] = req[r], pRest'[r] = pRest[r], pHead'[r] = pHead[r], pOld'[r] = pOld[r]
    PROVE  Rest(r)' = Rest(r) /\ JoinInv(r)'
<1>0. /\ r \in Actors /\ pNext \in Links /\ pNext' \in Links
      /\ req[r] \in Pointer /\ pRest[r] \in Pointer /\ pHead[r] \in Pointer /\ pOld[r] \in Pointer
  BY Names DEF TypeInv
<1>1. CASE pc[r] = "giveBack"
  <2>1. req[r] \in Packets /\ pNext[req[r]] \in Pointer /\ pNext'[req[r]] = pNext[req[r]]
    BY <1>0, <1>1 DEF PcInv, Links
  <2>2. x \notin Reachable(pNext, pNext[req[r]])
    BY <1>1 DEF Rest, Chain
  <2>3. Rest(r)' = Rest(r)
    BY <1>0, <1>1, <2>1, <2>2, ChainKept DEF Rest, Chain
  <2>4. x \notin Reachable(pNext, req[r])
    BY <1>0, <1>1, <2>1, <2>2, ReachableStep
  <2>5. Ends(pNext', req[r])
    BY <1>0, <1>1, <2>4, ChainKept DEF JoinInv
  <2> QED BY <1>1, <2>3, <2>5 DEF JoinInv
<1>2. CASE pc[r] = "joinXchg"
  <2>1. x \notin Reachable(pNext, pRest[r])
    BY <1>2 DEF Rest, Chain
  <2>2. Reachable(pNext', pRest[r]) = Reachable(pNext, pRest[r]) /\ Ends(pNext', pRest[r])
    BY <1>0, <1>2, <2>1, ChainKept DEF JoinInv
  <2> QED BY <1>2, <2>2 DEF JoinInv, Rest, Chain
<1>3. CASE pc[r] \in {"joinLink", "joinRetry"}
  <2>1. x \notin Reachable(pNext, pHead[r])
    BY <1>3 DEF Rest, Chain
  <2>2. Reachable(pNext', pHead[r]) = Reachable(pNext, pHead[r]) /\ Ends(pNext', pHead[r])
    BY <1>0, <1>3, <2>1, ChainKept DEF JoinInv
  <2> QED BY <1>3, <2>2 DEF JoinInv, Rest, Chain
<1>4. CASE pc[r] \in {"joinStore", "joinUnlink"}
  <2>1. /\ Rest(r) = Reachable(Cut(r), pHead[r])
        /\ Rest(r)' = Reachable(Cut(r)', pHead[r])
    BY <1>4 DEF Rest
  <2>2. Cut(r) \in Links /\ Cut(r)' \in Links /\ \A y \in Packets : y # x => Cut(r)'[y] = Cut(r)[y]
    BY <1>0 DEF Cut, Links, Pointer
  <2>3. Rest(r)' = Rest(r)
    BY <1>0, <2>1, <2>2, ChainKept
  <2>4. pOld[r] \in Packets /\ pOld[r] # x
    BY <1>4, RestIsPackets DEF JoinInv
  <2> QED BY <1>4, <2>3, <2>4 DEF JoinInv
<1>5. CASE pc[r] \notin {"giveBack", "joinXchg", "joinLink", "joinRetry", "joinStore", "joinUnlink"}
  BY <1>5 DEF Rest, JoinInv
<1> QED BY <1>1, <1>2, <1>3, <1>4, <1>5

\* No link but that of x changes, and x is none of what the others have.
Outside(a, x) ==
    /\ \A y \in Packets : y # x => pNext'[y] = pNext[y]
    /\ \A r \in Requesters \ {a} : x \notin Rest(r)
    /\ \A b \in Actors \ {a} : Owner(b) => req[b] # x

\* The step of an actor that changes only links of its own, if any, leaves all others
\* what they have.
LEMMA OthersKept ==
    ASSUME TypeInv, TypeInv', PcInv, PcInv', PlaceInv, ChainInv, NEW a \in Actors, Others(a),
           NEW x, Outside(a, x)
    PROVE  /\ \A r \in Requesters \ {a} : Rest(r)' = Rest(r) /\ JoinInv(r)'
           /\ \A b \in Actors \ {a} : /\ Owner(b)' <=> Owner(b)
                                      /\ req'[b] = req[b]
                                      /\ pc'[b] = "freePush" => pNext'[req'[b]] = pOld'[b]
<1>1. ASSUME NEW r \in Requesters \ {a}
      PROVE  Rest(r)' = Rest(r) /\ JoinInv(r)'
  <2>1. /\ pc'[r] = pc[r] /\ req'[r] = req[r] /\ pRest'[r] = pRest[r] /\ pHead'[r] = pHead[r]
        /\ pOld'[r] = pOld[r]
    BY Names DEF Others
  <2>2. pc[r] = "giveBack" => req[r] # x
    BY Names DEF Owner, Outside
  <2>3. x \notin Rest(r) /\ \A y \in Packets : y # x => pNext'[y] = pNext[y]
    BY DEF Outside
  <2> QED BY <2>1, <2>2, <2>3, RestKept DEF ChainInv
<1>2. ASSUME NEW b \in Actors \ {a}
      PROVE  /\ Owner(b)' <=> Owner(b)
             /\ req'[b] = req[b]
             /\ pc'[b] = "freePush" => pNext'[req'[b]] = pOld'[b]
  <2>1. pc'[b] = pc[b] /\ req'[b] = req[b] /\ pOld'[b] = pOld[b]
    BY DEF Others
  <2>2. ASSUME pc[b] = "freePush"
        PROVE  pNext'[req[b]] = pOld[b]
    BY <2>2 DEF Owner, ChainInv, PcInv, Freeing, Outside
  <2> QED BY <2>1, <2>2 DEF Owner
<1> QED BY <1>1, <1>2

\* Nor does it change a list that x is not on.
LEMMA ListsKept ==
    ASSUME TypeInv, TypeInv', ChainInv, NEW a, NEW x, Outside(a, x), NEW i \in Lists,
           apReqFree'[i] = apReqFree[i], x \notin Chain(apReqFree[i])
    PROVE  Chain(apReqFree[i])' = Chain(apReqFree[i]) /\ (Ends(pNext, apReqFree[i]))'
<1>1. apReqFree[i] \in Pointer /\ pNext \in Links /\ pNext' \in Links
  BY DEF TypeInv
<1>2. x \notin Reachable(pNext, apReqFree[i]) /\ Ends(pNext, apReqFree[i])
  BY DEF Chain, ChainInv
<1>3. \A y \in Packets : y # x => pNext'[y] = pNext[y]
  BY DEF Outside
<1> QED BY <1>1, <1>2, <1>3, ChainKept DEF Chain

\* The step changes no head of a list, at most the link of x, which is its own, and not
\* what the actor has.
Stays(a, x) ==
    /\ x \notin Packets \/ (Owner(a) /\ x = req[a]) \/ (a \in Requesters /\ x \in Rest(a))
    /\ \A y \in Packets : y # x => pNext'[y] = pNext[y]
    /\ apReqFree' = apReqFree
    /\ Owner(a)' <=> Owner(a)
    /\ Owner(a) => req'[a] = req[a]
    /\ a \in Requesters => Rest(a)' = Rest(a) /\ JoinInv(a)'
    /\ pc'[a] = "freePush" => pNext'[req'[a]] = pOld'[a]
    /\ \A p \in Packets : ~(Owner(a) /\ req[a] = p) => (enmState'[p] = "FREE" <=> enmState[p] = "FREE")

\* Such a step keeps all places.
LEMMA PlacesKept ==
    ASSUME TypeInv, TypeInv', PcInv, PcInv', PlaceInv, ChainInv, NEW a \in Actors, Others(a),
           NEW x, Stays(a, x)
    PROVE  PlaceInv' /\ ChainInv'
<1> USE DEF Stays
<1>1. /\ \A i \in Lists : x \notin Chain(apReqFree[i])
      /\ Outside(a, x)
  <2>1. CASE x \notin Packets
    BY <2>1, RestIsPackets, ReachableBasics DEF Chain, PcInv, Owner, Outside
  <2>2. CASE x \in Packets
    BY <2>2, Exclusive DEF Outside
  <2> QED BY <2>1, <2>2
<1>2. /\ \A r \in Requesters \ {a} : Rest(r)' = Rest(r) /\ JoinInv(r)'
      /\ \A b \in Actors \ {a} : /\ Owner(b)' <=> Owner(b)
                                 /\ req'[b] = req[b]
                                 /\ pc'[b] = "freePush" => pNext'[req'[b]] = pOld'[b]
  BY <1>1, OthersKept
<1>3. \A i \in Lists : Chain(apReqFree[i])' = Chain(apReqFree[i]) /\ (Ends(pNext, apReqFree[i]))'
  BY <1>1, ListsKept
<1>4. ChainInv'
  BY <1>2, <1>3 DEF ChainInv
<1>5. PlaceInv'
  <2>1. PICK k \in [Packets -> Kind], o \in [Packets -> Lists \cup Actors] : Placed(k, o)
    BY DEF PlaceInv
  <2>2. \A p \in Packets, i \in Lists : p \in Chain(apReqFree[i])' <=> k[p] = "list" /\ o[p] = i
    BY <1>3, <2>1 DEF Placed
  <2>3. \A p \in Packets, r \in Requesters : p \in Rest(r)' <=> k[p] = "rest" /\ o[p] = r
    BY <1>2, <2>1 DEF Placed
  <2>4. \A p \in Packets, b \in Actors : (Owner(b)' /\ req'[b] = p) <=> (k[p] = "own" /\ o[p] = b)
    BY <1>2, <2>1 DEF Placed
  <2>5. \A p \in Packets : /\ enmState'[p] = "FREE" => k[p] # "none"
                           /\ k[p] \in {"list", "rest"} => enmState'[p] = "FREE"
    BY <2>1 DEF Placed
  <2>6. Placed(k, o)'
    BY <2>1, <2>2, <2>3, <2>4, <2>5 DEF Placed
  <2> QED BY <2>6 DEF PlaceInv
<1> QED BY <1>4, <1>5

\* The actor parts with its packet, which is not free then.
LEMMA PacketDropped ==
    ASSUME TypeInv, TypeInv', PcInv, PcInv', PlaceInv, ChainInv, NEW a \in Actors, Others(a),
           Owner(a), ~Owner(a)', pNext' = pNext, apReqFree' = apReqFree,
           a \in Requesters => Rest(a) = {} /\ Rest(a)' = {} /\ JoinInv(a)',
           pc'[a] # "freePush",
           enmState'[req[a]] # "FREE",
           \A p \in Packets : p # req[a] => enmState'[p] = enmState[p]
    PROVE  PlaceInv' /\ ChainInv'
<1>0. req[a] \in Packets
  BY DEF PcInv, Owner
<1>1. Outside(a, NIL)
  BY Names, RestIsPackets DEF Outside, Owner, PcInv
<1>2. /\ \A r \in Requesters \ {a} : Rest(r)' = Rest(r) /\ JoinInv(r)'
      /\ \A b \in Actors \ {a} : /\ Owner(b)' <=> Owner(b)
                                 /\ req'[b] = req[b]
                                 /\ pc'[b] = "freePush" => pNext'[req'[b]] = pOld'[b]
  BY <1>1, OthersKept
<1>3. \A i \in Lists : Chain(apReqFree[i])' = Chain(apReqFree[i])
  BY DEF Chain
<1>4. ChainInv'
  BY <1>2 DEF ChainInv
<1>5. PlaceInv'
  <2>1. PICK k \in [Packets -> Kind], o \in [Packets -> Lists \cup Actors] : Placed(k, o)
    BY DEF PlaceInv
  <2>2. PICK k2 \in [Packets -> Kind] :
            k2[req[a]] = "none" /\ \A p \in Packets : p # req[a] => k2[p] = k[p]
    <3> DEFINE f == [k EXCEPT ![req[a]] = "none"]
    <3>1. f \in [Packets -> Kind] /\ f[req[a]] = "none" /\ \A p \in Packets : p # req[a] => f[p] = k[p]
      BY <1>0 DEF Kind
    <3> QED BY <3>1
  <2>3. k[req[a]] = "own" /\ o[req[a]] = a
    BY <1>0, <2>1 DEF Placed
  <2>4. \A p \in Packets, i \in Lists : p \in Chain(apReqFree[i])' <=> k2[p] = "list" /\ o[p] = i
    BY <1>3, <2>1, <2>2, <2>3 DEF Placed
  <2>5. \A p \in Packets, r \in Requesters : p \in Rest(r)' <=> k2[p] = "rest" /\ o[p] = r
    BY <1>2, <2>1, <2>2, <2>3 DEF Placed
  <2>6. \A p \in Packets, b \in Actors : (Owner(b)' /\ req'[b] = p) <=> (k2[p] = "own" /\ o[p] = b)
    BY <1>0, <1>2, <2>1, <2>2, <2>3 DEF Placed
  <2>7. \A p \in Packets : /\ enmState'[p] = "FREE" => k2[p] # "none"
                           /\ k2[p] \in {"list", "rest"} => enmState'[p] = "FREE"
    BY <1>0, <2>1, <2>2 DEF Placed
  <2>8. Placed(k2, o)'
    BY <2>1, <2>2, <2>4, <2>5, <2>6, <2>7 DEF Placed
  <2> QED BY <2>8 DEF PlaceInv
<1> QED BY <1>4, <1>5

\* The actor gets a packet that nobody has, and that is not free.
LEMMA PacketTaken ==
    ASSUME TypeInv, TypeInv', PcInv, PcInv', PlaceInv, ChainInv, NEW a \in Actors, Others(a),
           ~Owner(a), Owner(a)', NEW x \in Packets, req'[a] = x, apReqFree' = apReqFree,
           \A y \in Packets : y # x => pNext'[y] = pNext[y],
           enmState[x] # "FREE", \A b \in Actors : Owner(b) => req[b] # x,
           a \in Requesters => Rest(a) = {} /\ Rest(a)' = {} /\ JoinInv(a)',
           pc'[a] # "freePush",
           \A p \in Packets : p # x => enmState'[p] = enmState[p]
    PROVE  PlaceInv' /\ ChainInv'
<1>1. PICK k \in [Packets -> Kind], o \in [Packets -> Lists \cup Actors] : Placed(k, o)
  BY DEF PlaceInv
<1>2. k[x] = "none"
  <2>1. k[x] \in Kind /\ o[x] \in Lists \cup Actors
    BY <1>1
  <2>2. k[x] # "list" /\ k[x] # "rest"
    BY <1>1 DEF Placed
  <2> QED BY <1>1, <2>1, <2>2 DEF Kind, Placed
<1>3. /\ \A i \in Lists : x \notin Chain(apReqFree[i])
      /\ Outside(a, x)
  BY <1>1, <1>2 DEF Placed, Outside
<1>4. /\ \A r \in Requesters \ {a} : Rest(r)' = Rest(r) /\ JoinInv(r)'
      /\ \A b \in Actors \ {a} : /\ Owner(b)' <=> Owner(b)
                                 /\ req'[b] = req[b]
                                 /\ pc'[b] = "freePush" => pNext'[req'[b]] = pOld'[b]
  BY <1>3, OthersKept
<1>5. \A i \in Lists : Chain(apReqFree[i])' = Chain(apReqFree[i]) /\ (Ends(pNext, apReqFree[i]))'
  BY <1>3, ListsKept
<1>6. ChainInv'
  BY <1>4, <1>5 DEF ChainInv
<1>7. PlaceInv'
  <2>1. PICK k2 \in [Packets -> Kind], o2 \in [Packets -> Lists \cup Actors] :
            /\ k2[x] = "own" /\ o2[x] = a
            /\ \A p \in Packets : p # x => k2[p] = k[p] /\ o2[p] = o[p]
    <3> DEFINE f == [k EXCEPT ![x] = "own"]
               g == [o EXCEPT ![x] = a]
    <3>1. /\ f \in [Packets -> Kind] /\ g \in [Packets -> Lists \cup Actors]
          /\ f[x] = "own" /\ g[x] = a
          /\ \A p \in Packets : p # x => f[p] = k[p] /\ g[p] = o[p]
      BY DEF Kind
    <3> HIDE DEF f, g
    <3> QED BY <3>1
  <2>2. \A p \in Packets, i \in Lists : p \in Chain(apReqFree[i])' <=> k2[p] = "list" /\ o2[p] = i
    BY <1>1, <1>2, <1>5, <2>1 DEF Placed
  <2>3. \A p \in Packets, r \in Requesters : p \in Rest(r)' <=> k2[p] = "rest" /\ o2[p] = r
    BY <1>1, <1>2, <1>4, <2>1 DEF Placed
  <2>4. \A p \in Packets, b \in Actors : (Owner(b)' /\ req'[b] = p) <=> (k2[p] = "own" /\ o2[p] = b)
    BY <1>1, <1>2, <1>4, <2>1 DEF Placed
  <2>5. \A p \in Packets : /\ enmState'[p] = "FREE" => k2[p] # "none"
                           /\ k2[p] \in {"list", "rest"} => enmState'[p] = "FREE"
    BY <1>1, <2>1 DEF Placed
  <2>6. Placed(k2, o2)'
    BY <1>1, <2>1, <2>2, <2>3, <2>4, <2>5 DEF Placed
  <2> QED BY <2>6 DEF PlaceInv
<1> QED BY <1>6, <1>7

\* Neither before nor after the step has the requester a chain in hand.
HandsEmpty == {"idle", "drain", "drained", "init", "fill", "queue", "free"} \cup Waiting \cup Freeing

\* Whoever is not giving anything back has no chain in hand.
LEMMA HandsEmptyFacts ==
    ASSUME NEW r \in Requesters
    PROVE  /\ pc[r] \in HandsEmpty => Rest(r) = {} /\ JoinInv(r)
           /\ pc'[r] \in HandsEmpty => Rest(r)' = {} /\ JoinInv(r)'
BY DEF HandsEmpty, Rest, JoinInv, Waiting, Freeing

\* Using a packet: from the semaphore to the result of the wait.
LEMMA PlacesOfUse ==
    ASSUME TypeInv, TypeInv', PcInv, PcInv', PlaceInv, ChainInv, StateInv, NEW r \in Requesters, Others(r),
           \/ Drain(r) \/ Drained(r) \/ InitPacket(r) \/ Fill(r) \/ Queue(r)
           \/ Wait(r) \/ Timeout(r) \/ Loop(r) \/ Waited(r) \/ Result(r)
    PROVE  PlaceInv' /\ ChainInv'
<1>0. r \in Actors /\ r # EMT /\ NIL \notin Packets
  BY Names
<1>1. pc[r] \in HandsEmpty /\ pc'[r] \in HandsEmpty /\ pc'[r] # "freePush" /\ Owner(r) /\ req[r] \in Packets
  BY <1>0 DEF HandsEmpty, Waiting, Drain, Drained, InitPacket, Fill, Queue, Wait, Timeout, Loop, Waited, Result, Go, Done,
              PcInv, Owner
<1>2. Rest(r) = {} /\ Rest(r)' = {} /\ JoinInv(r)'
  BY <1>1, HandsEmptyFacts
<1>3. CASE InitPacket(r)
  <2>1. Stays(r, req[r])
    <3>1. pc'[r] = "fill" /\ req'[r] = req[r] /\ apReqFree' = apReqFree
      BY <1>0, <1>3 DEF InitPacket, Go, local, PcInv
    <3>2. \A y \in Packets : y # req[r] => pNext'[y] = pNext[y] /\ enmState'[y] = enmState[y]
      BY <1>3 DEF InitPacket, Set, TypeInv, Links
    <3> QED BY <1>0, <1>1, <1>2, <3>1, <3>2 DEF Stays, Owner
  <2> QED BY <1>0, <2>1, PlacesKept
<1>4. CASE Queue(r) /\ kind[r] = "NO_WAIT"
  <2>0. enmState[req[r]] = "ALLOCATED"
    BY <1>0, <1>4 DEF Queue, StateInv, StateOf
  <2>1. ~Owner(r)' /\ pNext' = pNext /\ apReqFree' = apReqFree
    BY <1>0, <1>4, <2>0 DEF Queue, Done, Go, Owner, PcInv
  <2>2. enmState'[req[r]] # "FREE" /\ \A p \in Packets : p # req[r] => enmState'[p] = enmState[p]
    BY <1>1, <1>4, <2>0 DEF Queue, Set, TypeInv
  <2> QED BY <1>0, <1>1, <1>2, <2>1, <2>2, PacketDropped
<1>5. CASE \/ Drain(r) \/ Drained(r) \/ Fill(r) \/ (Queue(r) /\ kind[r] # "NO_WAIT") \/ Wait(r) \/ Timeout(r) \/ Loop(r)
           \/ Waited(r) \/ Result(r)
  <2>1. pc'[r] # "idle" /\ req' = req /\ pNext' = pNext /\ apReqFree' = apReqFree
    BY <1>0, <1>5 DEF Drain, Drained, Fill, Queue, Wait, Timeout, Loop, Waited, Result, Go, shared, local, PcInv
  <2>2. \A p \in Packets : p # req[r] => enmState'[p] = enmState[p]
    BY <1>5 DEF Drain, Drained, Fill, Queue, Wait, Timeout, Loop, Waited, Result, Set, shared, TypeInv
  <2>3. Stays(r, NIL)
    BY <1>0, <1>1, <1>2, <2>1, <2>2 DEF Stays, Owner
  <2> QED BY <1>0, <2>3, PlacesKept
<1> QED BY <1>3, <1>4, <1>5

\* A packet from the heap is nowhere else.
LEMMA PlacesOfAllocNew ==
    ASSUME TypeInv, TypeInv', PcInv, PcInv', PlaceInv, ChainInv, StateInv, NEW r \in Requesters, Others(r),
           AllocNew(r)
    PROVE  PlaceInv' /\ ChainInv'
<1>0. r \in Actors /\ r # EMT
  BY Names
<1>1. pc[r] = "idle" /\ pc'[r] = "fill" /\ apReqFree' = apReqFree
  BY <1>0 DEF AllocNew, Go, PcInv
<1>2. Rest(r) = {} /\ Rest(r)' = {} /\ JoinInv(r)'
  BY <1>1, HandsEmptyFacts DEF HandsEmpty
<1>3. PICK p \in Packets :
        /\ enmState[p] = "INVALID"
        /\ req' = [req EXCEPT ![r] = p]
        /\ Set(p, "ALLOCATED")
        /\ pNext' = [pNext EXCEPT ![p] = NIL]
  BY DEF AllocNew
<1>4. req'[r] = p /\ \A y \in Packets : y # p => pNext'[y] = pNext[y] /\ enmState'[y] = enmState[y]
  BY <1>0, <1>3 DEF Set, TypeInv, Links
<1>5. \A b \in Actors : Owner(b) => req[b] # p
  BY <1>3, Names DEF Owner, StateInv, StateOf, PcInv, Labels, Freeing, Waiting, Allocating, InEmt, InUse
<1> QED BY <1>0, <1>1, <1>2, <1>3, <1>4, <1>5, PacketTaken DEF Owner

\* Freeing a packet, up to the push.
LEMMA PlacesOfFree ==
    ASSUME TypeInv, TypeInv', PcInv, PcInv', PlaceInv, ChainInv, StateInv, NEW a \in Actors, Others(a),
           \/ Free(a) \/ FreeLook(a) \/ FreeCount(a) \/ FreeRead(a) \/ (FreePush(a) /\ ~HeadIsOld(a))
    PROVE  PlaceInv' /\ ChainInv'
<1>0. NIL \notin Packets
  BY Names
<1>1. /\ pc[a] \in {"free"} \cup Freeing /\ pc'[a] \in {"idle", "free"} \cup Freeing
      /\ Owner(a) /\ req[a] \in Packets
  BY DEF Freeing, Free, FreeLook, FreeCount, FreeRead, FreePush, ReadAgain, Go, Done, PcInv, Owner
<1>2. a \in Requesters => Rest(a) = {} /\ Rest(a)' = {} /\ JoinInv(a)'
  BY <1>1, HandsEmptyFacts DEF HandsEmpty
<1>3. CASE FreeRead(a)
  <2>1. pc'[a] = "freePush" /\ req'[a] = req[a] /\ apReqFree' = apReqFree
    BY <1>3 DEF FreeRead, Go, PcInv
  <2>2. /\ pNext'[req[a]] = pOld'[a]
        /\ \A y \in Packets : y # req[a] => pNext'[y] = pNext[y]
        /\ enmState' = enmState
    BY <1>1, <1>3 DEF FreeRead, TypeInv, Links
  <2>3. Stays(a, req[a])
    BY <1>1, <1>2, <2>1, <2>2 DEF Stays, Owner, Freeing
  <2> QED BY <2>3, PlacesKept
<1>4. CASE \/ Free(a) /\ enmState[req[a]] \notin {"ALLOCATED", "COMPLETED"}
           \/ FreeLook(a) /\ ~(cReqFree < cMaxFree)
  <2>1. ~Owner(a)' /\ pc'[a] # "freePush" /\ pNext' = pNext /\ apReqFree' = apReqFree
    BY <1>4 DEF Free, FreeLook, Done, Go, Owner, PcInv
  <2>2. enmState'[req[a]] # "FREE" /\ \A p \in Packets : p # req[a] => enmState'[p] = enmState[p]
    <3>1. CASE Free(a) /\ enmState[req[a]] \notin {"ALLOCATED", "COMPLETED"}
      <4>1. enmState' = enmState /\ pc[a] = "free"
        BY <3>1 DEF Free
      <4> QED BY <4>1, Names DEF StateInv, StateOf, InUse
    <3>2. CASE FreeLook(a) /\ ~(cReqFree < cMaxFree)
      BY <1>1, <3>2 DEF FreeLook, Set, TypeInv
    <3> QED BY <1>4, <3>1, <3>2
  <2> QED BY <1>1, <1>2, <2>1, <2>2, PacketDropped
<1>5. CASE \/ Free(a) /\ enmState[req[a]] \in {"ALLOCATED", "COMPLETED"}
           \/ FreeLook(a) /\ cReqFree < cMaxFree
           \/ FreeCount(a)
           \/ FreePush(a) /\ ~HeadIsOld(a)
  <2>1. pc'[a] \in Freeing \ {"freePush"} /\ req' = req /\ pNext' = pNext /\ apReqFree' = apReqFree
    BY <1>5 DEF Free, FreeLook, FreeCount, FreePush, ReadAgain, Go, PcInv, Freeing
  <2>2. \A p \in Packets : p # req[a] => enmState'[p] = enmState[p]
    BY <1>5 DEF Free, FreeLook, FreeCount, FreePush, Set, TypeInv
  <2>3. Stays(a, NIL)
    BY <1>0, <1>1, <1>2, <2>1, <2>2 DEF Stays, Owner, Freeing
  <2> QED BY <2>3, PlacesKept
<1> QED BY <1>3, <1>4, <1>5

\* The EMT takes and completes packets that stay with their owner; one nobody waits for it makes its own.
LEMMA PlacesOfEmt ==
    ASSUME TypeInv, TypeInv', PcInv, PcInv', PlaceInv, ChainInv, StateInv, Others(EMT), EmtSteps, ~misread'
    PROVE  PlaceInv' /\ ChainInv'
<1>0. EMT \in Actors /\ EMT \notin Requesters /\ NIL \notin Packets
  BY Names
<1>1. /\ ~Owner(EMT) /\ pNext' = pNext /\ apReqFree' = apReqFree
      /\ pc'[EMT] # "freePush"
  BY <1>0 DEF EmtSteps, Process, Complete, ReadFlags, Unclear, Signal, Owner, Freeing, Done, Go, PcInv, shared
<1>2. CASE ReadFlags /\ noWait[req[EMT]]
  <2>1. /\ req[EMT] \in Packets /\ enmState[req[EMT]] = "COMPLETED" /\ enmState' = enmState
        /\ req' = req /\ pc[EMT] = "readFlags" /\ pc'[EMT] = "free"
    BY <1>0, <1>2 DEF ReadFlags, Go, shared, local, PcInv, TypeInv
  <2>2. \A b \in Actors : Owner(b) => req[b] # req[EMT]
    BY <1>2, <2>1 DEF StateInv, NobodyWaits, Unfinished
  <2> QED BY <1>0, <1>1, <2>1, <2>2, PacketTaken DEF Owner
<1>3. CASE Process \/ Complete \/ (ReadFlags /\ ~noWait[req[EMT]]) \/ Unclear \/ Signal
  <2>1. ~Owner(EMT)'
    BY <1>0, <1>3 DEF Process, Complete, ReadFlags, Unclear, Signal, Owner, Freeing, Done, Go, PcInv
  <2>2. \A p \in Packets : enmState'[p] = "FREE" <=> enmState[p] = "FREE"
    <3>1. CASE Process
      BY <3>1 DEF Process, Set, TypeInv
    <3>2. CASE Complete
      <4>1. enmState[req[EMT]] = "PROCESSING"
        BY <1>0, <3>2 DEF Complete, StateInv, StateOf
      <4> QED BY <3>2, <4>1 DEF Complete, Set, TypeInv
    <3>3. CASE ReadFlags \/ Unclear \/ Signal
      BY <3>3 DEF ReadFlags, Unclear, Signal, shared
    <3> QED BY <1>3, <3>1, <3>2, <3>3
  <2>3. Stays(EMT, NIL)
    BY <1>0, <1>1, <2>1, <2>2 DEF Stays
  <2> QED BY <1>0, <2>3, PlacesKept
<1> QED BY <1>2, <1>3 DEF EmtSteps

\* What an actor has: its packet, and the chain in its hand.
Own(a) == IF Owner(a) THEN {req[a]} ELSE {}
Hand(a) == IF a \in Requesters THEN Rest(a) ELSE {}

\* A step that moves packets between the actor and one list, and changes no link.
LEMMA Exchanged ==
    ASSUME TypeInv, TypeInv', PcInv, PcInv', PlaceInv, ChainInv, NEW a \in Actors, Others(a), NEW i \in Lists,
           pNext' = pNext, enmState' = enmState, \A j \in Lists \ {i} : apReqFree'[j] = apReqFree[j],
           NEW L, L = Chain(apReqFree[i])', NEW H, H = Hand(a)', NEW W, W = Own(a)',
           L \cup H \cup W = Chain(apReqFree[i]) \cup Hand(a) \cup Own(a),
           L \cap H = {}, L \cap W = {}, H \cap W = {},
           \A p \in L \cup H : enmState[p] = "FREE",
           Ends(pNext', apReqFree'[i]), a \in Requesters => JoinInv(a)', pc'[a] # "freePush"
    PROVE  PlaceInv' /\ ChainInv'
<1>1. Outside(a, NIL)
  BY Names, RestIsPackets DEF Outside, Owner, PcInv
<1>2. /\ \A r \in Requesters \ {a} : Rest(r)' = Rest(r) /\ JoinInv(r)'
      /\ \A b \in Actors \ {a} : /\ Owner(b)' <=> Owner(b)
                                 /\ req'[b] = req[b]
                                 /\ pc'[b] = "freePush" => pNext'[req'[b]] = pOld'[b]
  BY <1>1, OthersKept
<1>3. \A j \in Lists \ {i} : Chain(apReqFree[j])' = Chain(apReqFree[j]) /\ Ends(pNext', apReqFree'[j])
  BY DEF Chain, ChainInv
<1>4. ChainInv'
  <2>1. \A j \in Lists : Ends(pNext', apReqFree'[j])
    BY <1>3
  <2>2. \A r \in Requesters : JoinInv(r)'
    BY <1>2
  <2>3. \A b \in Actors : pc'[b] = "freePush" => pNext'[req'[b]] = pOld'[b]
    BY <1>2
  <2> QED BY <2>1, <2>2, <2>3 DEF ChainInv
<1>5. PICK k \in [Packets -> Kind], o \in [Packets -> Lists \cup Actors] : Placed(k, o)
  BY DEF PlaceInv
<1>6. PICK k2 \in [Packets -> Kind], o2 \in [Packets -> Lists \cup Actors] :
         /\ \A p \in Packets : p \in L => k2[p] = "list" /\ o2[p] = i
         /\ \A p \in Packets : p \in H => k2[p] = "rest" /\ o2[p] = a
         /\ \A p \in Packets : p \in W => k2[p] = "own" /\ o2[p] = a
         /\ \A p \in Packets : p \notin L \cup H \cup W => k2[p] = k[p] /\ o2[p] = o[p]
  <2> DEFINE f == [p \in Packets |-> IF p \in L THEN "list" ELSE IF p \in H THEN "rest"
                                     ELSE IF p \in W THEN "own" ELSE k[p]]
             g == [p \in Packets |-> IF p \in L THEN i ELSE IF p \in H \cup W THEN a ELSE o[p]]
  <2>1. f \in [Packets -> Kind] /\ g \in [Packets -> Lists \cup Actors]
    BY DEF Kind
  <2>2. /\ \A p \in Packets : p \in L => f[p] = "list" /\ g[p] = i
        /\ \A p \in Packets : p \in H => f[p] = "rest" /\ g[p] = a
        /\ \A p \in Packets : p \in W => f[p] = "own" /\ g[p] = a
        /\ \A p \in Packets : p \notin L \cup H \cup W => f[p] = k[p] /\ g[p] = o[p]
    OBVIOUS
  <2> HIDE DEF f, g
  <2> QED BY <2>1, <2>2
<1>7. \A p \in Packets : p \notin L \cup H \cup W <=>
         ~(k[p] = "list" /\ o[p] = i) /\ ~(a \in Requesters /\ k[p] = "rest" /\ o[p] = a) /\ ~(k[p] = "own" /\ o[p] = a)
  <2> SUFFICES ASSUME NEW p \in Packets
               PROVE  p \in L \cup H \cup W <=>
                         \/ k[p] = "list" /\ o[p] = i
                         \/ a \in Requesters /\ k[p] = "rest" /\ o[p] = a
                         \/ k[p] = "own" /\ o[p] = a
    OBVIOUS
  <2>1. p \in Chain(apReqFree[i]) <=> k[p] = "list" /\ o[p] = i
    BY <1>5 DEF Placed
  <2>2. p \in Hand(a) <=> a \in Requesters /\ k[p] = "rest" /\ o[p] = a
    BY <1>5 DEF Placed, Hand
  <2>3. p \in Own(a) <=> k[p] = "own" /\ o[p] = a
    BY <1>5 DEF Placed, Own
  <2> QED BY <2>1, <2>2, <2>3
<1>8. ASSUME NEW p \in Packets
      PROVE  /\ \A j \in Lists : p \in Chain(apReqFree[j])' <=> k2[p] = "list" /\ o2[p] = j
             /\ \A r \in Requesters : p \in Rest(r)' <=> k2[p] = "rest" /\ o2[p] = r
             /\ \A b \in Actors : (Owner(b)' /\ req'[b] = p) <=> (k2[p] = "own" /\ o2[p] = b)
             /\ k2[p] = "list" => o2[p] \in Lists
             /\ k2[p] = "rest" => o2[p] \in Requesters
             /\ k2[p] = "own" => o2[p] \in Actors
             /\ enmState'[p] = "FREE" => k2[p] # "none"
             /\ k2[p] \in {"list", "rest"} => enmState'[p] = "FREE"
  <2>1. a \in Requesters => H = Rest(a)'
    BY DEF Hand
  <2>2. (Owner(a)' /\ req'[a] = p) <=> p \in W
    BY DEF Own
  <2>3. p \in H => a \in Requesters
    BY DEF Hand
  <2>4. /\ \A j \in Lists : p \in Chain(apReqFree[j]) <=> k[p] = "list" /\ o[p] = j
        /\ \A r \in Requesters : p \in Rest(r) <=> k[p] = "rest" /\ o[p] = r
        /\ \A b \in Actors : (Owner(b) /\ req[b] = p) <=> (k[p] = "own" /\ o[p] = b)
        /\ k[p] = "list" => o[p] \in Lists
        /\ k[p] = "rest" => o[p] \in Requesters
        /\ k[p] = "own" => o[p] \in Actors
        /\ enmState[p] = "FREE" => k[p] # "none"
        /\ k[p] \in {"list", "rest"} => enmState[p] = "FREE"
    BY <1>5 DEF Placed
  <2>5. CASE p \in L
    BY <1>2, <1>3, <1>6, <1>7, <2>1, <2>2, <2>3, <2>4, <2>5
  <2>6. CASE p \in H
    BY <1>2, <1>3, <1>6, <1>7, <2>1, <2>2, <2>3, <2>4, <2>6
  <2>7. CASE p \in W
    BY <1>2, <1>3, <1>6, <1>7, <2>1, <2>2, <2>3, <2>4, <2>7
  <2>8. CASE p \notin L \cup H \cup W
    BY <1>2, <1>3, <1>6, <1>7, <2>1, <2>2, <2>3, <2>4, <2>8
  <2> QED BY <2>5, <2>6, <2>7, <2>8
<1>9. Placed(k2, o2)'
  BY <1>8 DEF Placed
<1>10. PlaceInv'
  BY <1>9 DEF PlaceInv
<1> QED BY <1>4, <1>10

\* Taking a list: its head is the packet, the others come along,
LEMMA PlacesOfTakeList ==
    ASSUME TypeInv, TypeInv', PcInv, PcInv', PlaceInv, ChainInv, NEW r \in Requesters, Others(r), TakeList(r)
    PROVE  PlaceInv' /\ ChainInv'
<1>0. r \in Actors /\ r # EMT
  BY Names
<1>1. PICK i \in Lists :
        /\ apReqFree[i] # NIL
        /\ SetHead(i, NIL)
        /\ req' = [req EXCEPT ![r] = apReqFree[i]]
  BY DEF TakeList
<1>2. /\ pc[r] = "idle" /\ pc'[r] = "giveBack" /\ pNext' = pNext /\ enmState' = enmState
      /\ req'[r] = apReqFree[i]
  BY <1>0, <1>1 DEF TakeList, Go, PcInv, TypeInv
<1>3. apReqFree'[i] = NIL /\ \A j \in Lists \ {i} : apReqFree'[j] = apReqFree[j]
  BY <1>1 DEF SetHead, TypeInv
<1> DEFINE h == apReqFree[i]
<1>4. h \in Packets /\ pNext \in Links /\ Ends(pNext, h)
  BY <1>1 DEF TypeInv, Pointer, ChainInv
<1>5. /\ Chain(apReqFree[i]) = {h} \cup Reachable(pNext, pNext[h])
      /\ h \notin Reachable(pNext, pNext[h])
  BY <1>4, ReachableStep, EndsStep DEF Chain
<1>6. Chain(apReqFree[i])' = {}
  BY <1>3, ReachableBasics DEF Chain
<1>7. Hand(r) = {} /\ Own(r) = {}
  BY <1>2 DEF Hand, Own, Rest, Owner
<1>8. Hand(r)' = Reachable(pNext, pNext[h])
  BY <1>2 DEF Hand, Rest, Chain
<1>9. Own(r)' = {h}
  BY <1>0, <1>2 DEF Own, Owner
<1>10. \A p \in Chain(apReqFree[i]) : enmState[p] = "FREE"
  BY ReachableBasics DEF PlaceInv, Placed, Chain
<1>11. Ends(pNext', apReqFree'[i]) /\ JoinInv(r)' /\ pc'[r] # "freePush"
  BY <1>2, <1>3, <1>4 DEF Ends, JoinInv
<1> HIDE DEF h
<1>12. PICK L, H, W : L = Chain(apReqFree[i])' /\ H = Hand(r)' /\ W = Own(r)'
  OBVIOUS
<1>13. /\ L \cup H \cup W = Chain(apReqFree[i]) \cup Hand(r) \cup Own(r)
       /\ L \cap H = {} /\ L \cap W = {} /\ H \cap W = {}
       /\ \A p \in L \cup H : enmState[p] = "FREE"
  BY <1>5, <1>6, <1>7, <1>8, <1>9, <1>10, <1>12
<1> QED BY <1>0, <1>2, <1>3, <1>11, <1>12, <1>13, Exchanged

\* and go back to where they were if nothing has come there since.
LEMMA PlacesOfGiveBack ==
    ASSUME TypeInv, TypeInv', PcInv, PcInv', PlaceInv, ChainInv, NEW r \in Requesters, Others(r), GiveBack(r)
    PROVE  PlaceInv' /\ ChainInv'
<1>0. r \in Actors /\ r # EMT /\ NIL \notin Packets
  BY Names
<1>1. /\ pc[r] = "giveBack" /\ pNext' = pNext /\ enmState' = enmState /\ req' = req
      /\ req[r] \in Packets /\ list[r] \in Lists /\ pNext \in Links /\ pNext[req[r]] \in Pointer
  BY <1>0 DEF GiveBack, PcInv, TypeInv, Links
<1>p. PICK p \in Pointer : p = pNext[req[r]]
  BY <1>1
<1>i. PICK i \in Lists : i = list[r]
  BY <1>1
<1> USE <1>p, <1>i
<1>2. Ends(pNext, p)
  BY <1>0, <1>1, EndsStep DEF ChainInv, JoinInv
<1>3. Rest(r) = Reachable(pNext, p) /\ Owner(r)
  BY <1>0, <1>1 DEF Rest, Chain, Owner
<1>4. CASE p = NIL \/ (p # NIL /\ ~ListStillEmpty(i))
  <2>1. pc'[r] \in {"drain", "joinXchg"} /\ apReqFree' = apReqFree
    BY <1>0, <1>4 DEF GiveBack, GoDrain, JoinFree, Go, PcInv
  <2>2. Rest(r)' = Rest(r) /\ JoinInv(r)'
    <3>1. CASE p = NIL
      <4>1. pc'[r] = "drain"
        BY <1>0, <3>1 DEF GiveBack, GoDrain, Go, PcInv
      <4> QED BY <1>3, <3>1, <4>1, ReachableBasics DEF Rest, JoinInv
    <3>2. CASE p # NIL
      <4>1. pc'[r] = "joinXchg" /\ pRest'[r] = p
        BY <1>0, <1>4, <3>2 DEF GiveBack, JoinFree, Go, PcInv, TypeInv
      <4> QED BY <1>1, <1>2, <1>3, <3>2, <4>1 DEF Rest, Chain, JoinInv
    <3> QED BY <3>1, <3>2
  <2>3. Stays(r, NIL)
    BY <1>0, <1>1, <1>3, <2>1, <2>2 DEF Stays, Owner
  <2> QED BY <1>0, <2>3, PlacesKept
<1>5. CASE p # NIL /\ ListStillEmpty(i)
  <2>1. /\ pc'[r] = "drain" /\ apReqFree'[i] = p /\ \A j \in Lists \ {i} : apReqFree'[j] = apReqFree[j]
    BY <1>0, <1>1, <1>5 DEF GiveBack, GoDrain, Go, SetHead, PcInv, TypeInv
  <2>2. Chain(apReqFree[i]) = {}
    BY <1>5, ReachableBasics DEF Chain, ListStillEmpty
  <2>3. Chain(apReqFree[i])' = Reachable(pNext, p)
    BY <1>1, <2>1 DEF Chain
  <2>4. Hand(r) = Reachable(pNext, p) /\ Hand(r)' = {} /\ Own(r) = {req[r]} /\ Own(r)' = {req[r]}
    BY <1>0, <1>1, <1>3, <2>1 DEF Hand, Rest, Own, Owner
  <2>5. req[r] \notin Rest(r) /\ \A q \in Rest(r) : enmState[q] = "FREE"
    BY <1>0, <1>1, <1>3, Exclusive, RestIsPackets DEF PlaceInv, Placed
  <2>6. JoinInv(r)' /\ pc'[r] # "freePush" /\ Ends(pNext', apReqFree'[i])
    BY <1>1, <1>2, <2>1 DEF JoinInv
  <2>7. PICK L, H, W : L = Chain(apReqFree[i])' /\ H = Hand(r)' /\ W = Own(r)'
    OBVIOUS
  <2>8. /\ L \cup H \cup W = Chain(apReqFree[i]) \cup Hand(r) \cup Own(r)
        /\ L \cap H = {} /\ L \cap W = {} /\ H \cap W = {}
        /\ \A q \in L \cup H : enmState[q] = "FREE"
    BY <1>3, <2>2, <2>3, <2>4, <2>5, <2>7
  <2> QED BY <1>0, <1>1, <2>1, <2>6, <2>7, <2>8, Exchanged
<1> QED BY <1>4, <1>5

\* The chains change places,
LEMMA PlacesOfJoinXchg ==
    ASSUME TypeInv, TypeInv', PcInv, PcInv', PlaceInv, ChainInv, NEW r \in Requesters, Others(r), JoinXchg(r)
    PROVE  PlaceInv' /\ ChainInv'
<1>0. r \in Actors /\ r # EMT /\ NIL \notin Packets
  BY Names
<1>1. /\ pc[r] = "joinXchg" /\ pNext' = pNext /\ enmState' = enmState /\ req' = req
      /\ req[r] \in Packets /\ pRest[r] # NIL /\ Ends(pNext, pRest[r])
  BY <1>0 DEF JoinXchg, PcInv, ChainInv, JoinInv
<1>2. PICK i \in Lists : i = list[r]
  BY <1>0 DEF TypeInv
<1>3. apReqFree'[i] = pRest[r] /\ \A j \in Lists \ {i} : apReqFree'[j] = apReqFree[j]
  BY <1>2 DEF JoinXchg, SetHead, TypeInv
<1>4. /\ apReqFree[i] = NIL => pc'[r] = "drain"
      /\ apReqFree[i] # NIL => pc'[r] = "joinLink" /\ pHead'[r] = apReqFree[i] /\ pRest'[r] = pRest[r]
  BY <1>0, <1>2 DEF JoinXchg, Joined, GoDrain, Go, PcInv, TypeInv
<1>5. Hand(r) = Chain(pRest[r]) /\ Own(r) = {req[r]} /\ Own(r)' = {req[r]}
  BY <1>0, <1>1, <1>4 DEF Hand, Rest, Own, Owner
<1>6. Chain(apReqFree[i])' = Chain(pRest[r])
  BY <1>1, <1>3 DEF Chain
<1>7. Hand(r)' = Chain(apReqFree[i])
  <2>1. CASE apReqFree[i] = NIL
    BY <1>4, <2>1, ReachableBasics DEF Hand, Rest, Chain
  <2>2. CASE apReqFree[i] # NIL
    BY <1>1, <1>4, <2>2 DEF Hand, Rest, Chain
  <2> QED BY <2>1, <2>2
<1>8. /\ Chain(apReqFree[i]) \cap Hand(r) = {} /\ req[r] \notin Chain(apReqFree[i]) \cup Hand(r)
      /\ \A p \in Chain(apReqFree[i]) \cup Hand(r) : enmState[p] = "FREE"
  <2>1. Owner(r)
    BY <1>0, <1>1 DEF Owner
  <2>2. Hand(r) = Rest(r) /\ Hand(r) \subseteq Packets /\ Chain(apReqFree[i]) \subseteq Packets
    BY RestIsPackets, ReachableBasics DEF Hand, Chain
  <2> QED BY <1>0, <1>1, <2>1, <2>2, Exclusive DEF PlaceInv, Placed
<1>9. JoinInv(r)' /\ pc'[r] # "freePush" /\ Ends(pNext', apReqFree'[i])
  <2>1. Ends(pNext, apReqFree[i])
    BY DEF ChainInv
  <2> QED BY <1>1, <1>3, <1>4, <2>1 DEF JoinInv
<1>10. PICK L, H, W : L = Chain(apReqFree[i])' /\ H = Hand(r)' /\ W = Own(r)'
  OBVIOUS
<1>11. /\ L \cup H \cup W = Chain(apReqFree[i]) \cup Hand(r) \cup Own(r)
       /\ L \cap H = {} /\ L \cap W = {} /\ H \cap W = {}
       /\ \A p \in L \cup H : enmState[p] = "FREE"
  BY <1>5, <1>6, <1>7, <1>8, <1>10
<1> QED BY <1>0, <1>1, <1>3, <1>9, <1>10, <1>11, Exchanged

\* the one in hand is linked to the one on the list, wherever that is by now,
LEMMA PlacesOfJoinLink ==
    ASSUME TypeInv, TypeInv', PcInv, PcInv', PlaceInv, ChainInv, NEW r \in Requesters, Others(r), JoinLink(r)
    PROVE  PlaceInv' /\ ChainInv'
<1>0. r \in Actors /\ r # EMT /\ NIL \notin Packets
  BY Names
<1>1. /\ pc[r] = "joinLink" /\ pc'[r] = "joinStore" /\ apReqFree' = apReqFree /\ enmState' = enmState
      /\ req' = req /\ pRest' = pRest /\ pHead' = pHead
      /\ pRest[r] # NIL /\ pHead[r] \in Packets /\ Ends(pNext, pHead[r]) /\ pRest[r] \in Packets
  BY <1>0 DEF JoinLink, Go, PcInv, ChainInv, JoinInv, TypeInv, Pointer
<1>2. PICK t : t = TailOf(pHead[r])
  OBVIOUS
<1>3. t \in Packets /\ t \in Chain(pHead[r]) /\ pNext[t] = NIL
  BY <1>1, <1>2, TailExists
<1>4. pOld'[r] = t /\ pNext' = [pNext EXCEPT ![t] = pRest[r]]
  BY <1>0, <1>2 DEF JoinLink, TypeInv
<1>5. pNext'[t] = pRest[r] /\ \A y \in Packets : y # t => pNext'[y] = pNext[y]
  BY <1>3, <1>4 DEF TypeInv, Links
<1>6. Cut(r)' = pNext
  BY <1>3, <1>4, <1>5 DEF Cut, TypeInv, Links
<1>7. Rest(r) = Chain(pHead[r]) /\ Rest(r)' = Rest(r)
  BY <1>1, <1>6 DEF Rest, Chain
<1>8. JoinInv(r)'
  <2>1. pOld'[r] \in Rest(r)' /\ pNext'[pOld'[r]] = pRest'[r]
    BY <1>1, <1>3, <1>4, <1>5, <1>7
  <2>2. pRest'[r] # NIL /\ pHead'[r] # NIL
    BY <1>0, <1>1
  <2> QED BY <1>1, <2>1, <2>2 DEF JoinInv
<1>9. Stays(r, t)
  BY <1>0, <1>1, <1>3, <1>5, <1>7, <1>8 DEF Stays, Owner
<1> QED BY <1>0, <1>9, PlacesKept

\* and both are stored if the list still begins with the other,
LEMMA PlacesOfJoinStore ==
    ASSUME TypeInv, TypeInv', PcInv, PcInv', PlaceInv, ChainInv, NEW r \in Requesters, Others(r), JoinStore(r)
    PROVE  PlaceInv' /\ ChainInv'
<1>0. r \in Actors /\ r # EMT /\ NIL \notin Packets
  BY Names
<1>1. /\ pc[r] = "joinStore" /\ pNext' = pNext /\ enmState' = enmState /\ req' = req
      /\ req[r] \in Packets /\ pRest[r] \in Packets /\ pHead[r] \in Packets
      /\ pOld[r] \in Rest(r) /\ pNext[pOld[r]] = pRest[r] /\ pNext \in Links
  BY <1>0 DEF JoinStore, PcInv, ChainInv, JoinInv, TypeInv, Pointer
<1>2. PICK i \in Lists : i = list[r]
  BY <1>0 DEF TypeInv
<1>3. Owner(r) /\ Rest(r) = Reachable(Cut(r), pHead[r]) /\ pOld[r] \in Packets
  BY <1>0, <1>1, RestIsPackets DEF Owner, Rest
<1>4. CASE apReqFree[i] # pRest[r]
  <2>1. /\ pc'[r] = "joinUnlink" /\ apReqFree' = apReqFree
        /\ pRest' = pRest /\ pHead' = pHead /\ pOld' = pOld
    BY <1>0, <1>2, <1>4 DEF JoinStore, Go, PcInv
  <2>2. Rest(r)' = Rest(r)
    BY <1>1, <1>3, <2>1 DEF Rest, Cut
  <2>3. JoinInv(r)'
    BY <1>0, <1>1, <2>1, <2>2 DEF JoinInv
  <2>4. Stays(r, NIL)
    BY <1>0, <1>1, <1>3, <2>1, <2>2, <2>3 DEF Stays, Owner
  <2> QED BY <1>0, <2>4, PlacesKept
<1>5. CASE apReqFree[i] = pRest[r]
  <2>1. /\ pc'[r] = "drain" /\ apReqFree'[i] = pHead[r]
        /\ \A j \in Lists \ {i} : apReqFree'[j] = apReqFree[j]
    BY <1>0, <1>2, <1>5 DEF JoinStore, Joined, GoDrain, Go, SetHead, PcInv, TypeInv
  <2>2. Chain(apReqFree[i]) = Reachable(pNext, pRest[r]) /\ Ends(pNext, pRest[r])
    BY <1>5 DEF Chain, ChainInv
  <2>3. Hand(r) = Rest(r) /\ Hand(r)' = {} /\ Own(r) = {req[r]} /\ Own(r)' = {req[r]}
    BY <1>0, <1>1, <1>3, <2>1 DEF Hand, Rest, Own, Owner
  <2>4. /\ Chain(apReqFree[i]) \cap Rest(r) = {} /\ req[r] \notin Chain(apReqFree[i]) \cup Rest(r)
        /\ \A p \in Chain(apReqFree[i]) \cup Rest(r) : enmState[p] = "FREE"
    <3>1. Rest(r) \subseteq Packets /\ Chain(apReqFree[i]) \subseteq Packets
      BY RestIsPackets, ReachableBasics DEF Chain
    <3> QED BY <1>0, <1>1, <1>3, <3>1, Exclusive DEF PlaceInv, Placed
  <2>5. Reachable(pNext, pHead[r]) = Rest(r) \cup Reachable(pNext, pRest[r]) /\ Ends(pNext, pHead[r])
    <3>1. pOld[r] \notin Reachable(pNext, pRest[r])
      BY <1>1, <2>2, <2>4
    <3>2. pOld[r] \in Reachable([pNext EXCEPT ![pOld[r]] = NIL], pHead[r])
      BY <1>1, <1>3 DEF Cut
    <3>3. /\ Reachable(pNext, pHead[r]) =
                Reachable([pNext EXCEPT ![pOld[r]] = NIL], pHead[r]) \cup Reachable(pNext, pRest[r])
          /\ Ends(pNext, pHead[r])
      BY <1>1, <1>3, <2>2, <3>1, <3>2, Linked
    <3> QED BY <1>3, <3>3 DEF Cut
  <2>6. Chain(apReqFree[i])' = Rest(r) \cup Chain(apReqFree[i])
    BY <1>1, <2>1, <2>2, <2>5 DEF Chain
  <2>7. JoinInv(r)' /\ pc'[r] # "freePush" /\ Ends(pNext', apReqFree'[i])
    BY <1>1, <2>1, <2>5 DEF JoinInv
  <2>8. PICK L, H, W : L = Chain(apReqFree[i])' /\ H = Hand(r)' /\ W = Own(r)'
    OBVIOUS
  <2>9. /\ L \cup H \cup W = Chain(apReqFree[i]) \cup Hand(r) \cup Own(r)
        /\ L \cap H = {} /\ L \cap W = {} /\ H \cap W = {}
        /\ \A p \in L \cup H : enmState[p] = "FREE"
    BY <2>3, <2>4, <2>6, <2>8
  <2> QED BY <1>0, <1>1, <2>1, <2>7, <2>8, <2>9, Exchanged
<1> QED BY <1>4, <1>5

\* or the link is undone: what followed it belongs to somebody else.
LEMMA PlacesOfJoinUnlink ==
    ASSUME TypeInv, TypeInv', PcInv, PcInv', PlaceInv, ChainInv, NEW r \in Requesters, Others(r), JoinUnlink(r)
    PROVE  PlaceInv' /\ ChainInv'
<1>0. r \in Actors /\ r # EMT /\ NIL \notin Packets
  BY Names
<1>1. /\ pc[r] = "joinUnlink" /\ pc'[r] = "joinRetry" /\ apReqFree' = apReqFree /\ enmState' = enmState
      /\ req' = req /\ pRest' = pRest /\ pHead' = pHead
      /\ pOld[r] \in Rest(r) /\ pHead[r] # NIL
  BY <1>0 DEF JoinUnlink, Go, local, PcInv, ChainInv, JoinInv
<1>2. pNext' = Cut(r) /\ pOld[r] \in Packets
  BY <1>1, RestIsPackets DEF JoinUnlink, LinkUndone, Cut
<1>3. pNext'[pOld[r]] = NIL /\ \A y \in Packets : y # pOld[r] => pNext'[y] = pNext[y]
  BY <1>2 DEF Cut, TypeInv, Links
<1>4. Rest(r) = Reachable(Cut(r), pHead[r]) /\ Rest(r)' = Rest(r)
  BY <1>1, <1>2 DEF Rest, Chain
<1>5. Ends(pNext', pHead[r])
  BY <1>1, <1>2, <1>3, <1>4 DEF Ends
<1>6. JoinInv(r)'
  BY <1>1, <1>5 DEF JoinInv
<1>7. Stays(r, pOld[r])
  BY <1>0, <1>1, <1>3, <1>4, <1>6 DEF Stays, Owner
<1> QED BY <1>0, <1>7, PlacesKept

\* What is left is stored, or goes round again.
LEMMA PlacesOfJoinRetry ==
    ASSUME TypeInv, TypeInv', PcInv, PcInv', PlaceInv, ChainInv, NEW r \in Requesters, Others(r), JoinRetry(r)
    PROVE  PlaceInv' /\ ChainInv'
<1>0. r \in Actors /\ r # EMT /\ NIL \notin Packets
  BY Names
<1>1. /\ pc[r] = "joinRetry" /\ pNext' = pNext /\ enmState' = enmState /\ req' = req
      /\ req[r] \in Packets /\ pHead[r] # NIL /\ Ends(pNext, pHead[r])
  BY <1>0 DEF JoinRetry, PcInv, ChainInv, JoinInv
<1>2. PICK i \in Lists : i = list[r]
  BY <1>0 DEF TypeInv
<1>3. Owner(r) /\ Rest(r) = Chain(pHead[r])
  BY <1>0, <1>1 DEF Owner, Rest
<1>4. CASE apReqFree[i] # NIL
  <2>1. pc'[r] = "joinXchg" /\ apReqFree' = apReqFree /\ pRest'[r] = pHead[r]
    BY <1>0, <1>2, <1>4 DEF JoinRetry, Go, PcInv, TypeInv
  <2>2. Rest(r)' = Rest(r) /\ JoinInv(r)'
    BY <1>1, <1>3, <2>1 DEF Rest, Chain, JoinInv
  <2>3. Stays(r, NIL)
    BY <1>0, <1>1, <1>3, <2>1, <2>2 DEF Stays, Owner
  <2> QED BY <1>0, <2>3, PlacesKept
<1>5. CASE apReqFree[i] = NIL
  <2>1. /\ pc'[r] = "drain" /\ apReqFree'[i] = pHead[r]
        /\ \A j \in Lists \ {i} : apReqFree'[j] = apReqFree[j]
    BY <1>0, <1>2, <1>5 DEF JoinRetry, Joined, GoDrain, Go, SetHead, PcInv, TypeInv
  <2>2. Chain(apReqFree[i]) = {} /\ Chain(apReqFree[i])' = Rest(r)
    BY <1>1, <1>3, <1>5, <2>1, ReachableBasics DEF Chain
  <2>3. Hand(r) = Rest(r) /\ Hand(r)' = {} /\ Own(r) = {req[r]} /\ Own(r)' = {req[r]}
    BY <1>0, <1>1, <1>3, <2>1 DEF Hand, Rest, Own, Owner
  <2>4. req[r] \notin Rest(r) /\ \A p \in Rest(r) : enmState[p] = "FREE"
    BY <1>0, <1>1, <1>3, Exclusive, RestIsPackets DEF PlaceInv, Placed
  <2>5. JoinInv(r)' /\ pc'[r] # "freePush" /\ Ends(pNext', apReqFree'[i])
    BY <1>1, <2>1 DEF JoinInv
  <2>6. PICK L, H, W : L = Chain(apReqFree[i])' /\ H = Hand(r)' /\ W = Own(r)'
    OBVIOUS
  <2>7. /\ L \cup H \cup W = Chain(apReqFree[i]) \cup Hand(r) \cup Own(r)
        /\ L \cap H = {} /\ L \cap W = {} /\ H \cap W = {}
        /\ \A p \in L \cup H : enmState[p] = "FREE"
    BY <2>2, <2>3, <2>4, <2>6
  <2> QED BY <1>0, <1>1, <2>1, <2>5, <2>6, <2>7, Exchanged
<1> QED BY <1>4, <1>5

\* A packet is pushed in front of the head it was linked to.  That the head may have gone and come back
\* meanwhile does no harm: what hangs on it now is kept.
LEMMA PlacesOfFreePush ==
    ASSUME TypeInv, TypeInv', PcInv, PcInv', PlaceInv, ChainInv, StateInv, NEW a \in Actors, Others(a),
           FreePush(a), HeadIsOld(a)
    PROVE  PlaceInv' /\ ChainInv'
<1>0. NIL \notin Packets
  BY Names
<1>1. /\ pc[a] = "freePush" /\ pc'[a] = "idle" /\ pNext' = pNext /\ enmState' = enmState
      /\ req[a] \in Packets /\ enmState[req[a]] = "FREE" /\ pNext[req[a]] = pOld[a] /\ pNext \in Links
  BY DEF FreePush, Done, Go, PcInv, StateInv, StateOf, ChainInv, Freeing, TypeInv
<1>2. PICK i \in Lists : i = list[a]
  BY DEF TypeInv
<1>3. /\ apReqFree'[i] = req[a] /\ apReqFree[i] = pOld[a]
      /\ \A j \in Lists \ {i} : apReqFree'[j] = apReqFree[j]
  BY <1>2 DEF FreePush, HeadIsOld, SetHead, TypeInv
<1>4. Owner(a) /\ ~Owner(a)'
  BY <1>1 DEF Owner, Freeing
<1>5. Chain(apReqFree[i])' = {req[a]} \cup Chain(apReqFree[i])
  BY <1>1, <1>3, ReachableStep DEF Chain
<1>6. Hand(a) = {} /\ Hand(a)' = {} /\ Own(a) = {req[a]} /\ Own(a)' = {}
  BY <1>1, <1>4 DEF Hand, Rest, Own
<1>7. \A p \in Chain(apReqFree[i]) : enmState[p] = "FREE"
  BY ReachableBasics DEF PlaceInv, Placed, Chain
<1>8. Ends(pNext, req[a])
  <2>1. Ends(pNext, apReqFree[i]) /\ req[a] \in Reachable(pNext, req[a])
    BY <1>1, ReachableBasics DEF ChainInv
  <2>2. Reachable(pNext, req[a]) = {req[a]} \cup Reachable(pNext, apReqFree[i])
    BY <1>1, <1>3, ReachableStep
  <2> QED BY <1>1, <1>3, <2>1, <2>2 DEF Ends
<1>9. (a \in Requesters => JoinInv(a)') /\ pc'[a] # "freePush" /\ Ends(pNext', apReqFree'[i])
  BY <1>1, <1>3, <1>8 DEF JoinInv
<1>10. PICK L, H, W : L = Chain(apReqFree[i])' /\ H = Hand(a)' /\ W = Own(a)'
  OBVIOUS
<1>11. /\ L \cup H \cup W = Chain(apReqFree[i]) \cup Hand(a) \cup Own(a)
       /\ L \cap H = {} /\ L \cap W = {} /\ H \cap W = {}
       /\ \A p \in L \cup H : enmState[p] = "FREE"
  BY <1>1, <1>5, <1>6, <1>7, <1>10
<1> QED BY <1>1, <1>3, <1>9, <1>10, <1>11, Exchanged

-----------------------------------------------------------------------------
(* The states of packets *)

\* The step changes the state of x at most, and not from under the EMT.
Changes(a, x) ==
    /\ \A p \in Packets : p # x => enmState'[p] = enmState[p] /\ noWait'[p] = noWait[p]
    /\ enmState'[x] # enmState[x] => enmState[x] \notin {"QUEUED", "PROCESSING"}
    /\ \A b \in Actors \ {a} : Owner(b) => req[b] # x
    /\ raced => raced'

\* An actor that changes its own packet changes no state the others rely on.
LEMMA StateKept ==
    ASSUME TypeInv, PcInv, StateInv, NEW a \in Actors, Others(a), NEW x, Changes(a, x)
    PROVE  \A b \in Actors \ {a} : StateOf(b)'
<1> SUFFICES ASSUME NEW b \in Actors \ {a}
             PROVE  StateOf(b)'
  OBVIOUS
<1>1. pc'[b] = pc[b] /\ req'[b] = req[b] /\ kind'[b] = kind[b]
  BY DEF Others
<1>2. StateOf(b) /\ (raced => raced')
  BY DEF StateInv, Changes
<1>3. CASE Owner(b)
  <2>1. req[b] \in Packets /\ enmState'[req[b]] = enmState[req[b]] /\ noWait'[req[b]] = noWait[req[b]]
    BY <1>3 DEF Changes, Owner, PcInv
  <2> QED BY <1>1, <1>2, <2>1 DEF StateOf
<1>4. CASE ~Owner(b) /\ b # EMT
  BY <1>1, <1>2, <1>4 DEF StateOf, Owner, Allocating, Freeing, Waiting
<1>5. CASE ~Owner(b) /\ b = EMT
  <2>1. pc[b] \in {"idle"} \cup InEmt
    BY <1>5 DEF Owner, PcInv
  <2>2. pc[b] = "complete" => req[b] \in Packets /\ enmState'[req[b]] = enmState[req[b]]
    BY <1>2 DEF Changes, StateOf, PcInv
  <2> QED BY <1>1, <1>2, <1>5, <2>1, <2>2 DEF StateOf, Allocating, Freeing, Waiting, InEmt
<1> QED BY <1>3, <1>4, <1>5

\* A request nobody waits for gets no owner before it is completed.
LEMMA NobodyWaitsKept ==
    ASSUME TypeInv, PcInv, StateInv, NEW a \in Actors, Others(a), NEW x, Changes(a, x),
           Owner(a)' => (Owner(a) /\ req'[a] = req[a]) \/ req'[a] = x \/ enmState'[req'[a]] = "FREE",
           x \in Packets /\ Unfinished(x)' /\ noWait'[x] => ~Owner(a)',
           pc'[EMT] = "readFlags" => pc[EMT] = "readFlags" /\ req'[EMT] = req[EMT]
    PROVE  NobodyWaits'
<1> SUFFICES ASSUME NEW p \in Packets, Unfinished(p)', noWait'[p],
                    NEW b \in Actors, Owner(b)', req'[b] = p
             PROVE  FALSE
  BY DEF NobodyWaits
<1>1. b # a => pc'[b] = pc[b] /\ req'[b] = req[b] /\ Owner(b)
  BY DEF Others, Owner
<1>2. p # x => enmState'[p] = enmState[p] /\ Unfinished(p) /\ noWait[p]
  BY DEF Changes, Unfinished
<1>3. CASE b # a
  BY <1>1, <1>2, <1>3 DEF StateInv, NobodyWaits, Changes
<1>4. CASE b = a
  <2>1. enmState'[p] # "FREE"
    BY DEF Unfinished
  <2> QED BY <1>2, <1>4, <2>1 DEF StateInv, NobodyWaits
<1> QED BY <1>3, <1>4

\* Packets are in the states that a requester expects,
LEMMA StateOfRequester ==
    ASSUME TypeInv, TypeInv', PcInv, PcInv', PlaceInv, PlaceInv', ChainInv, StateInv, NEW r \in Requesters,
           Others(r), RequesterSteps(r), SemInv
    PROVE  StateInv'
<1>0. r \in Actors /\ r # EMT /\ NIL \notin Packets
  BY Names
<1>s. StateOf(r) /\ NobodyWaits
  BY <1>0 DEF StateInv
<1>o. Owner(r) => req[r] \in Packets /\ \A b \in Actors \ {r} : Owner(b) => req[b] # req[r]
  BY <1>0, Exclusive DEF Owner, PcInv
<1>e. pc'[EMT] = pc[EMT] /\ req'[EMT] = req[EMT]
  BY <1>0, Names DEF Others
<1>1. CASE TakeList(r)
  <2>1. PICK i \in Lists : apReqFree[i] # NIL /\ req' = [req EXCEPT ![r] = apReqFree[i]]
    BY <1>1 DEF TakeList
  <2>2. /\ req'[r] = apReqFree[i] /\ pc'[r] = "giveBack" /\ enmState' = enmState /\ noWait' = noWait
        /\ raced' = raced
    BY <1>0, <1>1, <2>1 DEF TakeList, Go, PcInv, TypeInv, history
  <2>3. apReqFree[i] \in Packets /\ apReqFree[i] \in Chain(apReqFree[i])
    BY <2>1, ReachableBasics DEF TypeInv, Pointer, Chain
  <2>4. enmState[apReqFree[i]] = "FREE"
    BY <2>3 DEF PlaceInv, Placed
  <2>5. Changes(r, NIL)
    BY <1>0, <2>2 DEF Changes, Owner, PcInv
  <2>6. StateOf(r)'
    BY <2>2, <2>4 DEF StateOf, Waiting, Freeing
  <2> QED BY <1>0, <1>e, <2>2, <2>4, <2>5, <2>6, StateKept, NobodyWaitsKept DEF StateInv
<1>2. CASE \/ GiveBack(r) \/ JoinXchg(r) \/ JoinLink(r) \/ JoinStore(r) \/ JoinUnlink(r)
           \/ JoinRetry(r) \/ Drain(r) \/ Drained(r)
  <2>1. /\ pc[r] \in Allocating /\ pc'[r] \in Allocating /\ req' = req /\ kind' = kind
        /\ enmState' = enmState /\ noWait' = noWait /\ raced' = raced
    BY <1>0, <1>2 DEF GiveBack, JoinFree, JoinXchg, JoinLink, JoinStore, JoinUnlink, JoinRetry, Drain, Drained, Joined,
          GoDrain, Go, local, history, PcInv, Allocating
  <2>2. Changes(r, NIL)
    BY <1>0, <2>1 DEF Changes, Owner, PcInv
  <2>3. StateOf(r)'
    BY <1>s, <2>1 DEF StateOf, Waiting, Freeing, Allocating
  <2>4. Owner(r) /\ req'[r] = req[r]
    BY <1>0, <2>1 DEF Owner, Allocating
  <2> QED BY <1>0, <2>1, <2>2, <2>3, <2>4, <1>e, StateKept, NobodyWaitsKept DEF StateInv
<1>3. CASE InitPacket(r)
  <2>1. /\ pc[r] = "init" /\ pc'[r] = "fill" /\ req' = req /\ raced' = raced
        /\ Owner(r) /\ enmState[req[r]] = "FREE"
    BY <1>0, <1>3, <1>s DEF InitPacket, Go, local, history, PcInv, Owner, StateOf, Allocating
  <2>2. /\ enmState'[req[r]] = "ALLOCATED"
        /\ \A p \in Packets : p # req[r] => enmState'[p] = enmState[p] /\ noWait'[p] = noWait[p]
    BY <1>3, <1>o, <2>1 DEF InitPacket, Set, TypeInv
  <2>3. Changes(r, req[r])
    BY <1>o, <2>1, <2>2 DEF Changes
  <2>4. StateOf(r)'
    BY <2>1, <2>2 DEF StateOf, Waiting, Freeing, Allocating
  <2> QED BY <1>0, <2>1, <2>2, <2>3, <2>4, <1>e, StateKept, NobodyWaitsKept DEF StateInv, Unfinished
<1>4. CASE AllocNew(r)
  <2>1. PICK p \in Packets :
          /\ enmState[p] = "INVALID" /\ req' = [req EXCEPT ![r] = p] /\ Set(p, "ALLOCATED")
          /\ noWait' = [noWait EXCEPT ![p] = FALSE]
    BY <1>4 DEF AllocNew
  <2>2. req'[r] = p /\ pc'[r] = "fill" /\ raced' = raced
    BY <1>0, <1>4, <2>1 DEF AllocNew, Go, history, PcInv, TypeInv
  <2>3. /\ enmState'[p] = "ALLOCATED"
        /\ \A y \in Packets : y # p => enmState'[y] = enmState[y] /\ noWait'[y] = noWait[y]
    BY <2>1 DEF Set, TypeInv
  <2>4. \A b \in Actors : Owner(b) => req[b] # p
    BY <2>1, Names DEF Owner, StateInv, StateOf, PcInv, Labels, Freeing, Waiting, Allocating, InEmt, InUse
  <2>5. Changes(r, p)
    BY <2>1, <2>2, <2>3, <2>4 DEF Changes
  <2>6. StateOf(r)'
    BY <2>2, <2>3 DEF StateOf, Waiting, Freeing, Allocating
  <2> QED BY <1>0, <2>2, <2>3, <2>5, <2>6, <1>e, StateKept, NobodyWaitsKept DEF StateInv, Unfinished
<1>5. CASE Queue(r)
  <2>0. pc[r] = "queue" /\ enmState[req[r]] = "ALLOCATED" /\ (noWait[req[r]] <=> kind[r] = "NO_WAIT")
    BY <1>0, <1>5, <1>s DEF Queue, StateOf
  <2>1. /\ raced' = raced /\ Owner(r) /\ noWait' = noWait
        /\ kind[r] = "NO_WAIT" => pc'[r] = "idle" /\ req'[r] = NIL
        /\ kind[r] # "NO_WAIT" => pc'[r] = "wait" /\ req' = req /\ kind' = kind
    BY <1>0, <1>5, <2>0 DEF Queue, Go, Done, history, PcInv, TypeInv, Owner
  <2>2. /\ enmState'[req[r]] = "QUEUED"
        /\ \A p \in Packets : p # req[r] => enmState'[p] = enmState[p] /\ noWait'[p] = noWait[p]
    BY <1>5, <1>o, <2>0, <2>1 DEF Queue, Set, TypeInv
  <2>3. Changes(r, req[r])
    BY <1>o, <2>0, <2>1, <2>2 DEF Changes
  <2>4. StateOf(r)'
    BY <1>0, <2>1, <2>2 DEF StateOf, Waiting, Freeing, Allocating, InUse, TypeInv
  <2>5. kind[r] = "NO_WAIT" => ~Owner(r)'
    BY <2>1 DEF Owner
  <2> QED BY <1>0, <2>0, <2>1, <2>2, <2>3, <2>4, <2>5, <1>e, StateKept, NobodyWaitsKept DEF StateInv
<1>6. CASE \/ Wait(r) \/ Timeout(r) \/ Loop(r) \/ Waited(r) \/ Result(r)
  <2>1. /\ pc[r] \in Waiting /\ pc'[r] \in Waiting \cup {"free"} /\ req' = req
        /\ enmState' = enmState /\ noWait' = noWait /\ (raced => raced')
    <3>1. CASE Wait(r) \/ Timeout(r) \/ Loop(r) \/ Waited(r)
      BY <1>0, <3>1 DEF Wait, Timeout, Loop, Waited, Go, shared, local, history, PcInv, Waiting
    <3>2. CASE Result(r)
      <4>1. raced => raced'
        BY <3>2, Zenon DEF Result
      <4>2. /\ pc[r] \in Waiting /\ pc'[r] \in Waiting \cup {"free"} /\ req' = req
            /\ enmState' = enmState /\ noWait' = noWait
        BY <1>0, <3>2 DEF Result, Go, shared, PcInv, Waiting
      <4> QED BY <4>1, <4>2
    <3> QED BY <1>6, <3>1, <3>2
  <2>2. Changes(r, NIL)
    BY <1>0, <2>1 DEF Changes, Owner, PcInv
  <2>3. Owner(r) /\ req'[r] = req[r]
    BY <1>0, <2>1 DEF Owner, Waiting
  <2>4. kind'[r] \in {"timed", "forever"} /\ enmState'[req'[r]] \in InUse
    BY <1>0, <1>6, <1>s, <2>1 DEF StateOf, Wait, Timeout, Loop, Waited, Result, shared, local, TypeInv
  <2>5. pc'[r] \in {"waited", "result"} /\ kind'[r] = "forever" => enmState'[req'[r]] = "COMPLETED"
    <3>1. CASE Wait(r) \/ Timeout(r)
      BY <1>0, <3>1 DEF Wait, Timeout, MayTimeOut, Go, PcInv
    <3>2. CASE Loop(r) \/ Waited(r)
      BY <1>0, <1>s, <3>2 DEF Loop, Waited, Go, PcInv, MayStopWaiting, StateOf, InUse, Waiting,
          shared, local
    <3>3. CASE Result(r)
      BY <1>0, <3>3 DEF Result, Go, PcInv
    <3> QED BY <1>6, <3>1, <3>2, <3>3
  <2>6. pc'[r] = "free" => enmState'[req'[r]] = "COMPLETED" \/ (raced' /\ kind'[r] = "timed")
    <3> SUFFICES ASSUME Result(r), pc'[r] = "free", enmState[req[r]] # "COMPLETED"
                 PROVE  raced' /\ kind'[r] = "timed"
      BY <1>0, <1>6, <2>1 DEF Wait, Timeout, Loop, Waited, Go, PcInv
    <3>1. pc[r] = "result" /\ rc[r] /\ kind' = kind
      BY <1>0 DEF Result, Go, PcInv
    <3>2. raced
      BY <3>1 DEF SemInv, SemOf
    <3>3. kind[r] = "timed"
      BY <1>0, <1>s, <3>1 DEF StateOf, Waiting
    <3> QED BY <2>1, <3>1, <3>2, <3>3
  <2>7. StateOf(r)'
    BY <1>0, <2>1, <2>4, <2>5, <2>6 DEF StateOf, Waiting, Freeing, Allocating
  <2> QED BY <1>0, <2>1, <2>2, <2>3, <2>7, <1>e, StateKept, NobodyWaitsKept DEF StateInv
<1>7. CASE Fill(r)
  <2>1. /\ pc[r] = "fill" /\ pc'[r] = "queue" /\ req' = req /\ kind' = kind /\ raced' = raced
        /\ enmState' = enmState /\ Owner(r) /\ enmState[req[r]] = "ALLOCATED"
    BY <1>0, <1>7, <1>s DEF Fill, Go, local, history, PcInv, Owner, StateOf
  <2>2. /\ noWait'[req[r]] = (kind[r] = "NO_WAIT")
        /\ \A p \in Packets : p # req[r] => noWait'[p] = noWait[p]
    BY <1>7, <1>o, <2>1 DEF Fill, TypeInv
  <2>3. Changes(r, req[r])
    BY <1>o, <2>1, <2>2 DEF Changes
  <2>4. StateOf(r)'
    BY <2>1, <2>2 DEF StateOf, Waiting, Freeing, Allocating
  <2> QED BY <1>0, <2>1, <2>2, <2>3, <2>4, <1>e, StateKept, NobodyWaitsKept DEF StateInv, Unfinished
<1> QED BY <1>1, <1>2, <1>3, <1>4, <1>5, <1>6, <1>7 DEF RequesterSteps

\* that VMR3ReqFree does,
LEMMA StateOfFree ==
    ASSUME TypeInv, TypeInv', PcInv, PcInv', PlaceInv, StateInv, NEW a \in Actors, Others(a), FreeStep(a)
    PROVE  StateInv'
<1>0. NIL \notin Packets
  BY Names
<1>s. StateOf(a) /\ NobodyWaits
  BY DEF StateInv
<1>1. pc[a] \in {"free"} \cup Freeing /\ Owner(a) /\ req[a] \in Packets /\ raced' = raced
  BY DEF FreeStep, Free, FreeLook, FreeCount, FreeRead, FreePush, Owner, Freeing, PcInv, history
<1>2. \A b \in Actors \ {a} : Owner(b) => req[b] # req[a]
  BY <1>1, Exclusive
<1>3. /\ \A p \in Packets : p # req[a] => enmState'[p] = enmState[p] /\ noWait'[p] = noWait[p]
      /\ enmState'[req[a]] # enmState[req[a]] => enmState[req[a]] \notin {"QUEUED", "PROCESSING"}
  <2>1. CASE Free(a)
    BY <1>1, <2>1 DEF Free, Set, TypeInv
  <2>2. CASE FreeLook(a)
    <3>1. enmState[req[a]] = "FREE"
      BY <1>s, <2>2 DEF FreeLook, StateOf, Freeing
    <3> QED BY <1>1, <2>2, <3>1 DEF FreeLook, Set, TypeInv
  <2>3. CASE FreeCount(a) \/ FreeRead(a) \/ FreePush(a)
    BY <2>3 DEF FreeCount, FreeRead, FreePush
  <2> QED BY <2>1, <2>2, <2>3 DEF FreeStep
<1>4. Changes(a, req[a])
  BY <1>1, <1>2, <1>3 DEF Changes
<1>5. \/ pc'[a] \in Freeing /\ req'[a] = req[a] /\ enmState'[req[a]] = "FREE"
      \/ pc'[a] = "idle" /\ req'[a] = NIL
  <2>1. CASE Free(a)
    BY <1>1, <2>1 DEF Free, Set, Go, Done, TypeInv, PcInv, Freeing
  <2>2. CASE FreeLook(a) \/ FreeCount(a) \/ FreeRead(a) \/ FreePush(a)
    <3>1. enmState[req[a]] = "FREE"
      BY <1>s, <2>2 DEF FreeLook, FreeCount, FreeRead, FreePush, StateOf, Freeing
    <3> QED BY <1>1, <2>2, <3>1 DEF FreeLook, FreeCount, FreeRead, FreePush, ReadAgain, Set, Go, Done,
                  TypeInv, PcInv, Freeing
  <2> QED BY <2>1, <2>2 DEF FreeStep
<1>6. StateOf(a)'
  BY <1>5 DEF StateOf, Freeing, Allocating, Waiting
<1>7. Owner(a)' => req'[a] = req[a] /\ enmState'[req[a]] = "FREE"
  BY <1>5 DEF Owner
<1>8. pc'[EMT] = "readFlags" => pc[EMT] = "readFlags" /\ req'[EMT] = req[EMT]
  BY <1>5, Names DEF Others, Freeing
<1> QED BY <1>1, <1>4, <1>6, <1>7, <1>8, StateKept, NobodyWaitsKept DEF StateInv, Unfinished

\* and that the EMT does.
LEMMA StateOfEmt ==
    ASSUME TypeInv, TypeInv', PcInv, PcInv', PlaceInv, StateInv, Others(EMT), EmtSteps, ~misread'
    PROVE  StateInv'
<1>0. EMT \in Actors /\ NIL \notin Packets
  BY Names
<1>s. StateOf(EMT) /\ NobodyWaits
  BY <1>0 DEF StateInv
<1>1. noWait' = noWait /\ raced' = raced /\ ~Owner(EMT)
  BY DEF EmtSteps, Process, Complete, ReadFlags, Unclear, Signal, Owner, Freeing, shared, history
<1>2. CASE Process
  <2>1. PICK p \in Packets :
          enmState[p] = "QUEUED" /\ Set(p, "PROCESSING") /\ req' = [req EXCEPT ![EMT] = p]
    BY <1>2 DEF Process
  <2>2. req'[EMT] = p /\ pc'[EMT] = "complete" /\ ~Owner(EMT)'
    BY <1>0, <1>2, <2>1 DEF Process, Go, PcInv, TypeInv, Owner, Freeing
  <2>3. enmState'[p] = "PROCESSING" /\ \A y \in Packets : y # p => enmState'[y] = enmState[y]
    BY <2>1 DEF Set, TypeInv
  <2>4. StateOf(EMT)'
    BY <1>0, <2>2, <2>3 DEF StateOf, Waiting, Freeing, Allocating
  <2>5. ASSUME NEW b \in Actors \ {EMT}
        PROVE  StateOf(b)'
    <3>1. pc'[b] = pc[b] /\ req'[b] = req[b] /\ kind'[b] = kind[b] /\ StateOf(b)
      BY DEF Others, StateInv
    <3>2. pc[b] # "complete"
      BY Names DEF PcInv, InEmt
    <3>3. pc[b] # "idle" => req[b] \in Packets
      BY DEF PcInv
    <3>4. pc[b] # "idle" /\ req[b] = p => enmState[req[b]] = "QUEUED" /\ enmState'[req'[b]] = "PROCESSING"
      BY <2>1, <2>3, <3>1
    <3>5. pc[b] # "idle" /\ req[b] # p => enmState'[req'[b]] = enmState[req[b]]
      BY <2>3, <3>1, <3>3
    <3> QED BY <1>1, <3>1, <3>2, <3>4, <3>5 DEF StateOf, InUse, Allocating, Freeing, Waiting
  <2>6. NobodyWaits'
    BY <1>1, <1>s, <2>1, <2>2, <2>3 DEF NobodyWaits, Unfinished, Others, Owner
  <2> QED BY <2>4, <2>5, <2>6 DEF StateInv
<1>3. CASE Complete
  <2>1. /\ pc[EMT] = "complete" /\ req[EMT] \in Packets /\ enmState[req[EMT]] = "PROCESSING" /\ req' = req
        /\ pc'[EMT] = "readFlags" /\ ~Owner(EMT)'
    BY <1>0, <1>3, <1>s DEF Complete, Go, local, PcInv, StateOf, Owner, Freeing
  <2>2. /\ enmState'[req[EMT]] = "COMPLETED"
        /\ \A y \in Packets : y # req[EMT] => enmState'[y] = enmState[y]
    BY <1>3, <2>1 DEF Complete, Set, TypeInv
  <2>3. StateOf(EMT)'
    BY <1>0, <2>1, <2>2 DEF StateOf, Waiting, Freeing, Allocating, InUse
  <2>4. ASSUME NEW b \in Actors \ {EMT}
        PROVE  StateOf(b)'
    <3>1. pc'[b] = pc[b] /\ req'[b] = req[b] /\ kind'[b] = kind[b] /\ StateOf(b)
      BY DEF Others, StateInv
    <3>2. pc[b] # "complete"
      BY Names DEF PcInv, InEmt
    <3>3. pc[b] # "idle" => req[b] \in Packets
      BY DEF PcInv
    <3>4. pc[b] # "idle" /\ req[b] = req[EMT] =>
             enmState[req[b]] = "PROCESSING" /\ enmState'[req'[b]] = "COMPLETED"
      BY <2>1, <2>2, <3>1
    <3>5. pc[b] # "idle" /\ req[b] # req[EMT] => enmState'[req'[b]] = enmState[req[b]]
      BY <2>2, <3>1, <3>3
    <3> QED BY <1>1, <3>1, <3>2, <3>4, <3>5 DEF StateOf, InUse, Allocating, Freeing, Waiting
  <2>5. NobodyWaits'
    <3> SUFFICES ASSUME NEW p \in Packets, Unfinished(p)', noWait'[p],
                        NEW b \in Actors, Owner(b)', req'[b] = p
                 PROVE  FALSE
      BY DEF NobodyWaits
    <3>1. Unfinished(p) /\ noWait[p]
      BY <1>1, <2>1, <2>2 DEF Unfinished
    <3>2. b # EMT
      BY <2>1
    <3> QED BY <1>s, <3>1, <3>2 DEF NobodyWaits, Others, Owner
  <2> QED BY <2>3, <2>4, <2>5 DEF StateInv
<1>4. CASE Unclear \/ Signal
  <2>1. enmState' = enmState /\ pc'[EMT] \in {"signal", "idle"} /\ ~Owner(EMT)'
    BY <1>0, <1>4 DEF Unclear, Signal, Go, Done, PcInv, Owner, Freeing
  <2>2. Changes(EMT, NIL)
    BY <1>0, <1>1, <2>1 DEF Changes, Owner, PcInv
  <2>3. StateOf(EMT)'
    BY <2>1 DEF StateOf, Waiting, Freeing, Allocating
  <2> QED BY <1>0, <2>1, <2>2, <2>3, StateKept, NobodyWaitsKept DEF StateInv
<1>5. CASE ReadFlags
  <2>1. /\ enmState' = enmState /\ req' = req /\ pc[EMT] = "readFlags" /\ req[EMT] \in Packets
        /\ \/ pc'[EMT] = "unclear"
           \/ pc'[EMT] = "free" /\ enmState[req[EMT]] = "COMPLETED"
    BY <1>0, <1>5 DEF ReadFlags, Go, shared, local, PcInv, TypeInv
  <2>2. Changes(EMT, NIL)
    BY <1>0, <1>1, <2>1 DEF Changes, Owner, PcInv
  <2>3. StateOf(EMT)'
    BY <2>1 DEF StateOf, InUse, Waiting, Freeing, Allocating
  <2>4. NobodyWaits'
    <3> SUFFICES ASSUME NEW p \in Packets, Unfinished(p)', noWait'[p],
                        NEW b \in Actors, Owner(b)', req'[b] = p
                 PROVE  FALSE
      BY DEF NobodyWaits
    <3>1. enmState[p] \in {"QUEUED", "PROCESSING"} /\ noWait[p]
      BY <1>1, <2>1 DEF Unfinished
    <3>2. CASE b = EMT
      BY <2>1, <3>1, <3>2 DEF Owner, Freeing
    <3>3. CASE b # EMT
      BY <1>s, <3>1, <3>3 DEF NobodyWaits, Unfinished, Others, Owner
    <3> QED BY <3>2, <3>3
  <2> QED BY <2>2, <2>3, <2>4, <1>0, StateKept DEF StateInv
<1> QED BY <1>2, <1>3, <1>4, <1>5 DEF EmtSteps

-----------------------------------------------------------------------------
(* Semaphores *)

\* A step that touches the state, the semaphore and the wait of x at most.
Touches(a, x) ==
    /\ \A p \in Packets : p # x =>
          /\ enmState'[p] = enmState[p] /\ noWait'[p] = noWait[p]
          /\ fEventSemClear'[p] = fEventSemClear[p] /\ (p \in sem' <=> p \in sem)
    /\ \A b \in Actors \ {a} : Owner(b) => req[b] # x

\* It leaves the other requesters their waits.
LEMMA WaitsKept ==
    ASSUME TypeInv, TypeInv', PcInv, NEW a \in Actors, Others(a), NEW x, Touches(a, x),
           NEW r \in Requesters \ {a}, SemOf(r)
    PROVE  SemOf(r)' /\ \A p : Witness(r, p)' <=> Witness(r, p)
<1>1. pc'[r] = pc[r] /\ req'[r] = req[r] /\ kind'[r] = kind[r] /\ rc'[r] = rc[r]
  BY Names DEF Others
<1>2. \A p : Witness(r, p)' <=> Witness(r, p)
  BY <1>1 DEF Witness
<1>3. pc[r] # "idle" => /\ req[r] \in Packets /\ enmState'[req[r]] = enmState[req[r]]
                        /\ (req[r] \in sem' <=> req[r] \in sem)
  BY Names DEF Touches, Owner, PcInv
<1> QED BY <1>1, <1>2, <1>3 DEF SemOf

\* Who waits for a packet that is to be signalled is the one who has it.
LEMMA TheWaiter ==
    ASSUME TypeInv, PcInv, PlaceInv, SomebodyWaits, NEW a \in Actors, Owner(a), Pending(req[a])
    PROVE  a \in Requesters /\ Witness(a, req[a])
<1>1. req[a] \in Packets
  BY DEF PcInv, Owner
<1>2. PICK r \in Requesters : Witness(r, req[a])
  BY <1>1 DEF SomebodyWaits
<1>3. r \in Actors /\ Owner(r) /\ req[r] = req[a]
  BY <1>2, Names DEF Witness, Owner
<1> QED BY <1>1, <1>2, <1>3, Exclusive

\* A requester's step between two that matter to semaphores.
LEMMA SemQuiet ==
    ASSUME TypeInv, TypeInv', PcInv, PcInv', NEW a \in Actors, Others(a),
           SignalledOnce, OwedOnce, SomebodyWaits, \A r \in Requesters : SemOf(r),
           enmState' = enmState, noWait' = noWait, fEventSemClear' = fEventSemClear, sem' = sem,
           pc[a] \notin Waiting \cup InEmt, pc'[a] \notin Waiting \cup InEmt \cup {"drained", "init"}, rc' = rc
    PROVE  SignalledOnce' /\ OwedOnce' /\ SomebodyWaits' /\ \A r \in Requesters : SemOf(r)'
<1>0. NIL \notin Packets
  BY Names
<1>1. Touches(a, NIL)
  BY <1>0 DEF Touches, Owner, PcInv
<1>2. \A r \in Requesters \ {a} : SemOf(r)' /\ \A p : Witness(r, p)' <=> Witness(r, p)
  BY <1>1, WaitsKept
<1>3. a \in Requesters => SemOf(a)' /\ \A p : ~Witness(a, p)
  BY DEF SemOf, Witness, Waiting
<1>4. (pc'[EMT] \in InEmt <=> pc[EMT] \in InEmt) /\ (pc[EMT] \in InEmt => pc'[EMT] = pc[EMT] /\ req'[EMT] = req[EMT])
  BY Names DEF Others
<1>5. \A p : EmtOwesSignal(p)' <=> EmtOwesSignal(p)
  BY <1>4 DEF EmtOwesSignal, InEmt
<1>6. OwedOnce'
  BY <1>4, <1>5 DEF OwedOnce, InEmt
<1>7. SomebodyWaits'
  BY <1>2, <1>3, <1>5 DEF SomebodyWaits, Pending
<1>8. SignalledOnce'
  BY DEF SignalledOnce
<1> QED BY <1>2, <1>3, <1>6, <1>7, <1>8

\* The EMT has completed the packet, and is not done with it.
EmtHas(p) == req[EMT] = p /\ pc[EMT] \in {"readFlags", "unclear", "signal"}

\* A requester's step on its packet: what is to be shown of that packet alone.
LEMMA SemOfOne ==
    ASSUME TypeInv, TypeInv', PcInv, PcInv', NEW r \in Requesters, Others(r),
           SignalledOnce, OwedOnce, SomebodyWaits, \A q \in Requesters : SemOf(q),
           NEW x \in Packets, Touches(r, x),
           x \in sem' => ~fEventSemClear'[x] /\ enmState'[x] \in {"COMPLETED", "FREE"},
           EmtHas(x) => enmState'[x] = "COMPLETED" /\ noWait'[x] = noWait[x],
           EmtOwesSignal(x) => x \notin sem',
           pc[EMT] = "signal" /\ req[EMT] = x => ~fEventSemClear'[x],
           Pending(x)' => Witness(r, x)',
           \A p \in Packets : p # x => ~Witness(r, p),
           SemOf(r)'
    PROVE  SignalledOnce' /\ OwedOnce' /\ SomebodyWaits' /\ \A q \in Requesters : SemOf(q)'
<1>0. r \in Actors /\ EMT \in Actors \ {r}
  BY Names
<1>1. \A q \in Requesters \ {r} : SemOf(q)' /\ \A p : Witness(q, p)' <=> Witness(q, p)
  BY <1>0, WaitsKept
<1>2. pc'[EMT] = pc[EMT] /\ req'[EMT] = req[EMT]
  BY <1>0 DEF Others
<1>3. \A p \in Packets : EmtOwesSignal(p)' <=> EmtOwesSignal(p)
  BY <1>2 DEF EmtOwesSignal, EmtHas, Touches
<1>4. \A p \in Packets : p # x => (Pending(p)' <=> Pending(p))
  BY <1>3 DEF Pending, Touches
<1>5. SomebodyWaits'
  <2> SUFFICES ASSUME NEW p \in Packets, Pending(p)'
               PROVE  \E q \in Requesters : Witness(q, p)'
    BY DEF SomebodyWaits
  <2>1. CASE p = x
    BY <2>1
  <2>2. CASE p # x
    <3>1. PICK q \in Requesters : Witness(q, p)
      BY <1>4, <2>2 DEF SomebodyWaits
    <3> QED BY <1>1, <2>2, <3>1
  <2> QED BY <2>1, <2>2
<1>6. OwedOnce'
  <2>1. \A p \in Packets : EmtOwesSignal(p)' => enmState'[p] = "COMPLETED" /\ p \notin sem'
    BY <1>3 DEF OwedOnce, Touches, EmtHas, EmtOwesSignal
  <2>2. pc'[EMT] = "signal" => ~fEventSemClear'[req'[EMT]]
    BY <1>0, <1>2 DEF OwedOnce, Touches, PcInv
  <2>3. pc'[EMT] = "readFlags" => enmState'[req'[EMT]] = "COMPLETED"
    BY <1>0, <1>2 DEF OwedOnce, Touches, PcInv, EmtHas
  <2> QED BY <2>1, <2>2, <2>3 DEF OwedOnce
<1>7. SignalledOnce'
  BY DEF SignalledOnce, Touches, TypeInv
<1> QED BY <1>1, <1>5, <1>6, <1>7

\* Semaphores tell the truth whatever a requester does,
LEMMA SemOfRequester ==
    ASSUME TypeInv, TypeInv', PcInv, PcInv', PlaceInv, StateInv, StateInv', NEW r \in Requesters, Others(r),
           RequesterSteps(r), SemInv
    PROVE  SemInv'
<1>0. r \in Actors /\ r # EMT
  BY Names
<1>1. raced => raced'
  <2>1. CASE Result(r)
    BY <2>1, Zenon DEF Result
  <2>2. CASE ~Result(r)
    BY <2>2 DEF RequesterSteps, TakeList, GiveBack, JoinXchg, JoinLink, JoinStore, JoinUnlink, JoinRetry, Drain,
        Drained, InitPacket, AllocNew, Fill, Queue, Wait, Timeout, Loop, Waited, history
  <2> QED BY <2>1, <2>2
<1> SUFFICES ASSUME ~raced, ~raced'
             PROVE  SignalledOnce' /\ OwedOnce' /\ SomebodyWaits' /\ \A q \in Requesters : SemOf(q)'
  BY <1>1 DEF SemInv
<1>2. SignalledOnce /\ OwedOnce /\ SomebodyWaits /\ \A q \in Requesters : SemOf(q)
  BY DEF SemInv
<1>3. StateOf(r) /\ StateOf(r)' /\ SemOf(r)
  BY <1>0, <1>2 DEF StateInv
<1>4. Owner(r) => req[r] \in Packets /\ \A b \in Actors \ {r} : Owner(b) => req[b] # req[r]
  BY <1>0, Exclusive DEF Owner, PcInv
<1>5. Owner(r) /\ Pending(req[r]) => Witness(r, req[r])
  BY <1>0, <1>2, TheWaiter
<1>6. \A p \in Packets :
        /\ EmtOwesSignal(p) => Pending(p) /\ enmState[p] = "COMPLETED" /\ p \notin sem
        /\ EmtHas(p) => enmState[p] = "COMPLETED"
  BY <1>2 DEF Pending, OwedOnce, EmtHas, EmtOwesSignal
<1>h. \A p : ~EmtHas(p) => ~EmtOwesSignal(p) /\ ~EmtOwesSignal(p)'
  BY <1>0, Names DEF EmtHas, EmtOwesSignal, Others
<1>7. CASE \/ TakeList(r) \/ GiveBack(r) \/ JoinXchg(r) \/ JoinLink(r) \/ JoinStore(r) \/ JoinUnlink(r)
           \/ JoinRetry(r)
  <2>1. /\ enmState' = enmState /\ noWait' = noWait /\ fEventSemClear' = fEventSemClear /\ sem' = sem
        /\ pc[r] \notin Waiting \cup InEmt /\ rc' = rc
        /\ pc'[r] \notin Waiting \cup InEmt \cup {"drained", "init"}
    BY <1>0, <1>7 DEF TakeList, GiveBack, JoinFree, JoinXchg, JoinLink, JoinStore, JoinUnlink, JoinRetry, Joined,
          GoDrain, Go, local, PcInv, Waiting, InEmt
  <2> QED BY <1>0, <1>2, <2>1, SemQuiet
<1>8. CASE Drain(r)
  <2>1. /\ pc[r] = "drain" /\ pc'[r] \in {"drained", "init"} /\ req' = req /\ rc' = rc /\ enmState' = enmState
        /\ noWait' = noWait /\ fEventSemClear' = fEventSemClear /\ Owner(r) /\ enmState[req[r]] = "FREE"
    BY <1>0, <1>3, <1>8 DEF Drain, Go, local, PcInv, Owner, StateOf, Allocating
  <2>2. req[r] \notin sem' /\ \A p \in Packets : p # req[r] => (p \in sem' <=> p \in sem)
    BY <1>2, <1>8 DEF Drain, SignalledOnce
  <2>3. PICK x \in Packets : x = req[r]
    BY <1>4, <2>1
  <2>4. Touches(r, x)
    BY <1>4, <2>1, <2>2, <2>3 DEF Touches
  <2>5. ~EmtHas(x) /\ ~EmtOwesSignal(x) /\ ~Pending(x)'
    <3>1. ~EmtHas(x)
      BY <1>6, <2>1, <2>3
    <3> QED BY <1>h, <2>1, <2>3, <3>1 DEF Pending
  <2>6. SemOf(r)' /\ \A p : ~Witness(r, p)
    BY <1>3, <2>1, <2>2 DEF SemOf, Witness
  <2> QED BY <1>0, <1>2, <2>2, <2>3, <2>4, <2>5, <2>6, SemOfOne DEF EmtHas
<1>15. CASE Drained(r) \/ Fill(r)
  <2>1. /\ pc[r] \in {"drained", "fill"} /\ pc'[r] \in {"init", "queue"} /\ req' = req /\ rc' = rc
        /\ enmState' = enmState /\ sem' = sem /\ Owner(r) /\ enmState[req[r]] \in {"FREE", "ALLOCATED"}
    BY <1>0, <1>3, <1>15 DEF Drained, Fill, Go, local, PcInv, Owner, StateOf, Allocating
  <2>2. PICK x \in Packets : x = req[r]
    BY <1>4, <2>1
  <2>3. \A p \in Packets : p # x => noWait'[p] = noWait[p] /\ fEventSemClear'[p] = fEventSemClear[p]
    BY <1>15, <2>2 DEF Drained, Fill, TypeInv
  <2>4. Touches(r, x)
    BY <1>4, <2>1, <2>2, <2>3 DEF Touches
  <2>5. ~EmtHas(x) /\ ~EmtOwesSignal(x) /\ ~Pending(x)'
    <3>1. ~EmtHas(x)
      BY <1>6, <2>1, <2>2
    <3> QED BY <1>h, <2>1, <2>2, <3>1 DEF Pending
  <2>6. x \notin sem
    <3>1. CASE Drained(r)
      BY <1>3, <2>2, <3>1 DEF Drained, SemOf
    <3>2. CASE Fill(r)
      <4>1. enmState[x] = "ALLOCATED"
        BY <1>3, <2>2, <3>2 DEF Fill, StateOf
      <4> QED BY <1>2, <4>1 DEF SignalledOnce
    <3> QED BY <1>15, <3>1, <3>2
  <2>7. SemOf(r)' /\ \A p : ~Witness(r, p)
    BY <1>3, <2>1, <2>2, <2>6 DEF SemOf, Witness
  <2> QED BY <1>0, <1>2, <2>1, <2>2, <2>4, <2>5, <2>6, <2>7, SemOfOne DEF EmtHas
<1>9. CASE InitPacket(r) \/ AllocNew(r)
  <2>1. PICK x \in Packets :
          /\ x = req'[r] /\ x \notin sem' /\ enmState[x] \in {"FREE", "INVALID"} /\ enmState'[x] = "ALLOCATED"
          /\ \A p \in Packets : p # x =>
                /\ enmState'[p] = enmState[p] /\ noWait'[p] = noWait[p]
                /\ fEventSemClear'[p] = fEventSemClear[p] /\ (p \in sem' <=> p \in sem)
          /\ \A b \in Actors \ {r} : Owner(b) => req[b] # x
    <3>1. CASE InitPacket(r)
      <4>1. /\ Owner(r) /\ req[r] \in Packets /\ req' = req /\ sem' = sem /\ enmState[req[r]] = "FREE"
            /\ req[r] \notin sem
        BY <1>0, <1>3, <1>4, <3>1 DEF InitPacket, Owner, local, StateOf, SemOf, Allocating
      <4>2. /\ enmState'[req[r]] = "ALLOCATED"
            /\ \A p \in Packets : p # req[r] =>
                  /\ enmState'[p] = enmState[p] /\ noWait'[p] = noWait[p]
                  /\ fEventSemClear'[p] = fEventSemClear[p]
        BY <3>1, <4>1 DEF InitPacket, Set, TypeInv
      <4> QED BY <1>4, <4>1, <4>2
    <3>2. CASE AllocNew(r)
      <4>1. PICK p \in Packets :
              /\ enmState[p] = "INVALID" /\ req' = [req EXCEPT ![r] = p] /\ Set(p, "ALLOCATED")
              /\ fEventSemClear' = [fEventSemClear EXCEPT ![p] = TRUE] /\ sem' = sem \ {p}
              /\ noWait' = [noWait EXCEPT ![p] = FALSE]
        BY <3>2 DEF AllocNew
      <4>2. req'[r] = p /\ enmState'[p] = "ALLOCATED"
        BY <1>0, <4>1 DEF Set, TypeInv
      <4>3. \A y \in Packets : y # p =>
               /\ enmState'[y] = enmState[y] /\ noWait'[y] = noWait[y]
               /\ fEventSemClear'[y] = fEventSemClear[y]
               /\ (y \in sem' <=> y \in sem)
        BY <4>1 DEF Set, TypeInv
      <4>4. \A b \in Actors : Owner(b) => req[b] # p
        BY <4>1, Names DEF Owner, StateInv, StateOf, PcInv, Labels, Freeing, Waiting, Allocating, InEmt, InUse
      <4> QED BY <4>1, <4>2, <4>3, <4>4
    <3> QED BY <1>9, <3>1, <3>2
  <2>2. pc[r] \in {"init", "idle"} /\ pc'[r] = "fill" /\ rc' = rc
    BY <1>0, <1>9 DEF InitPacket, AllocNew, Go, PcInv, local
  <2>3. Touches(r, x)
    BY <2>1, <2>2 DEF Touches
  <2>4. ~EmtHas(x) /\ ~EmtOwesSignal(x) /\ ~Pending(x)'
    <3>1. ~EmtHas(x)
      BY <1>6, <2>1
    <3> QED BY <1>h, <2>1, <3>1 DEF Pending
  <2>5. SemOf(r)' /\ \A p : ~Witness(r, p)
    BY <1>3, <2>2 DEF SemOf, Witness
  <2> QED BY <1>0, <1>2, <2>1, <2>3, <2>4, <2>5, SemOfOne DEF EmtHas
<1>10. CASE Queue(r)
  <2>0. pc[r] = "queue" /\ enmState[req[r]] = "ALLOCATED" /\ (noWait[req[r]] <=> kind[r] = "NO_WAIT")
    BY <1>0, <1>3, <1>10 DEF Queue, StateOf
  <2>1. /\ Owner(r) /\ sem' = sem /\ rc' = rc /\ fEventSemClear' = fEventSemClear /\ noWait' = noWait
        /\ kind[r] = "NO_WAIT" => pc'[r] = "idle"
        /\ kind[r] # "NO_WAIT" => pc'[r] = "wait" /\ req' = req
    BY <1>0, <1>10, <2>0 DEF Queue, Go, Done, PcInv, Owner
  <2>2. PICK x \in Packets : x = req[r]
    BY <1>4, <2>1
  <2>3. /\ enmState'[x] = "QUEUED" /\ (noWait'[x] <=> kind[r] = "NO_WAIT")
        /\ \A p \in Packets : p # x => enmState'[p] = enmState[p]
    BY <1>10, <2>0, <2>1, <2>2 DEF Queue, Set, TypeInv
  <2>4. x \notin sem
    BY <1>2, <2>0, <2>2 DEF SignalledOnce
  <2>5. Touches(r, x)
    BY <1>4, <2>1, <2>2, <2>3 DEF Touches
  <2>6. ~EmtHas(x) /\ ~EmtOwesSignal(x) /\ ~EmtOwesSignal(x)'
    <3>1. ~EmtHas(x)
      BY <1>6, <2>0, <2>2
    <3> QED BY <1>h, <3>1
  <2>7. ~rc'[r]
    BY <1>3, <2>0, <2>1 DEF SemOf
  <2>8. Pending(x)' => Witness(r, x)'
    BY <2>1, <2>2, <2>3, <2>6, <2>7 DEF Pending, Witness
  <2>9. SemOf(r)' /\ \A p : ~Witness(r, p)
    BY <2>0, <2>1, <2>7 DEF SemOf, Witness
  <2> QED BY <1>0, <1>2, <2>1, <2>4, <2>5, <2>6, <2>8, <2>9, SemOfOne DEF EmtHas
<1>11. CASE Wait(r)
  <2>1. /\ pc[r] = "wait" /\ pc'[r] \in {"loop", "waited"} /\ Owner(r) /\ req' = req /\ req[r] \in sem
        /\ sem' = sem \ {req[r]} /\ rc'[r] /\ enmState' = enmState /\ noWait' = noWait
        /\ fEventSemClear' = fEventSemClear /\ enmState[req[r]] = "COMPLETED"
    <3>1. enmState[req[r]] \in InUse
      BY <1>3, <1>11 DEF Wait, StateOf, Waiting
    <3>2. enmState[req[r]] = "COMPLETED"
      BY <1>2, <1>11, <3>1 DEF Wait, SignalledOnce, InUse
    <3> QED BY <1>0, <1>11, <3>2 DEF Wait, Go, PcInv, Owner, TypeInv
  <2>2. PICK x \in Packets : x = req[r]
    BY <1>4, <2>1
  <2>3. Touches(r, x)
    BY <1>4, <2>1, <2>2 DEF Touches
  <2>4. ~EmtOwesSignal(x) /\ ~Pending(x)'
    <3>1. ~EmtOwesSignal(x)
      BY <1>6, <2>1, <2>2
    <3>2. ~EmtOwesSignal(x)'
      BY <1>0, <2>1, <3>1, Names DEF EmtOwesSignal, Others
    <3> QED BY <2>1, <2>2, <3>1, <3>2 DEF Pending
  <2>5. SemOf(r)' /\ \A p \in Packets : p # x => ~Witness(r, p)
    BY <2>1, <2>2 DEF SemOf, Witness
  <2> QED BY <1>0, <1>2, <2>1, <2>2, <2>3, <2>4, <2>5, SemOfOne DEF EmtOwesSignal
<1>12. CASE Timeout(r) \/ Loop(r)
  <2>1. /\ pc[r] \in {"wait", "loop"} /\ Owner(r) /\ req' = req /\ sem' = sem /\ enmState' = enmState
        /\ noWait' = noWait /\ fEventSemClear' = fEventSemClear /\ kind' = kind
    BY <1>0, <1>12 DEF Timeout, Loop, shared, local, Owner
  <2>2. PICK x \in Packets : x = req[r]
    BY <1>4, <2>1
  <2>3. Touches(r, x)
    BY <1>4, <2>1, <2>2 DEF Touches
  <2>4. /\ pc'[r] = "waited" /\ rc'[r] = rc[r]
        /\ pc[r] = "wait" => kind[r] = "timed"
    <3>1. CASE Timeout(r)
      BY <1>0, <1>3, <3>1 DEF Timeout, MayTimeOut, Go, PcInv, TypeInv, SemOf
    <3>2. CASE Loop(r)
      BY <1>0, <1>3, <3>2 DEF Loop, MayStopWaiting, Go, PcInv, SemOf, local
    <3> QED BY <1>12, <3>1, <3>2
  <2>5. SemOf(r)' /\ \A p \in Packets : p # x => ~Witness(r, p)
    BY <1>3, <2>1, <2>2, <2>4 DEF SemOf, Witness
  <2>6. EmtOwesSignal(x)' <=> EmtOwesSignal(x)
    BY <1>0, <2>1, Names DEF EmtOwesSignal, Others
  <2>7. Pending(x)' => Witness(r, x)'
    <3> SUFFICES ASSUME Pending(x) PROVE Witness(r, x)'
      BY <2>1, <2>6 DEF Pending
    <3>1. Witness(r, x)
      BY <1>5, <2>1, <2>2
    <3> QED BY <2>1, <2>2, <2>4, <3>1 DEF Witness
  <2> QED BY <1>0, <1>2, <1>6, <2>1, <2>2, <2>3, <2>5, <2>7, SemOfOne DEF SignalledOnce, OwedOnce
<1>13. CASE Waited(r)
  <2>1. /\ pc[r] = "waited" /\ pc'[r] = "result" /\ Owner(r) /\ req' = req /\ sem' = sem /\ enmState' = enmState
        /\ noWait' = noWait /\ rc' = rc /\ kind' = kind
    BY <1>0, <1>13 DEF Waited, Go, local, PcInv, Owner
  <2>2. PICK x \in Packets : x = req[r]
    BY <1>4, <2>1
  <2>3. /\ \A p \in Packets : p # x => fEventSemClear'[p] = fEventSemClear[p]
        /\ ~rc[r] => fEventSemClear' = fEventSemClear
    BY <1>13, <2>2 DEF Waited, TypeInv
  <2>4. Touches(r, x)
    BY <1>4, <2>1, <2>2, <2>3 DEF Touches
  <2>5. SemOf(r)' /\ \A p \in Packets : p # x => ~Witness(r, p)
    BY <1>3, <2>1, <2>2 DEF SemOf, Witness
  <2>6. EmtOwesSignal(x)' <=> EmtOwesSignal(x)
    BY <1>0, <2>1, Names DEF EmtOwesSignal, Others
  <2>7. Pending(x) => Witness(r, x) /\ ~rc[r]
    BY <1>5, <2>1, <2>2 DEF Witness
  <2>8. Pending(x)' => Witness(r, x)'
    <3> SUFFICES ASSUME Pending(x) PROVE Witness(r, x)'
      BY <2>1, <2>6 DEF Pending
    <3> QED BY <2>1, <2>7 DEF Witness
  <2>9. x \in sem' => ~fEventSemClear'[x] /\ enmState'[x] \in {"COMPLETED", "FREE"}
    BY <1>2, <1>3, <2>1, <2>2, <2>3 DEF SignalledOnce, SemOf
  <2>10. pc[EMT] = "signal" /\ req[EMT] = x => ~fEventSemClear'[x]
    <3> SUFFICES ASSUME pc[EMT] = "signal", req[EMT] = x
                 PROVE  ~fEventSemClear'[x]
      OBVIOUS
    <3>1. ~rc[r]
      BY <1>6, <2>7 DEF EmtOwesSignal
    <3> QED BY <1>2, <2>3, <3>1 DEF OwedOnce
  <2> QED BY <1>0, <1>2, <1>6, <2>1, <2>4, <2>5, <2>8, <2>9, <2>10, SemOfOne
<1>14. CASE Result(r)
  <2>1. /\ pc[r] = "result" /\ Owner(r) /\ req' = req /\ sem' = sem /\ enmState' = enmState
        /\ noWait' = noWait /\ fEventSemClear' = fEventSemClear /\ ~rc'[r]
    BY <1>0, <1>14 DEF Result, shared, Owner, TypeInv
  <2>2. PICK x \in Packets : x = req[r]
    BY <1>4, <2>1
  <2>3. Touches(r, x)
    BY <1>4, <2>1, <2>2 DEF Touches
  <2>4. pc'[r] \in {"free", "wait"}
    BY <1>0, <1>14 DEF Result, Go, PcInv
  <2>5. SemOf(r)' /\ \A p \in Packets : p # x => ~Witness(r, p)
    BY <2>1, <2>2, <2>4 DEF SemOf, Witness
  <2>6. EmtOwesSignal(x)' <=> EmtOwesSignal(x)
    BY <1>0, <2>1, Names DEF EmtOwesSignal, Others
  <2>7. Pending(x)' => Witness(r, x)'
    <3> SUFFICES ASSUME Pending(x) PROVE Witness(r, x)'
      BY <2>1, <2>6 DEF Pending
    <3>1. ~rc[r]
      BY <1>5, <2>1, <2>2 DEF Witness
    <3>2. kind[r] = "timed"
      BY <1>0, <1>3, <2>1, <3>1 DEF SemOf, StateOf, Waiting
    <3>3. pc'[r] # "free"
      <4> SUFFICES ASSUME pc'[r] = "free" PROVE FALSE
        OBVIOUS
      <4>1. /\ enmState[x] = "COMPLETED"
            /\ raced' = (raced \/ (kind[r] = "timed" /\ EmtOwesSignal(x)))
        <5>1. pc' = [pc EXCEPT ![r] = "free"] \/ pc' = [pc EXCEPT ![r] = "wait"]
          BY <1>14 DEF Result, Go
        <5>2. ~Go(r, "wait")
          BY <1>0 DEF Go, PcInv
        <5> QED BY <1>14, <2>2, <3>1, <5>2, Zenon DEF Result
      <4>2. EmtOwesSignal(x)
        BY <4>1 DEF Pending
      <4> QED BY <3>2, <4>1, <4>2, Zenon
    <3> QED BY <2>1, <2>2, <2>4, <3>3 DEF Witness
  <2> QED BY <1>0, <1>2, <1>6, <2>1, <2>2, <2>3, <2>5, <2>7, SemOfOne DEF SignalledOnce, OwedOnce
<1> QED BY <1>7, <1>8, <1>9, <1>10, <1>11, <1>12, <1>13, <1>14, <1>15 DEF RequesterSteps

\* whoever frees a packet,
LEMMA SemOfFree ==
    ASSUME TypeInv, TypeInv', PcInv, PcInv', PlaceInv, StateInv, NEW a \in Actors, Others(a), FreeStep(a), SemInv
    PROVE  SemInv'
<1>1. /\ raced' = raced /\ rc' = rc /\ noWait' = noWait /\ fEventSemClear' = fEventSemClear
      /\ pc[a] \in {"free"} \cup Freeing
  BY DEF FreeStep, Free, FreeLook, FreeCount, FreeRead, FreePush, Freeing, history
<1> SUFFICES ASSUME ~raced
             PROVE  SignalledOnce' /\ OwedOnce' /\ SomebodyWaits' /\ \A q \in Requesters : SemOf(q)'
  BY <1>1 DEF SemInv
<1>2. SignalledOnce /\ OwedOnce /\ SomebodyWaits /\ \A q \in Requesters : SemOf(q)
  BY DEF SemInv
<1>3. Owner(a) /\ \A p : ~(a \in Requesters /\ Witness(a, p))
  BY <1>1 DEF Owner, Freeing, Witness
<1>4. PICK x \in Packets : x = req[a]
  BY <1>1 DEF PcInv, Freeing
<1>5. ~Pending(x) /\ ~EmtOwesSignal(x)
  BY <1>2, <1>3, <1>4, TheWaiter DEF Pending
<1>6. pc'[a] \in {"idle"} \cup Freeing
  BY DEF FreeStep, Free, FreeLook, FreeCount, FreeRead, FreePush, ReadAgain, Go, Done, PcInv, Freeing
<1>7. /\ \A p : EmtOwesSignal(p)' <=> EmtOwesSignal(p)
      /\ pc'[EMT] \in {"readFlags", "signal"} => pc[EMT] = pc'[EMT] /\ req'[EMT] = req[EMT]
  <2>1. CASE a = EMT
    BY <1>1, <1>6, <2>1 DEF EmtOwesSignal, Freeing
  <2>2. CASE a # EMT
    BY <1>1, <2>2, Names DEF EmtOwesSignal, Others
  <2> QED BY <2>1, <2>2
<1>8. /\ \A p \in Packets : p # x =>
            enmState'[p] = enmState[p] /\ noWait'[p] = noWait[p] /\ (p \in sem' <=> p \in sem)
      /\ enmState'[x] \notin {"QUEUED", "PROCESSING"} \/ (enmState' = enmState /\ noWait' = noWait)
      /\ x \in sem' => x \in sem /\ (enmState'[x] = "FREE" \/ enmState' = enmState)
  <2>1. CASE Free(a)
    BY <1>4, <2>1 DEF Free, Set, TypeInv
  <2>2. CASE FreeLook(a)
    BY <1>4, <2>2 DEF FreeLook, Set, TypeInv
  <2>3. CASE FreeCount(a) \/ FreeRead(a) \/ FreePush(a)
    BY <2>3 DEF FreeCount, FreeRead, FreePush
  <2> QED BY <2>1, <2>2, <2>3 DEF FreeStep
<1>9. Touches(a, x)
  BY <1>1, <1>3, <1>4, <1>8, Exclusive DEF Touches
<1>10. \A r \in Requesters \ {a} : SemOf(r)' /\ \A p : Witness(r, p)' <=> Witness(r, p)
  BY <1>2, <1>9, WaitsKept
<1>11. a \in Requesters => SemOf(a)'
  BY <1>1, <1>2, <1>6 DEF SemOf, Freeing
<1>12. SomebodyWaits'
  <2> SUFFICES ASSUME NEW p \in Packets, Pending(p)'
               PROVE  \E q \in Requesters : Witness(q, p)'
    BY DEF SomebodyWaits
  <2>1. p # x /\ Pending(p)
    BY <1>5, <1>7, <1>8 DEF Pending
  <2>2. PICK q \in Requesters : Witness(q, p)
    BY <1>2, <2>1 DEF SomebodyWaits
  <2> QED BY <1>3, <1>10, <2>2
<1>13. OwedOnce'
  <2>1. \A p \in Packets : EmtOwesSignal(p)' => enmState'[p] = "COMPLETED" /\ p \notin sem'
    BY <1>2, <1>5, <1>7, <1>8 DEF OwedOnce
  <2>2. pc'[EMT] = "readFlags" => enmState'[req'[EMT]] = "COMPLETED"
    <3> SUFFICES ASSUME pc[EMT] = "readFlags", req[EMT] = x
                 PROVE  FALSE
      BY <1>2, <1>7, <1>8, Names DEF OwedOnce, PcInv
    <3>1. enmState[x] = "COMPLETED"
      BY <1>2 DEF OwedOnce
    <3>2. ~noWait[x]
      BY <1>3, <1>4, <3>1 DEF StateInv, NobodyWaits, Unfinished
    <3> QED BY <1>5, <3>2 DEF EmtOwesSignal
  <2> QED BY <1>1, <1>2, <1>7, <2>1, <2>2 DEF OwedOnce
<1>14. SignalledOnce'
  BY <1>1, <1>2, <1>8 DEF SignalledOnce, TypeInv
<1> QED BY <1>10, <1>11, <1>12, <1>13, <1>14

\* and when the EMT completes one.
LEMMA SemOfEmt ==
    ASSUME TypeInv, TypeInv', PcInv, PcInv', PlaceInv, StateInv, Others(EMT), EmtSteps, SemInv
    PROVE  SemInv'
<1>0. EMT \in Actors /\ EMT \notin Requesters
  BY Names
<1>1. raced' = raced /\ rc' = rc /\ noWait' = noWait
  BY DEF EmtSteps, Process, Complete, ReadFlags, Unclear, Signal, shared, local, history
<1> SUFFICES ASSUME ~raced
             PROVE  SignalledOnce' /\ OwedOnce' /\ SomebodyWaits' /\ \A q \in Requesters : SemOf(q)'
  BY <1>1 DEF SemInv
<1>2. SignalledOnce /\ OwedOnce /\ SomebodyWaits /\ \A q \in Requesters : SemOf(q)
  BY DEF SemInv
<1>3. \A r \in Requesters : /\ pc'[r] = pc[r] /\ req'[r] = req[r] /\ kind'[r] = kind[r] /\ rc'[r] = rc[r]
                            /\ pc[r] # "idle" => req[r] \in Packets
  BY <1>0, Names DEF Others, PcInv
<1>4. \A r \in Requesters : \A p : Witness(r, p)' <=> Witness(r, p)
  BY <1>3 DEF Witness
<1>5. CASE Process
  <2>1. PICK p \in Packets :
          enmState[p] = "QUEUED" /\ Set(p, "PROCESSING") /\ req' = [req EXCEPT ![EMT] = p]
    BY <1>5 DEF Process
  <2>2. enmState'[p] = "PROCESSING" /\ \A y \in Packets : y # p => enmState'[y] = enmState[y]
    BY <2>1 DEF Set, TypeInv
  <2>3. sem' = sem /\ fEventSemClear' = fEventSemClear /\ pc[EMT] = "idle" /\ pc'[EMT] = "complete" /\ p \notin sem
    BY <1>0, <1>2, <1>5, <2>1 DEF Process, Go, PcInv, SignalledOnce
  <2>4. SignalledOnce' /\ OwedOnce'
    BY <1>2, <2>2, <2>3 DEF SignalledOnce, OwedOnce, EmtOwesSignal, TypeInv
  <2>5. SomebodyWaits'
    BY <1>1, <1>2, <1>4, <2>1, <2>2, <2>3 DEF SomebodyWaits, Pending, EmtOwesSignal
  <2>6. \A r \in Requesters : SemOf(r)'
    <3> SUFFICES ASSUME NEW r \in Requesters PROVE SemOf(r)'
      OBVIOUS
    <3>1. SemOf(r)
      BY <1>2
    <3>2. rc[r] => req[r] # p /\ enmState'[req[r]] = enmState[req[r]]
      BY <1>3, <2>1, <2>2, <3>1 DEF SemOf
    <3> QED BY <1>3, <2>3, <3>1, <3>2 DEF SemOf
  <2> QED BY <2>4, <2>5, <2>6
<1>6. CASE Complete
  <2>1. /\ pc[EMT] = "complete" /\ req' = req /\ enmState[req[EMT]] = "PROCESSING"
        /\ pc'[EMT] = "readFlags"
        /\ sem' = sem /\ fEventSemClear' = fEventSemClear
    BY <1>0, <1>6 DEF Complete, Go, local, PcInv, StateInv, StateOf
  <2>2. PICK x \in Packets : x = req[EMT]
    BY <1>0, <2>1 DEF PcInv
  <2>3. enmState'[x] = "COMPLETED" /\ \A y \in Packets : y # x => enmState'[y] = enmState[y]
    BY <1>6, <2>2 DEF Complete, Set, TypeInv
  <2>4. x \notin sem
    BY <1>2, <2>1, <2>2 DEF SignalledOnce
  <2>5. SignalledOnce' /\ OwedOnce'
    BY <1>2, <2>1, <2>2, <2>3, <2>4 DEF SignalledOnce, OwedOnce, EmtOwesSignal, TypeInv
  <2>6. \A p \in Packets : Pending(p)' => Pending(p)
    BY <1>1, <2>1, <2>2, <2>3 DEF Pending, EmtOwesSignal
  <2>7. SomebodyWaits'
    BY <1>2, <1>4, <2>6 DEF SomebodyWaits
  <2>8. \A r \in Requesters : SemOf(r)'
    <3> SUFFICES ASSUME NEW r \in Requesters PROVE SemOf(r)'
      OBVIOUS
    <3>1. SemOf(r)
      BY <1>2
    <3>2. rc[r] => enmState'[req[r]] = enmState[req[r]]
      BY <1>3, <2>1, <2>2, <2>3, <3>1 DEF SemOf
    <3> QED BY <1>3, <2>1, <3>1, <3>2 DEF SemOf
  <2> QED BY <2>5, <2>7, <2>8
<1>7. CASE Unclear \/ Signal
  <2>1. pc[EMT] \in {"unclear", "signal"} /\ enmState' = enmState
    BY <1>7 DEF Unclear, Signal
  <2>2. PICK x \in Packets : x = req[EMT]
    BY <1>0, <2>1 DEF PcInv
  <2>3. EmtOwesSignal(x) /\ Pending(x) /\ enmState[x] = "COMPLETED"
    BY <1>2, <2>1, <2>2 DEF EmtOwesSignal, Pending, OwedOnce
  <2>4. \A r \in Requesters : pc[r] # "idle" /\ req[r] = x => ~rc[r] /\ pc[r] \notin {"drained", "init"}
    BY <1>0, <1>2, <2>3, TheWaiter, Names DEF Owner, Witness
  <2>5. CASE Unclear
    <3>1. pc[EMT] = "unclear" /\ pc'[EMT] = "signal" /\ req' = req /\ sem' = sem
      BY <1>0, <2>5 DEF Unclear, Go, local, PcInv
    <3>2. ~fEventSemClear'[x] /\ \A y \in Packets : y # x => fEventSemClear'[y] = fEventSemClear[y]
      BY <2>2, <2>5 DEF Unclear, TypeInv
    <3>3. SignalledOnce' /\ OwedOnce'
      BY <1>2, <2>1, <2>2, <3>1, <3>2 DEF SignalledOnce, OwedOnce, EmtOwesSignal, TypeInv
    <3>4. SomebodyWaits'
      BY <1>1, <1>2, <1>4, <2>1, <3>1 DEF SomebodyWaits, Pending, EmtOwesSignal
    <3>5. \A r \in Requesters : SemOf(r)'
      BY <1>2, <1>3, <2>1, <3>1 DEF SemOf
    <3> QED BY <3>3, <3>4, <3>5
  <2>6. CASE Signal
    <3>1. /\ pc[EMT] = "signal" /\ pc'[EMT] = "idle" /\ sem' = sem \cup {x}
          /\ fEventSemClear' = fEventSemClear
      BY <1>0, <2>2, <2>6 DEF Signal, Done, Go, PcInv
    <3>2. ~fEventSemClear[x]
      BY <1>2, <2>2, <3>1 DEF OwedOnce
    <3>3. SignalledOnce' /\ OwedOnce'
      BY <1>2, <2>1, <2>3, <3>1, <3>2 DEF SignalledOnce, OwedOnce, EmtOwesSignal
    <3>4. SomebodyWaits'
      BY <1>1, <1>2, <1>4, <2>1, <3>1 DEF SomebodyWaits, Pending, EmtOwesSignal
    <3>5. \A r \in Requesters : SemOf(r)'
      <4> SUFFICES ASSUME NEW r \in Requesters PROVE SemOf(r)'
        OBVIOUS
      <4>1. SemOf(r)
        BY <1>2
      <4>2. rc[r] \/ pc[r] \in {"drained", "init"} => req[r] # x
        BY <2>4, <4>1 DEF SemOf
      <4> QED BY <1>3, <2>1, <3>1, <4>1, <4>2 DEF SemOf
    <3> QED BY <3>3, <3>4, <3>5
  <2> QED BY <1>7, <2>5, <2>6
<1>8. CASE ReadFlags
  <2>1. /\ pc[EMT] = "readFlags" /\ req' = req /\ enmState' = enmState /\ sem' = sem
        /\ fEventSemClear' = fEventSemClear /\ pc'[EMT] = IF noWait[req[EMT]] THEN "free" ELSE "unclear"
    BY <1>0, <1>8 DEF ReadFlags, Go, shared, local, PcInv
  <2>2. \A p \in Packets : EmtOwesSignal(p)' => EmtOwesSignal(p)
    BY <2>1 DEF EmtOwesSignal
  <2>3. SignalledOnce' /\ OwedOnce'
    BY <1>2, <2>1, <2>2 DEF SignalledOnce, OwedOnce
  <2>4. SomebodyWaits'
    BY <1>1, <1>2, <1>4, <2>1, <2>2 DEF SomebodyWaits, Pending
  <2>5. \A r \in Requesters : SemOf(r)'
    BY <1>2, <1>3, <2>1 DEF SemOf
  <2> QED BY <2>3, <2>4, <2>5
<1> QED BY <1>5, <1>6, <1>7, <1>8 DEF EmtSteps

-----------------------------------------------------------------------------
(* The count *)

\* Who is counted apart from x depends on neither the state of x nor where the actor is.
LEMMA CountedApart ==
    ASSUME TypeInv, PcInv, NEW a \in Actors, Others(a), NEW x,
           \A p \in Packets : p # x => (enmState'[p] = "FREE" <=> enmState[p] = "FREE"),
           pc[a] \in Uncounted => req[a] = x, pc'[a] \in Uncounted => req'[a] = x
    PROVE  \A p \in Packets : p # x => (p \in Counted' <=> p \in Counted)
<1> SUFFICES ASSUME NEW p \in Packets, p # x
             PROVE  p \in Counted' <=> p \in Counted
  OBVIOUS
<1>1. \A b \in Actors \ {a} : pc'[b] = pc[b] /\ req'[b] = req[b]
  BY DEF Others
<1>2. (\A b \in Actors : pc'[b] \in Uncounted => req'[b] # p) <=> (\A b \in Actors : pc[b] \in Uncounted => req[b] # p)
  BY <1>1
<1> QED BY <1>2 DEF Counted

\* There are finitely many packets to count.
LEMMA CountedFinite ==
    IsFiniteSet(Counted) /\ IsFiniteSet(Counted') /\ Cardinality(Counted) \in Nat /\ Cardinality(Counted') \in Nat
<1>1. Counted \in SUBSET Packets /\ Counted' \in SUBSET Packets
  BY DEF Counted
<1>2. IsFiniteSet(Counted) /\ IsFiniteSet(Counted')
  BY <1>1, FS_Subset, FiniteAssumption
<1> QED BY <1>2, FS_CardinalityType

\* Every step counts the packets that it takes off or puts on the lists.
LEMMA CountKept ==
    ASSUME TypeInv, TypeInv', PcInv, PcInv', PlaceInv, PlaceInv', StateInv, StateInv', CountInv, Next,
           (\E r \in Requesters : RequesterSteps(r) /\ Others(r)) \/ (\E a \in Actors : FreeStep(a) /\ Others(a))
             \/ (EmtSteps /\ Others(EMT))
    PROVE  CountInv'
<1>0. NIL \notin Packets /\ EMT \in Actors
  BY Names
<1>1. \A a \in Actors : pc[a] \in Uncounted => Owner(a) /\ req[a] \in Packets
  BY DEF Uncounted, Owner, PcInv, Freeing, InEmt
<1>2. \A a \in Actors : pc'[a] \in Uncounted => req'[a] \in Packets /\ req'[a] \notin Counted'
  BY DEF Uncounted, PcInv, Counted
<1>3. ASSUME NEW r \in Requesters, RequesterSteps(r), Others(r)
      PROVE  CountInv'
  <2>0. r \in Actors /\ r # EMT /\ StateOf(r) /\ StateOf(r)'
    BY Names DEF StateInv
  <2>1. CASE Drain(r)
    <3>1. /\ pc[r] = "drain" /\ pc'[r] \in {"drained", "init"} /\ req' = req /\ enmState' = enmState
          /\ cReqFree' = cReqFree - 1 /\ req[r] \in Packets
      BY <2>0, <2>1 DEF Drain, CountOneLess, Go, local, PcInv
    <3>2. \A p \in Packets : p # req[r] => (p \in Counted' <=> p \in Counted)
      BY <2>0, <1>3, <3>1, CountedApart DEF Uncounted
    <3>3. req[r] \in Counted /\ req[r] \notin Counted'
      <4>1. Owner(r) /\ enmState[req[r]] = "FREE"
        BY <2>0, <3>1 DEF Owner, StateOf, Allocating
      <4>2. \A b \in Actors : pc[b] \in Uncounted => req[b] # req[r]
        <5> SUFFICES ASSUME NEW b \in Actors, pc[b] \in Uncounted, req[b] = req[r]
                     PROVE  FALSE
          OBVIOUS
        <5>1. b = r
          BY <1>1, <2>0, <3>1, <4>1, Exclusive
        <5> QED BY <3>1, <5>1 DEF Uncounted
      <4>3. req[r] \in Counted
        BY <3>1, <4>1, <4>2 DEF Counted
      <4>4. req[r] \notin Counted'
        BY <1>2, <2>0, <3>1 DEF Uncounted
      <4> QED BY <4>3, <4>4
    <3>4. Counted' = Counted \ {req[r]}
      BY <3>2, <3>3 DEF Counted
    <3>5. Cardinality(Counted \ {req[r]}) = Cardinality(Counted) - 1
      BY <3>3, CountedFinite, FS_RemoveElement
    <3> QED BY <3>1, <3>4, <3>5 DEF CountInv
  <2>2. CASE Drained(r) \/ InitPacket(r)
    <3>1. /\ pc[r] \in {"drained", "init"} /\ req' = req /\ cReqFree' = cReqFree /\ req[r] \in Packets
      BY <2>0, <2>2 DEF Drained, InitPacket, local, PcInv
    <3>2. /\ \A p \in Packets : p # req[r] => enmState'[p] = enmState[p]
          /\ pc'[r] = "init" \/ (pc'[r] = "fill" /\ enmState'[req[r]] = "ALLOCATED")
      BY <2>0, <2>2, <3>1 DEF Drained, InitPacket, Set, Go, PcInv, TypeInv
    <3>3. \A p \in Packets : p # req[r] => (p \in Counted' <=> p \in Counted)
      BY <2>0, <1>3, <3>1, <3>2, CountedApart DEF Uncounted
    <3>4. req[r] \notin Counted /\ req[r] \notin Counted'
      BY <2>0, <3>1, <3>2 DEF Counted, Uncounted
    <3>5. Counted' = Counted
      BY <3>3, <3>4 DEF Counted
    <3> QED BY <3>1, <3>5 DEF CountInv
  <2>3. CASE ~Drain(r) /\ ~Drained(r) /\ ~InitPacket(r)
    <3>1. cReqFree' = cReqFree /\ pc[r] \notin Uncounted /\ pc'[r] \notin Uncounted
      <4>1. CASE TakeList(r) \/ GiveBack(r) \/ JoinXchg(r) \/ JoinLink(r) \/ JoinStore(r) \/ JoinUnlink(r) \/ JoinRetry(r)
        BY <2>0, <4>1 DEF TakeList, GiveBack, JoinFree, JoinXchg, JoinLink, JoinStore, JoinUnlink, JoinRetry,
              Joined, GoDrain, Go, PcInv, Uncounted
      <4>2. CASE AllocNew(r) \/ Fill(r) \/ Queue(r) \/ Wait(r) \/ Timeout(r) \/ Loop(r) \/ Waited(r) \/ Result(r)
        BY <2>0, <4>2 DEF AllocNew, Fill, Queue, Wait, Timeout, Loop, Waited, Result, Done, Go, PcInv, Uncounted, shared
      <4> QED BY <1>3, <2>3, <4>1, <4>2 DEF RequesterSteps
    <3>2. \A p \in Packets : enmState'[p] = "FREE" <=> enmState[p] = "FREE"
      <4>1. CASE AllocNew(r)
        BY <4>1 DEF AllocNew, Set, TypeInv
      <4>2. CASE Queue(r)
        <5>1. enmState[req[r]] = "ALLOCATED"
          BY <2>0, <4>2 DEF Queue, StateOf
        <5> QED BY <4>2, <5>1 DEF Queue, Set, TypeInv
      <4>3. CASE ~AllocNew(r) /\ ~Queue(r)
        BY <1>3, <2>3, <4>3 DEF RequesterSteps, TakeList, GiveBack, JoinXchg, JoinLink, JoinStore, JoinUnlink,
              JoinRetry, Fill, Wait, Timeout, Loop, Waited, Result, shared
      <4> QED BY <4>1, <4>2, <4>3
    <3>3. \A p \in Packets : p # NIL => (p \in Counted' <=> p \in Counted)
      BY <2>0, <1>3, <3>1, <3>2, CountedApart
    <3>4. Counted' = Counted
      BY <1>0, <3>3 DEF Counted
    <3> QED BY <3>1, <3>4 DEF CountInv
  <2> QED BY <2>1, <2>2, <2>3
<1>4. ASSUME NEW a \in Actors, FreeStep(a), Others(a)
      PROVE  CountInv'
  <2>0. StateOf(a) /\ pc[a] \in {"free"} \cup Freeing /\ req[a] \in Packets /\ Owner(a)
    BY <1>4 DEF StateInv, FreeStep, Free, FreeLook, FreeCount, FreeRead, FreePush, PcInv, Freeing, Owner
  <2>1. \A p \in Packets : p # req[a] => enmState'[p] = enmState[p]
    BY <1>4 DEF FreeStep, Free, FreeLook, FreeCount, FreeRead, FreePush, Set, TypeInv
  <2>2. pc'[a] \in Uncounted => req'[a] = req[a]
    BY <1>4 DEF FreeStep, Free, FreeLook, FreeCount, FreeRead, FreePush, ReadAgain, Go, Done, PcInv, Uncounted
  <2>3. \A p \in Packets : p # req[a] => (p \in Counted' <=> p \in Counted)
    BY <1>4, <2>1, <2>2, CountedApart
  <2>4. \A b \in Actors \ {a} : pc[b] \in Uncounted => req[b] # req[a]
    BY <1>1, <2>0, Exclusive
  <2>5. \A b \in Actors \ {a} : pc'[b] \in Uncounted => req'[b] # req[a]
    BY <1>4, <2>4 DEF Others
  <2>6. CASE FreeCount(a)
    <3>1. pc[a] = "freeCount" /\ pc'[a] = "freeRead" /\ cReqFree' = cReqFree + 1 /\ enmState' = enmState
      BY <2>6 DEF FreeCount, CountOneMore, Go, PcInv
    <3>2. enmState[req[a]] = "FREE"
      BY <2>0, <3>1 DEF StateOf, Freeing
    <3>3. req[a] \notin Counted
      BY <3>1 DEF Counted, Uncounted
    <3>4. \A b \in Actors : pc'[b] \in Uncounted => req'[b] # req[a]
      BY <2>5, <3>1 DEF Uncounted
    <3>5. req[a] \in Counted'
      BY <2>0, <3>1, <3>2, <3>4 DEF Counted
    <3>6. Counted' = Counted \cup {req[a]}
      BY <2>0, <2>3, <3>5 DEF Counted
    <3>7. Cardinality(Counted \cup {req[a]}) = Cardinality(Counted) + 1
      BY <3>3, CountedFinite, FS_AddElement
    <3> QED BY <3>1, <3>6, <3>7 DEF CountInv
  <2>7. CASE ~FreeCount(a)
    <3>1. cReqFree' = cReqFree
      BY <1>4, <2>7 DEF FreeStep, Free, FreeLook, FreeRead, FreePush
    <3>2. req[a] \in Counted' <=> req[a] \in Counted
      <4>1. CASE Free(a)
        <5>1. enmState[req[a]] # "FREE" /\ pc[a] = "free"
          BY <2>0, <4>1 DEF Free, StateOf, InUse
        <5>2. enmState'[req[a]] # "FREE" \/ (pc'[a] \in Uncounted /\ req'[a] = req[a])
          BY <2>0, <4>1, <5>1 DEF Free, Set, Go, TypeInv, PcInv, Uncounted
        <5> QED BY <5>1, <5>2 DEF Counted
      <4>2. CASE FreeLook(a)
        <5>1. pc[a] \in Uncounted
          BY <4>2 DEF FreeLook, Uncounted
        <5>2. enmState'[req[a]] # "FREE" \/ (pc'[a] \in Uncounted /\ req'[a] = req[a])
          BY <2>0, <4>2 DEF FreeLook, Set, Go, TypeInv, PcInv, Uncounted
        <5> QED BY <5>1, <5>2 DEF Counted
      <4>3. CASE FreeRead(a) \/ FreePush(a)
        <5>1. enmState' = enmState /\ pc[a] \notin Uncounted /\ pc'[a] \notin Uncounted
          BY <4>3 DEF FreeRead, FreePush, ReadAgain, Go, Done, PcInv, Uncounted
        <5>2. (\A b \in Actors : pc[b] \in Uncounted => req[b] # req[a])
                /\ (\A b \in Actors : pc'[b] \in Uncounted => req'[b] # req[a])
          BY <2>4, <2>5, <5>1
        <5> QED BY <5>1, <5>2 DEF Counted
      <4> QED BY <1>4, <2>7, <4>1, <4>2, <4>3 DEF FreeStep
    <3>3. Counted' = Counted
      BY <2>0, <2>3, <3>2 DEF Counted
    <3> QED BY <3>1, <3>3 DEF CountInv
  <2> QED BY <2>6, <2>7
<1>5. CASE EmtSteps /\ Others(EMT)
  <2>1. cReqFree' = cReqFree /\ pc[EMT] \notin Uncounted /\ pc'[EMT] \notin Uncounted
    BY <1>0, <1>5 DEF EmtSteps, Process, Complete, ReadFlags, Unclear, Signal, Done, Go, PcInv, Uncounted,
          shared
  <2>2. \A p \in Packets : enmState'[p] = "FREE" <=> enmState[p] = "FREE"
    <3>1. CASE Process
      BY <3>1 DEF Process, Set, TypeInv
    <3>2. CASE Complete
      <4>1. enmState[req[EMT]] = "PROCESSING"
        BY <1>0, <3>2 DEF Complete, StateInv, StateOf
      <4> QED BY <3>2, <4>1 DEF Complete, Set, TypeInv
    <3>3. CASE ReadFlags \/ Unclear \/ Signal
      BY <3>3 DEF ReadFlags, Unclear, Signal, shared
    <3> QED BY <1>5, <3>1, <3>2, <3>3 DEF EmtSteps
  <2>3. \A p \in Packets : p # NIL => (p \in Counted' <=> p \in Counted)
    BY <1>0, <1>5, <2>1, <2>2, CountedApart
  <2>4. Counted' = Counted
    BY <1>0, <2>3 DEF Counted
  <2> QED BY <2>1, <2>4 DEF CountInv
<1> QED BY <1>3, <1>4, <1>5

-----------------------------------------------------------------------------
(* The invariant *)

\* The packets that are free at first.
FreeAtFirst == {Recycled[n] : n \in DOMAIN Recycled}

\* The packets of the first chain are distinct.
LEMMA RecycledFacts ==
    /\ Recycled \in [1 .. Len(Recycled) -> Packets] /\ DOMAIN Recycled = 1 .. Len(Recycled) /\ Len(Recycled) \in Nat
    /\ \A m, n \in 1 .. Len(Recycled) : Recycled[m] = Recycled[n] => m = n
    /\ FreeAtFirst \subseteq Packets
    /\ Recycled # <<>> <=> Len(Recycled) > 0
<1>1. Recycled \in Seq(Packets)
  BY RecycledAssumption
<1>2. /\ Recycled \in [1 .. Len(Recycled) -> Packets] /\ DOMAIN Recycled = 1 .. Len(Recycled) /\ Len(Recycled) \in Nat
      /\ Recycled # <<>> <=> Len(Recycled) > 0
  BY <1>1
<1> QED BY <1>2, RecycledAssumption DEF FreeAtFirst

\* They are as many as the chain has links.
LEMMA FreeAtFirstCounted == Cardinality(FreeAtFirst) = Len(Recycled)
<1> DEFINE N == Len(Recycled)
<1>1. N \in Nat /\ Recycled \in [1 .. N -> FreeAtFirst]
  BY RecycledFacts DEF FreeAtFirst
<1>2. IsFiniteSet(1 .. N) /\ Cardinality(1 .. N) = N
  BY <1>1, FS_Interval
<1>3. Recycled \in Injection(1 .. N, FreeAtFirst)
  BY <1>1, RecycledFacts DEF Injection, IsInjective
<1>4. Recycled \in Surjection(1 .. N, FreeAtFirst)
  BY <1>1, RecycledFacts DEF Surjection, FreeAtFirst
<1>5. ExistsBijection(1 .. N, FreeAtFirst)
  BY <1>3, <1>4 DEF ExistsBijection, Bijection
<1> QED BY <1>2, <1>5, FS_Bijection

\* At first the links are those of that chain.
LEMMA FirstLinks ==
    ASSUME Init
    PROVE  /\ pNext \in Links
           /\ \A n \in 1 .. Len(Recycled) - 1 : pNext[Recycled[n]] = Recycled[n + 1]
           /\ Len(Recycled) > 0 => pNext[Recycled[Len(Recycled)]] = NIL
<1> DEFINE N == Len(Recycled)
<1>0. N \in Nat
  BY RecycledFacts
<1>1. \A n \in 1 .. N : (CHOOSE m \in DOMAIN Recycled : Recycled[m] = Recycled[n]) = n
  BY RecycledFacts
<1>2. pNext = [p \in Packets |->
          IF \E n \in 1 .. N - 1 : Recycled[n] = p
          THEN Recycled[1 + CHOOSE n \in DOMAIN Recycled : Recycled[n] = p]
          ELSE NIL]
  BY DEF Init
<1>3. ASSUME NEW n \in 1 .. N - 1
      PROVE  pNext[Recycled[n]] = Recycled[n + 1]
  <2>1. n \in 1 .. N /\ Recycled[n] \in Packets
    BY <1>0, RecycledFacts
  <2>2. pNext[Recycled[n]] = Recycled[1 + CHOOSE m \in DOMAIN Recycled : Recycled[m] = Recycled[n]]
    BY <1>2, <2>1
  <2>3. pNext[Recycled[n]] = Recycled[1 + n]
    BY <1>1, <2>1, <2>2
  <2> QED BY <2>3
<1>4. ASSUME N > 0
      PROVE  pNext[Recycled[N]] = NIL
  <2>1. N \in 1 .. N /\ Recycled[N] \in Packets
    BY <1>0, <1>4, RecycledFacts
  <2>2. ~ \E n \in 1 .. N - 1 : Recycled[n] = Recycled[N]
    BY <1>0, <2>1, RecycledFacts
  <2> QED BY <1>2, <2>1, <2>2
<1>5. ASSUME NEW p \in Packets
      PROVE  pNext[p] \in Pointer
  <2>1. CASE \E n \in 1 .. N - 1 : Recycled[n] = p
    <3>1. PICK n \in 1 .. N - 1 : Recycled[n] = p
      BY <2>1
    <3>2. n + 1 \in 1 .. N
      BY <1>0
    <3> QED BY <1>3, <3>1, <3>2, RecycledFacts DEF Pointer
  <2>2. CASE ~ \E n \in 1 .. N - 1 : Recycled[n] = p
    BY <1>2, <2>2 DEF Pointer
  <2> QED BY <2>1, <2>2
<1>6. pNext \in Links
  BY <1>2, <1>5 DEF Links
<1> QED BY <1>3, <1>4, <1>6

\* All of them are on the first list, and nothing is on the others.
LEMMA FirstChain ==
    ASSUME Init
    PROVE  \A i \in Lists : /\ Chain(apReqFree[i]) = IF i = 1 THEN FreeAtFirst ELSE {}
                            /\ Ends(pNext, apReqFree[i])
<1> DEFINE N == Len(Recycled)
<1>0. N \in Nat /\ pNext \in Links /\ NIL \notin Packets
  BY RecycledFacts, FirstLinks, Names
<1> SUFFICES ASSUME NEW i \in Lists
             PROVE  /\ Chain(apReqFree[i]) = IF i = 1 THEN FreeAtFirst ELSE {}
                    /\ Ends(pNext, apReqFree[i])
  OBVIOUS
<1>1. apReqFree[i] = IF i = 1 /\ N > 0 THEN Recycled[1] ELSE NIL
  BY RecycledFacts DEF Init
<1>2. CASE ~(i = 1 /\ N > 0)
  <2>1. apReqFree[i] = NIL /\ Chain(apReqFree[i]) = {}
    BY <1>1, <1>2, ReachableBasics DEF Chain
  <2>2. i = 1 => FreeAtFirst = {}
    BY <1>0, <1>2, RecycledFacts DEF FreeAtFirst
  <2> QED BY <2>1, <2>2 DEF Ends
<1>3. CASE i = 1 /\ N > 0
  <2> DEFINE h == Recycled[1]
             C == Reachable(pNext, h)
  <2>1. h \in Packets /\ h \in FreeAtFirst /\ apReqFree[i] = h
    BY <1>0, <1>1, <1>3, RecycledFacts DEF FreeAtFirst
  <2>2. Closed(pNext, FreeAtFirst)
    <3> SUFFICES ASSUME NEW n \in 1 .. N
                 PROVE  pNext[Recycled[n]] \in FreeAtFirst \cup {NIL}
      BY RecycledFacts DEF Closed, FreeAtFirst
    <3>1. CASE n = N
      BY <1>3, <3>1, FirstLinks
    <3>2. CASE n # N
      <4>1. n \in 1 .. N - 1 /\ n + 1 \in 1 .. N
        BY <1>0, <3>2
      <4> QED BY <4>1, FirstLinks, RecycledFacts DEF FreeAtFirst
    <3> QED BY <3>1, <3>2
  <2>3. C \subseteq FreeAtFirst
    BY <2>1, <2>2, RecycledFacts, ReachableLeast
  <2>4. h \in C /\ Closed(pNext, C)
    BY <1>0, <2>1, ReachableBasics, ReachableClosed DEF Pointer
  <2> HIDE DEF C
  <2>5. \A n \in 1 .. N : Recycled[n] \in C
    <3> DEFINE T == {n \in 1 .. N : Recycled[n] \notin C}
    <3> SUFFICES ASSUME T # {} PROVE FALSE
      OBVIOUS
    <3>1. T \subseteq Nat
      BY <1>0
    <3>2. PICK n \in T : \A m \in T : ~(<<m, n>> \in OpToRel(<, Nat))
      <4> HIDE DEF T
      <4> QED BY <3>1, WFMin, NatLessThanWellFounded
    <3>3. \A m \in T : ~(m < n)
      BY <3>1, <3>2 DEF OpToRel
    <3>4. n \in 1 .. N /\ n # 1
      BY <2>4
    <3>5. n - 1 \in 1 .. N - 1 /\ n - 1 \in 1 .. N /\ n - 1 < n /\ (n - 1) + 1 = n
      BY <1>0, <3>4
    <3>6. Recycled[n - 1] \in C
      BY <3>3, <3>5
    <3>7. pNext[Recycled[n - 1]] = Recycled[n] /\ Recycled[n] \in Packets
      BY <3>4, <3>5, FirstLinks, RecycledFacts
    <3> QED BY <1>0, <2>4, <3>6, <3>7 DEF Closed
  <2>6. FreeAtFirst \subseteq C
    BY <2>5, RecycledFacts DEF FreeAtFirst
  <2>7. \E q \in C : pNext[q] = NIL
    BY <1>0, <1>3, <2>5, FirstLinks
  <2>8. C = FreeAtFirst
    BY <2>3, <2>6
  <2>9. Chain(apReqFree[i]) = FreeAtFirst
    BY <2>1, <2>8 DEF Chain, C
  <2>10. Ends(pNext, apReqFree[i])
    <3>1. C = Reachable(pNext, apReqFree[i])
      BY <2>1 DEF C
    <3> QED BY <2>7, <3>1 DEF Ends
  <2> QED BY <1>3, <2>9, <2>10
<1> QED BY <1>2, <1>3

\* The invariant holds at first,
LEMMA InitHolds == Init => IInv
<1> SUFFICES ASSUME Init PROVE IInv
  OBVIOUS
<1>0. NIL \notin Packets /\ 1 \in Lists /\ EMT \in Actors
  BY Names
<1>1. /\ pc = [a \in Actors |-> "idle"] /\ req = [a \in Actors |-> NIL]
      /\ enmState = [p \in Packets |-> IF p \in FreeAtFirst THEN "FREE" ELSE "INVALID"]
      /\ rc = [r \in Requesters |-> FALSE] /\ sem = {} /\ raced = FALSE /\ misread = FALSE
  BY RecycledFacts DEF Init, FreeAtFirst
<1>2. TypeInv
  <2>1. apReqFree \in [Lists -> Pointer]
    BY <1>0, RecycledFacts DEF Init, Pointer
  <2>2. pNext \in Links
    BY FirstLinks
  <2>3. /\ noWait \in [Packets -> BOOLEAN] /\ fEventSemClear \in [Packets -> BOOLEAN]
        /\ list \in [Actors -> Lists] /\ kind \in [Actors -> {"NO_WAIT", "timed", "forever"}]
    BY <1>0 DEF Init
  <2>4. /\ pRest \in [Requesters -> Pointer] /\ pHead \in [Requesters -> Pointer]
        /\ pOld \in [Actors -> Pointer]
    BY DEF Init, Pointer
  <2>5. /\ enmState \in [Packets -> {"INVALID", "ALLOCATED", "QUEUED", "PROCESSING", "COMPLETED", "FREE"}]
        /\ sem \in SUBSET Packets /\ req \in [Actors -> Pointer] /\ rc \in [Requesters -> BOOLEAN]
        /\ raced \in BOOLEAN /\ misread \in BOOLEAN
    BY <1>1 DEF Pointer
  <2>6. cReqFree \in Int
    BY RecycledAssumption DEF Init
  <2> QED BY <2>1, <2>2, <2>3, <2>4, <2>5, <2>6 DEF TypeInv
<1>3. PcInv
  BY <1>0, <1>1, Names DEF PcInv, Labels, InEmt
<1>4. \A r \in Requesters : Rest(r) = {} /\ JoinInv(r)
  BY <1>1, HandsEmptyFacts, Names DEF HandsEmpty
<1>5. ChainInv
  BY <1>1, <1>4, FirstChain DEF ChainInv
<1>6. PlaceInv
  <2>1. PICK k \in [Packets -> Kind], o \in [Packets -> Lists \cup Actors] :
          \A p \in Packets : k[p] = (IF p \in FreeAtFirst THEN "list" ELSE "none") /\ o[p] = 1
    <3> DEFINE f == [p \in Packets |-> IF p \in FreeAtFirst THEN "list" ELSE "none"]
               g == [p \in Packets |-> 1]
    <3>1. f \in [Packets -> Kind] /\ g \in [Packets -> Lists \cup Actors]
      BY <1>0 DEF Kind
    <3>2. \A p \in Packets : f[p] = (IF p \in FreeAtFirst THEN "list" ELSE "none") /\ g[p] = 1
      OBVIOUS
    <3> HIDE DEF f, g
    <3> QED BY <3>1, <3>2
  <2>2. \A p \in Packets, i \in Lists : p \in Chain(apReqFree[i]) <=> k[p] = "list" /\ o[p] = i
    BY <2>1, FirstChain
  <2>3. \A a \in Actors : ~Owner(a)
    BY <1>1 DEF Owner
  <2>4. Placed(k, o)
    BY <1>0, <1>1, <1>4, <2>1, <2>2, <2>3 DEF Placed
  <2> QED BY <2>4 DEF PlaceInv
<1>7. StateInv
  <2>1. \A a \in Actors : StateOf(a)
    BY <1>1 DEF StateOf, Allocating, Freeing, Waiting
  <2>2. NobodyWaits
    BY <1>1 DEF NobodyWaits, Owner
  <2> QED BY <2>1, <2>2 DEF StateInv
<1>8. SemInv
  <2>1. SignalledOnce /\ OwedOnce /\ SomebodyWaits
    BY <1>0, <1>1 DEF SignalledOnce, OwedOnce, SomebodyWaits, Pending, EmtOwesSignal
  <2>2. \A r \in Requesters : SemOf(r)
    BY <1>1, Names DEF SemOf
  <2> QED BY <2>1, <2>2 DEF SemInv
<1>9. CountInv
  <2>1. Counted = FreeAtFirst
    BY <1>1, RecycledFacts DEF Counted, Uncounted
  <2> QED BY <2>1, FreeAtFirstCounted DEF CountInv, Init
<1> QED BY <1>1, <1>2, <1>3, <1>5, <1>6, <1>7, <1>8, <1>9 DEF IInv, Core

\* What has happened stays so, and the EMT misreads flags only of a packet it has lost.
LEMMA HistoryKept ==
    ASSUME Next
    PROVE  /\ raced => raced'
           /\ misread => misread'
           /\ misread' => misread \/ (pc[EMT] = "readFlags" /\ enmState[req[EMT]] # "COMPLETED" /\ raced' = raced)
<1>1. CASE \E r \in Requesters : RequesterSteps(r)
  <2>1. ASSUME NEW r \in Requesters, RequesterSteps(r)
        PROVE  (raced => raced') /\ misread' = misread
    <3>1. CASE Result(r)
      <4>1. raced => raced'
        BY <3>1, Zenon DEF Result
      <4>2. misread' = misread
        BY <3>1 DEF Result
      <4> QED BY <4>1, <4>2
    <3>2. CASE ~Result(r)
      BY <2>1, <3>2 DEF RequesterSteps, TakeList, GiveBack, JoinXchg, JoinLink, JoinStore, JoinUnlink, JoinRetry,
         Drain, Drained, InitPacket, AllocNew, Fill, Queue, Wait, Timeout, Loop, Waited, history
    <3> QED BY <3>1, <3>2
  <2> QED BY <1>1, <2>1
<1>2. CASE (\E a \in Actors : FreeStep(a)) \/ Process \/ Complete \/ Unclear \/ Signal
  BY <1>2 DEF FreeStep, Free, FreeLook, FreeCount, FreeRead, FreePush, Process, Complete, Unclear, Signal, history
<1>3. CASE ReadFlags
  BY <1>3, Zenon DEF ReadFlags
<1> QED BY <1>1, <1>2, <1>3, Steps DEF EmtSteps

\* Every step keeps the types, whatever has happened,
LEMMA TypesKept ==
    ASSUME TypeInv, PcInv, Next
    PROVE  TypeInv' /\ PcInv'
<1>1. CASE \E r \in Requesters : RequesterSteps(r)
  BY <1>1, TypesOfRequester, OthersOfRequester
<1>2. CASE \E a \in Actors : FreeStep(a)
  BY <1>2, TypesOfOthers, OthersOfFree
<1>3. CASE EmtSteps
  BY <1>3, TypesOfOthers, OthersOfEmt
<1> QED BY <1>1, <1>2, <1>3, Steps

\* and the rest as long as the EMT reads the flags of its own request.
LEMMA CoreKept ==
    ASSUME Core, Next, ~misread'
    PROVE  Core'
<1> USE DEF Core
<1>0. TypeInv' /\ PcInv'
  BY TypesKept
<1>1. ASSUME NEW r \in Requesters, RequesterSteps(r)
      PROVE  Core'
  <2>1. Others(r)
    BY <1>1, OthersOfRequester
  <2>2. PlaceInv' /\ ChainInv'
    BY <1>0, <1>1, <2>1, PlacesOfUse, PlacesOfAllocNew, PlacesOfTakeList, PlacesOfGiveBack, PlacesOfJoinXchg,
       PlacesOfJoinLink, PlacesOfJoinStore, PlacesOfJoinUnlink, PlacesOfJoinRetry DEF RequesterSteps
  <2>3. StateInv'
    BY <1>0, <1>1, <2>1, <2>2, StateOfRequester
  <2>4. SemInv'
    BY <1>0, <1>1, <2>1, <2>3, SemOfRequester
  <2>5. CountInv'
    BY <1>0, <1>1, <2>1, <2>2, <2>3, CountKept
  <2> QED BY <1>0, <2>2, <2>3, <2>4, <2>5
<1>2. ASSUME NEW a \in Actors, FreeStep(a)
      PROVE  Core'
  <2>1. Others(a)
    BY <1>2, OthersOfFree
  <2>2. PlaceInv' /\ ChainInv'
    BY <1>0, <1>2, <2>1, PlacesOfFree, PlacesOfFreePush DEF FreeStep
  <2>3. StateInv'
    BY <1>0, <1>2, <2>1, StateOfFree
  <2>4. SemInv'
    BY <1>0, <1>2, <2>1, SemOfFree
  <2>5. CountInv'
    BY <1>0, <1>2, <2>1, <2>2, <2>3, CountKept
  <2> QED BY <1>0, <2>2, <2>3, <2>4, <2>5
<1>3. ASSUME EmtSteps
      PROVE  Core'
  <2>1. Others(EMT)
    BY <1>3, OthersOfEmt
  <2>2. PlaceInv' /\ ChainInv'
    BY <1>0, <1>3, <2>1, PlacesOfEmt
  <2>3. StateInv'
    BY <1>0, <1>3, <2>1, StateOfEmt
  <2>4. SemInv'
    BY <1>0, <1>3, <2>1, SemOfEmt
  <2>5. CountInv'
    BY <1>0, <1>3, <2>1, <2>2, <2>3, CountKept
  <2> QED BY <1>0, <2>2, <2>3, <2>4, <2>5
<1> QED BY <1>1, <1>2, <1>3, Steps

\* So every step keeps the invariant: the EMT reads wrong flags only after a race.
LEMMA NextHolds == IInv /\ [Next]_vars => IInv'
<1> SUFFICES ASSUME IInv, [Next]_vars PROVE IInv'
  OBVIOUS
<1>1. CASE Next
  <2>1. TypeInv' /\ PcInv'
    BY <1>1, TypesKept DEF IInv
  <2>2. CASE misread
    BY <1>1, <2>1, <2>2, HistoryKept DEF IInv
  <2>3. CASE ~misread /\ misread'
    <3>1. pc[EMT] = "readFlags" /\ enmState[req[EMT]] # "COMPLETED" /\ raced' = raced
      BY <1>1, <2>3, HistoryKept
    <3>2. raced
      BY <2>3, <3>1 DEF IInv, Core, SemInv, OwedOnce
    <3> QED BY <2>1, <2>3, <3>1, <3>2 DEF IInv
  <2>4. CASE ~misread'
    <3>1. Core
      BY <1>1, <2>4, HistoryKept DEF IInv
    <3> QED BY <1>1, <2>1, <2>4, <3>1, CoreKept DEF IInv
  <2> QED BY <2>2, <2>3, <2>4
<1>2. CASE UNCHANGED vars
  <2>1. TypeInv' /\ PcInv' /\ misread' = misread /\ raced' = raced
    BY <1>2 DEF vars, shared, local, history, TypeInv, PcInv, IInv
  <2>2. PlaceInv' <=> PlaceInv
    BY <1>2 DEF vars, shared, local, PlaceInv, Placed, Rest, Chain, Cut, Owner
  <2>3. ChainInv' <=> ChainInv
    BY <1>2 DEF vars, shared, local, ChainInv, JoinInv, Rest, Chain, Cut
  <2>4. StateInv' <=> StateInv
    BY <1>2 DEF vars, shared, local, history, StateInv, StateOf, NobodyWaits, Unfinished, Owner
  <2>5. SemInv' <=> SemInv
    BY <1>2 DEF vars, shared, local, history, SemInv, SignalledOnce, OwedOnce, SomebodyWaits, SemOf, Pending,
          EmtOwesSignal, Witness
  <2>6. CountInv' <=> CountInv
    BY <1>2 DEF vars, shared, local, CountInv, Counted
  <2> QED BY <2>1, <2>2, <2>3, <2>4, <2>5, <2>6 DEF IInv, Core
<1> QED BY <1>1, <1>2

\* The inductive invariant holds: as long as the EMT reads the flags of its own request,
\* every packet has one place and one owner and chains end; it reads those of another only
\* after a timed wait has ended between a completion and its signal, and until then
\* semaphores tell the truth.
THEOREM Inductive == Spec => []IInv
<1> QED BY InitHolds, NextHolds, PTL DEF Spec

-----------------------------------------------------------------------------
(* What follows from it *)

\* Every variable has its type, and the count of free packets, which is decremented and
\* incremented apart from the lists, is not negative before the EMT has freed a packet
\* that is not its own.
THEOREM TypeCorrect == Spec => []TypeOK
<1>1. IInv => TypeOK
  <2> SUFFICES ASSUME IInv PROVE TypeOK
    OBVIOUS
  <2>1. cReqFree \in Int /\ (cReqFree < 0 => misread)
    BY CountedFinite DEF IInv, Core, TypeInv, CountInv
  <2>2. \A a \in Actors : pc[a] # "idle" => req[a] # NIL
    BY Names DEF IInv, PcInv
  <2> QED BY <2>1, <2>2 DEF IInv, TypeInv, TypeOK, Pointer, Links
<1> QED BY <1>1, Inductive, PTL

\* VMR3ReqWait succeeds for a completed request only, whatever semaphores were left
\* signalled by earlier uses of the packet, but for timed waits after the race and for a
\* packet with two owners.
THEOREM WaitAlwaysTruthful == Spec => []WaitTruthful
<1>1. IInv => WaitTruthful
  BY Names DEF IInv, Core, StateInv, StateOf, WaitTruthful, Actors
<1> QED BY <1>1, Inductive, PTL

\* The EMT signals a packet somebody waits on, as long as no timed wait has ended between
\* the completion of a request and its signal.
THEOREM SignalAlwaysFindsWaiter == Spec => []SignalFindsWaiter
<1>1. IInv => SignalFindsWaiter
  BY DEF IInv, Core, SemInv, SomebodyWaits, Pending, Witness, SignalFindsWaiter
<1> QED BY <1>1, Inductive, PTL

\* A chain that is cut somewhere has no packets the whole one has not.
LEMMA CutShrinks ==
    ASSUME NEW next \in Links, NEW p \in Pointer, NEW t \in Packets
    PROVE  Reachable([next EXCEPT ![t] = NIL], p) \subseteq Reachable(next, p)
<1> DEFINE cut == [next EXCEPT ![t] = NIL]
<1>1. CASE p = NIL
  BY <1>1, ReachableBasics
<1>2. CASE p # NIL
  <2>1. p \in Packets
    BY <1>2 DEF Pointer
  <2>2. Closed(next, Reachable(next, p))
    BY ReachableClosed
  <2>3. \A x \in Packets : cut[x] = next[x] \/ cut[x] = NIL
    BY DEF Links
  <2> HIDE DEF cut
  <2>4. Closed(cut, Reachable(next, p))
    BY <2>2, <2>3, ReachableBasics DEF Closed
  <2>5. Reachable(cut, p) \subseteq Reachable(next, p)
    BY <2>1, <2>4, ReachableLeast, ReachableBasics
  <2> QED BY <2>5 DEF cut
<1> QED BY <1>1, <1>2

\* What a requester has in hand is on the chain it is about to put on a list.
LEMMA RestOnChain ==
    ASSUME Core, NEW r \in Requesters, NEW p \in Rest(r)
    PROVE  \/ pc[r] = "giveBack" /\ p \in Chain(req[r])
           \/ pc[r] = "joinXchg" /\ p \in Chain(pRest[r])
           \/ pc[r] \in {"joinLink", "joinStore", "joinUnlink", "joinRetry"} /\ p \in Chain(pHead[r])
<1>0. pNext \in Links /\ pHead[r] \in Pointer /\ r \in Actors
  BY Names DEF Core, TypeInv, Actors
<1>1. CASE pc[r] = "giveBack"
  <2>1. req[r] \in Packets
    BY <1>0, <1>1 DEF Core, PcInv
  <2>2. p \in Reachable(pNext, pNext[req[r]])
    BY <1>1 DEF Rest, Chain
  <2> QED BY <1>0, <1>1, <2>1, <2>2, ReachableStep DEF Chain
<1>2. CASE pc[r] \in {"joinStore", "joinUnlink"}
  <2>1. pOld[r] \in Packets
    BY <1>2, ReachableBasics DEF Core, ChainInv, JoinInv, Rest
  <2>2. p \in Reachable([pNext EXCEPT ![pOld[r]] = NIL], pHead[r])
    BY <1>2 DEF Rest, Cut
  <2> QED BY <1>0, <1>2, <2>1, <2>2, CutShrinks DEF Chain
<1>3. CASE pc[r] \notin {"giveBack", "joinStore", "joinUnlink"}
  BY <1>3 DEF Rest
<1> QED BY <1>1, <1>2, <1>3

\* Of the packets somebody works on without their being counted there is one per actor.
LEMMA UncountedByActor ==
    ASSUME Core
    PROVE  LET A == {a \in Actors : pc[a] \in Uncounted}
               U == {p \in Packets : enmState[p] = "FREE"} \ Counted
           IN  IsFiniteSet(A) /\ Cardinality(A) = Cardinality(U)
<1> DEFINE A == {a \in Actors : pc[a] \in Uncounted}
           U == {p \in Packets : enmState[p] = "FREE"} \ Counted
           f == [a \in A |-> req[a]]
<1>1. \A a \in A : a \in Actors /\ Owner(a) /\ req[a] \in Packets /\ enmState[req[a]] = "FREE"
  BY DEF Core, PcInv, StateInv, StateOf, Uncounted, Owner, Freeing, Allocating, InEmt
<1>2. \A p : p \in U <=> \E a \in A : req[a] = p
  BY <1>1 DEF Counted
<1>3. \A a, b \in A : req[a] = req[b] => a = b
  <2>1. PICK k \in [Packets -> Kind], o \in [Packets -> Lists \cup Actors] : Placed(k, o)
    BY DEF Core, PlaceInv
  <2>2. \A a \in A : o[req[a]] = a
    BY <1>1, <2>1 DEF Placed
  <2> QED BY <2>2
<1>4. IsFiniteSet(A)
  <2>1. IsFiniteSet(Actors)
    BY FiniteAssumption, FS_AddElement DEF Actors
  <2> QED BY <2>1, FS_Subset
<1> HIDE DEF A, U
<1>5. f \in Bijection(A, U)
  <2>1. f \in [A -> U]
    BY <1>2
  <2>2. f \in Injection(A, U)
    BY <1>3, <2>1 DEF Injection, IsInjective
  <2>3. f \in Surjection(A, U)
    BY <1>2, <2>1 DEF Surjection
  <2> QED BY <2>2, <2>3 DEF Bijection
<1>6. ExistsBijection(A, U)
  BY <1>5 DEF ExistsBijection
<1>7. Cardinality(A) = Cardinality(U)
  BY <1>4, <1>6, FS_Bijection
<1> QED BY <1>4, <1>7 DEF A, U

\* As long as the EMT reads the flags of its own request, every packet is accounted for.
LEMMA AccountedByCore ==
    ASSUME Core
    PROVE  FreeListsSound /\ OneHolder /\ NoneLost /\ FreeAreCounted
<1>0. PICK k \in [Packets -> Kind], o \in [Packets -> Lists \cup Actors] : Placed(k, o)
  BY DEF Core, PlaceInv
<1>1. FreeListsSound
  <2> SUFFICES ASSUME NEW i \in Lists
               PROVE  /\ Chain(apReqFree[i]) # {} => \E p \in Chain(apReqFree[i]) : pNext[p] = NIL
                      /\ \A p \in Chain(apReqFree[i]) : enmState[p] = "FREE"
                      /\ \A j \in Lists \ {i} : Chain(apReqFree[i]) \cap Chain(apReqFree[j]) = {}
    BY DEF FreeListsSound
  <2>1. \A j \in Lists : \A p \in Chain(apReqFree[j]) : p \in Packets /\ k[p] = "list" /\ o[p] = j
    BY <1>0, ReachableBasics DEF Placed, Chain
  <2>2. Chain(apReqFree[i]) # {} => \E p \in Chain(apReqFree[i]) : pNext[p] = NIL
    BY ReachableBasics DEF Core, ChainInv, Ends, Chain
  <2>3. \A p \in Chain(apReqFree[i]) : enmState[p] = "FREE"
    BY <1>0, <2>1 DEF Placed
  <2> QED BY <2>1, <2>2, <2>3
<1>2. OneHolder
  <2> SUFFICES ASSUME NEW r \in Requesters, req[r] # NIL
               PROVE  /\ \A i \in Lists : req[r] \notin Chain(apReqFree[i])
                      /\ \A q \in Requesters \ {r} : req[q] # req[r]
                      /\ pc[EMT] \in {"free", "freeLook", "freeCount", "freeRead", "freePush"} =>
                            req[EMT] # req[r]
    BY DEF OneHolder
  <2>1. \A q \in Requesters : q \in Actors /\ q # EMT /\ (req[q] # NIL => Owner(q))
    BY Names DEF Core, StateInv, StateOf, Owner, Actors
  <2>2. req[r] \in Packets
    BY <2>1 DEF Core, TypeInv, Pointer
  <2>3. k[req[r]] = "own" /\ o[req[r]] = r
    BY <1>0, <2>1, <2>2 DEF Placed
  <2>4. \A i \in Lists : req[r] \notin Chain(apReqFree[i])
    BY <1>0, <2>2, <2>3 DEF Placed
  <2>5. \A a \in Actors : Owner(a) /\ req[a] = req[r] => a = r
    BY <1>0, <2>2, <2>3 DEF Placed
  <2>6. EMT \in Actors /\ (pc[EMT] \in {"free", "freeLook", "freeCount", "freeRead", "freePush"} => Owner(EMT))
    BY DEF Owner, Freeing, Actors
  <2> QED BY <2>1, <2>4, <2>5, <2>6
<1>3. NoneLost
  <2> SUFFICES ASSUME NEW p \in Packets, enmState[p] = "FREE"
               PROVE  \/ \E i \in Lists : p \in Chain(apReqFree[i])
                      \/ \E a \in Actors : req[a] = p
                      \/ \E r \in Requesters : p \in Rest(r)
    BY RestOnChain DEF NoneLost
  <2>1. k[p] \in {"list", "rest", "own"}
    BY <1>0 DEF Placed, Kind
  <2> QED BY <1>0, <2>1 DEF Placed
<1>4. FreeAreCounted
  <2> DEFINE F == {p \in Packets : enmState[p] = "FREE"}
             A == {a \in Actors : pc[a] \in Uncounted}
  <2>1. IsFiniteSet(F) /\ Counted \subseteq F
    BY FiniteAssumption, FS_Subset DEF Counted
  <2>2. IsFiniteSet(Counted)
    BY <2>1, FS_Subset
  <2>3. IsFiniteSet(A) /\ Cardinality(A) = Cardinality(F \ Counted)
    BY UncountedByActor
  <2>4. F \cap Counted = Counted
    BY <2>1
  <2>5. cReqFree = Cardinality(Counted)
    BY DEF Core, CountInv
  <2> HIDE DEF F, A
  <2>6. Cardinality(F \ Counted) = Cardinality(F) - Cardinality(F \cap Counted)
    BY <2>1, FS_Difference
  <2>7. Cardinality(F) \in Nat /\ Cardinality(Counted) \in Nat
    BY <2>1, <2>2, FS_CardinalityType
  <2>8. Cardinality(A) = Cardinality(F) - Cardinality(Counted)
    BY <2>3, <2>4, <2>6
  <2>9. cReqFree = Cardinality(F) - Cardinality(A)
    BY <2>5, <2>7, <2>8
  <2> QED BY <2>9 DEF F, A, FreeAreCounted, Uncounted
<1> QED BY <1>1, <1>2, <1>3, <1>4

\* The lock-free free lists keep every packet: their chains end and have nothing in
\* common, a packet that is handed out is on none of them and has one holder, none is
\* lost between the lists, and cReqFree counts them; unless the EMT has freed a packet
\* under its owner, which takes a timed wait that ends between completion and signal.
THEOREM PacketsAlwaysAccounted == Spec => []PacketsAccounted
<1>1. IInv => PacketsAccounted
  BY AccountedByCore DEF IInv, PacketsAccounted
<1> QED BY <1>1, Inductive, PTL

=============================================================================
