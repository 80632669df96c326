----------------------------- MODULE ListLemmas -----------------------------
(***************************************************************************)
(* Lemmas about lists that the proofs about requests and items share:      *)
(* what is on a list, and that nothing is on it twice, when lists are      *)
(* joined, reversed or taken apart.                                        *)
(***************************************************************************)
EXTENDS Integers, Sequences, SequencesExt, SequenceTheorems, TLAPS

\* The empty list has no elements, and none twice.
LEMMA EmptyList == \A S : <<>> \in Seq(S) /\ ToSet(<<>>) = {} /\ IsInjective(<<>>)
BY EmptySeq DEF ToSet, IsInjective

\* A list of one.
LEMMA OneElement == \A S : \A x \in S : <<x>> \in Seq(S) /\ ToSet(<<x>>) = {x} /\ IsInjective(<<x>>)
<1> SUFFICES ASSUME NEW S, NEW x \in S PROVE <<x>> \in Seq(S) /\ ToSet(<<x>>) = {x} /\ IsInjective(<<x>>)
  OBVIOUS
<1>1. <<x>> \in Seq(S) /\ DOMAIN <<x>> = {1} /\ <<x>>[1] = x
  OBVIOUS
<1> HIDE DEF IsInjective
<1> QED BY <1>1 DEF ToSet, IsInjective

\* Two lists, one behind the other.
LEMMA JoinedLists ==
    ASSUME NEW S, NEW s \in Seq(S), NEW u \in Seq(S)
    PROVE  /\ s \o u \in Seq(S)
           /\ ToSet(s \o u) = ToSet(s) \cup ToSet(u)
           /\ IsInjective(s) /\ IsInjective(u) /\ ToSet(s) \cap ToSet(u) = {} => IsInjective(s \o u)
<1> DEFINE c == s \o u
<1>1. /\ c \in Seq(S) /\ Len(c) = Len(s) + Len(u)
      /\ \A i \in 1 .. Len(s) + Len(u) : c[i] = IF i <= Len(s) THEN s[i] ELSE u[i - Len(s)]
  BY ConcatProperties
<1>2. /\ DOMAIN s = 1 .. Len(s) /\ DOMAIN u = 1 .. Len(u) /\ DOMAIN c = 1 .. Len(s) + Len(u)
      /\ Len(s) \in Nat /\ Len(u) \in Nat
  BY <1>1
<1> HIDE DEF c
<1>3. ToSet(c) = ToSet(s) \cup ToSet(u)
  <2>1. ASSUME NEW y \in ToSet(c) PROVE y \in ToSet(s) \cup ToSet(u)
    <3>1. PICK i \in 1 .. Len(s) + Len(u) : y = c[i]
      BY <1>2 DEF ToSet
    <3>2. CASE i <= Len(s)
      BY <3>1, <3>2, <1>1, <1>2 DEF ToSet
    <3>3. CASE ~(i <= Len(s))
      <4>1. i - Len(s) \in 1 .. Len(u) /\ y = u[i - Len(s)]
        BY <3>1, <3>3, <1>1, <1>2
      <4> QED BY <4>1, <1>2 DEF ToSet
    <3> QED BY <3>2, <3>3
  <2>2. ASSUME NEW y \in ToSet(s) PROVE y \in ToSet(c)
    <3>1. PICK i \in 1 .. Len(s) : y = s[i]
      BY <1>2 DEF ToSet
    <3>2. i \in 1 .. Len(s) + Len(u) /\ y = c[i]
      BY <3>1, <1>1, <1>2
    <3> QED BY <3>2, <1>2 DEF ToSet
  <2>3. ASSUME NEW y \in ToSet(u) PROVE y \in ToSet(c)
    <3>1. PICK i \in 1 .. Len(u) : y = u[i]
      BY <1>2 DEF ToSet
    <3>2. i + Len(s) \in 1 .. Len(s) + Len(u) /\ ~(i + Len(s) <= Len(s)) /\ (i + Len(s)) - Len(s) = i
      BY <1>2
    <3>3. y = c[i + Len(s)]
      BY <3>1, <3>2, <1>1
    <3> QED BY <3>2, <3>3, <1>2 DEF ToSet
  <2> QED BY <2>1, <2>2, <2>3
<1>4. ASSUME IsInjective(s), IsInjective(u), ToSet(s) \cap ToSet(u) = {} PROVE IsInjective(c)
  <2>1. /\ \A i, j \in 1 .. Len(s) : s[i] = s[j] => i = j
        /\ \A i, j \in 1 .. Len(u) : u[i] = u[j] => i = j
    BY <1>4, <1>2 DEF IsInjective
  <2>3. ASSUME NEW i \in 1 .. Len(s), NEW j \in 1 .. Len(u) PROVE s[i] # u[j]
    <3>1. s[i] \in ToSet(s) /\ u[j] \in ToSet(u)
      BY <1>2 DEF ToSet
    <3> QED BY <3>1, <1>4
  <2>2. ASSUME NEW i \in 1 .. Len(s) + Len(u), NEW j \in 1 .. Len(s) + Len(u), c[i] = c[j] PROVE i = j
    <3>1. /\ i <= Len(s) => i \in 1 .. Len(s) /\ c[i] = s[i]
          /\ ~(i <= Len(s)) => i - Len(s) \in 1 .. Len(u) /\ c[i] = u[i - Len(s)]
      BY <1>1, <1>2
    <3>2. /\ j <= Len(s) => j \in 1 .. Len(s) /\ c[j] = s[j]
          /\ ~(j <= Len(s)) => j - Len(s) \in 1 .. Len(u) /\ c[j] = u[j - Len(s)]
      BY <1>1, <1>2
    <3>3. ~(i <= Len(s)) /\ ~(j <= Len(s)) => i - Len(s) = j - Len(s)
      BY <3>1, <3>2, <2>1, <2>2
    <3> QED BY <3>1, <3>2, <3>3, <2>1, <2>2, <2>3, <1>2
  <2> QED BY <2>2, <1>2 DEF IsInjective
<1> QED BY <1>1, <1>3, <1>4 DEF c

\* A list with one more element in front.
LEMMA PushedOnList ==
    ASSUME NEW S, NEW s \in Seq(S), NEW x \in S
    PROVE  /\ <<x>> \o s \in Seq(S) /\ ToSet(<<x>> \o s) = ToSet(s) \cup {x}
           /\ IsInjective(s) /\ x \notin ToSet(s) => IsInjective(<<x>> \o s)
<1>1. <<x>> \in Seq(S) /\ ToSet(<<x>>) = {x} /\ IsInjective(<<x>>)
  BY OneElement
<1>2. PICK y \in Seq(S) : y = <<x>>
  BY <1>1
<1>3. /\ y \o s \in Seq(S) /\ ToSet(y \o s) = ToSet(y) \cup ToSet(s)
      /\ IsInjective(y) /\ IsInjective(s) /\ ToSet(y) \cap ToSet(s) = {} => IsInjective(y \o s)
  BY JoinedLists
<1>4. ToSet(y) = {x} /\ IsInjective(y)
  BY <1>1, <1>2
<1>5. /\ y \o s \in Seq(S) /\ ToSet(y \o s) = ToSet(s) \cup {x}
      /\ IsInjective(s) /\ x \notin ToSet(s) => IsInjective(y \o s)
  BY <1>3, <1>4
<1> QED BY <1>2, <1>5

\* A list in reverse order.
LEMMA ReversedList ==
    ASSUME NEW S, NEW s \in Seq(S)
    PROVE  /\ Reverse(s) \in Seq(S) /\ Len(Reverse(s)) = Len(s)
           /\ \A i \in 1 .. Len(s) : Reverse(s)[i] = s[(Len(s) - i) + 1]
           /\ s # <<>> => Reverse(s) # <<>>
           /\ ToSet(Reverse(s)) = ToSet(s)
           /\ IsInjective(s) => IsInjective(Reverse(s))
<1> DEFINE r == Reverse(s)
<1>1. Len(s) \in Nat /\ r = [i \in 1 .. Len(s) |-> s[(Len(s) - i) + 1]] /\ DOMAIN s = 1 .. Len(s)
  BY DEF Reverse
<1>2. \A i \in 1 .. Len(s) : (Len(s) - i) + 1 \in 1 .. Len(s) /\ (Len(s) - ((Len(s) - i) + 1)) + 1 = i
  BY <1>1
<1>3. \A i \in 1 .. Len(s) : s[i] \in S
  BY <1>1
<1>4. r \in Seq(S) /\ Len(r) = Len(s) /\ DOMAIN r = 1 .. Len(s) /\ \A i \in 1 .. Len(s) : r[i] = s[(Len(s) - i) + 1]
  BY <1>1, <1>2, <1>3
<1> HIDE DEF r
<1>5. ToSet(r) = ToSet(s)
  <2>1. ASSUME NEW y \in ToSet(r) PROVE y \in ToSet(s)
    BY <1>1, <1>2, <1>4 DEF ToSet
  <2>2. ASSUME NEW y \in ToSet(s) PROVE y \in ToSet(r)
    <3>1. PICK i \in 1 .. Len(s) : y = s[i]
      BY <1>1 DEF ToSet
    <3>2. (Len(s) - i) + 1 \in DOMAIN r /\ r[(Len(s) - i) + 1] = y
      BY <3>1, <1>2, <1>4
    <3> QED BY <3>2 DEF ToSet
  <2> QED BY <2>1, <2>2
<1>6. ASSUME IsInjective(s) PROVE IsInjective(r)
  <2> SUFFICES ASSUME NEW i \in 1 .. Len(s), NEW j \in 1 .. Len(s), r[i] = r[j] PROVE i = j
    BY <1>4 DEF IsInjective
  <2>1. (Len(s) - i) + 1 = (Len(s) - j) + 1
    BY <1>1, <1>2, <1>4, <1>6 DEF IsInjective
  <2> QED BY <2>1, <1>1
<1>7. s # <<>> => r # <<>>
  BY <1>4
<1> QED BY <1>4, <1>5, <1>6, <1>7 DEF r

\* A list without its first element.
LEMMA TailOfList ==
    ASSUME NEW S, NEW s \in Seq(S), s # <<>>
    PROVE  /\ Head(s) \in S /\ Head(s) \in ToSet(s) /\ Tail(s) \in Seq(S)
           /\ IsInjective(s) => IsInjective(Tail(s)) /\ ToSet(Tail(s)) = ToSet(s) \ {Head(s)}
<1> DEFINE t == Tail(s)
<1>1. /\ Len(s) \in Nat \ {0} /\ DOMAIN s = 1 .. Len(s) /\ Head(s) = s[1] /\ s[1] \in S
      /\ t \in Seq(S) /\ Len(t) = Len(s) - 1 /\ \A i \in 1 .. Len(s) - 1 : t[i] = s[i + 1]
  BY EmptySeq
<1>2. DOMAIN t = 1 .. Len(s) - 1 /\ \A i \in 1 .. Len(s) - 1 : i + 1 \in 1 .. Len(s) /\ i + 1 # 1
  BY <1>1
<1> HIDE DEF t
<1>3. Head(s) \in ToSet(s)
  BY <1>1 DEF ToSet
<1>4. ASSUME IsInjective(s) PROVE IsInjective(t) /\ ToSet(t) = ToSet(s) \ {Head(s)}
  <2>1. \A i, j \in 1 .. Len(s) : s[i] = s[j] => i = j
    BY <1>4, <1>1 DEF IsInjective
  <2>2. ASSUME NEW i \in 1 .. Len(s) - 1, NEW j \in 1 .. Len(s) - 1, t[i] = t[j] PROVE i = j
    <3>1. i + 1 = j + 1
      BY <1>1, <1>2, <2>1, <2>2
    <3> QED BY <3>1
  <2>3. ASSUME NEW y \in ToSet(t) PROVE y \in ToSet(s) \ {Head(s)}
    BY <1>1, <1>2, <2>1 DEF ToSet
  <2>4. ASSUME NEW y \in ToSet(s) \ {Head(s)} PROVE y \in ToSet(t)
    <3>1. PICK i \in 1 .. Len(s) : y = s[i] /\ i # 1
      BY <1>1 DEF ToSet
    <3>2. i - 1 \in 1 .. Len(s) - 1 /\ (i - 1) + 1 = i
      BY <1>1, <3>1
    <3>3. t[i - 1] = y
      BY <1>1, <3>1, <3>2
    <3> QED BY <1>2, <3>2, <3>3 DEF ToSet
  <2> QED BY <1>2, <2>2, <2>3, <2>4 DEF IsInjective
<1> QED BY <1>1, <1>3, <1>4 DEF t

\* A list without its last element, and that element.
LEMMA ChoppedList ==
    ASSUME NEW S, NEW s \in Seq(S), s # <<>>
    PROVE  /\ Last(s) \in S /\ Front(s) \in Seq(S)
           /\ Append(Front(s), Last(s)) = s
           /\ ToSet(s) = ToSet(Front(s)) \cup {Last(s)}
           /\ Len(s) <= 1 => Front(s) = <<>>
           /\ IsInjective(s) => IsInjective(Front(s)) /\ Last(s) \notin ToSet(Front(s))
<1> DEFINE f == Front(s)
           x == Last(s)
<1>1. Len(s) \in Nat \ {0} /\ DOMAIN s = 1 .. Len(s) /\ x = s[Len(s)] /\ x \in S
  BY EmptySeq DEF Last
<1>2. f \in Seq(S) /\ Len(f) = Len(s) - 1 /\ \A i \in 1 .. Len(s) - 1 : f[i] = s[i]
  BY <1>1 DEF Front
<1>3. DOMAIN f = 1 .. Len(s) - 1
  BY <1>2
<1> HIDE DEF f, x
<1>4. Append(f, x) = s
  <2>0. f \in Seq(S) /\ x \in S
    BY <1>1, <1>2
  <2>1. /\ Append(f, x) \in Seq(S) /\ Len(Append(f, x)) = Len(f) + 1
        /\ \A i \in 1 .. Len(f) : Append(f, x)[i] = f[i]
        /\ Append(f, x)[Len(f) + 1] = x
    BY <2>0, AppendProperties
  <2>2. Len(Append(f, x)) = Len(s)
    BY <2>1, <1>1, <1>2
  <2>3. ASSUME NEW i \in 1 .. Len(s) PROVE Append(f, x)[i] = s[i]
    BY <2>1, <1>1, <1>2
  <2> QED BY <2>1, <2>2, <2>3, SeqEqual
<1>5. ToSet(s) = ToSet(f) \cup {x}
  <2>1. ASSUME NEW y \in ToSet(s) PROVE y \in ToSet(f) \cup {x}
    <3>1. PICK i \in 1 .. Len(s) : y = s[i]
      BY <1>1 DEF ToSet
    <3>2. CASE i = Len(s)
      BY <3>1, <3>2, <1>1
    <3>3. CASE i # Len(s)
      <4>0. Len(s) \in Nat /\ i \in 1 .. Len(s)
        BY <3>1, <1>1
      <4>1. i \in 1 .. Len(s) - 1
        BY <4>0, <3>3
      <4>2. y = f[i]
        BY <4>1, <3>1, <1>2
      <4> QED BY <4>1, <4>2, <1>3 DEF ToSet
    <3> QED BY <3>2, <3>3
  <2>2. ASSUME NEW y \in ToSet(f) PROVE y \in ToSet(s)
    BY <1>1, <1>2, <1>3 DEF ToSet
  <2>3. x \in ToSet(s)
    BY <1>1 DEF ToSet
  <2> QED BY <2>1, <2>2, <2>3
<1>6. Len(s) <= 1 => f = <<>>
  BY <1>1, <1>2, EmptySeq
<1>7. ASSUME IsInjective(s) PROVE IsInjective(f) /\ x \notin ToSet(f)
  <2>1. \A i, j \in 1 .. Len(s) : s[i] = s[j] => i = j
    BY <1>7, <1>1 DEF IsInjective
  <2>2. \A i, j \in 1 .. Len(s) - 1 : f[i] = f[j] => i = j
    BY <2>1, <1>1, <1>2
  <2>3. \A i \in 1 .. Len(s) - 1 : f[i] # x
    BY <2>1, <1>1, <1>2
  <2> QED BY <2>2, <2>3, <1>3 DEF IsInjective, ToSet
<1> QED BY <1>1, <1>2, <1>4, <1>5, <1>6, <1>7 DEF f, x

-----------------------------------------------------------------------------
(* The order on a list *)

\* x is somewhere before y.
Precedes(s, x, y) == \E i, j \in DOMAIN s : i < j /\ s[i] = x /\ s[j] = y

\* What precedes or follows is on the list; on a list that has nothing twice, nothing
\* precedes itself or the first element.
LEMMA PrecedesOnList ==
    ASSUME NEW S, NEW s \in Seq(S), NEW x, NEW y, Precedes(s, x, y)
    PROVE  x \in ToSet(s) /\ y \in ToSet(s) /\ (IsInjective(s) => x # y /\ y # Head(s))
<1>1. PICK i, j \in 1 .. Len(s) : i < j /\ s[i] = x /\ s[j] = y
  BY DEF Precedes
<1>2. DOMAIN s = 1 .. Len(s) /\ Head(s) = s[1] /\ 1 \in 1 .. Len(s) /\ Len(s) \in Nat
  BY <1>1
<1>3. x \in ToSet(s) /\ y \in ToSet(s)
  BY <1>1, <1>2 DEF ToSet
<1>4. ASSUME IsInjective(s) PROVE x # y /\ y # Head(s)
  <2>1. \A k, l \in 1 .. Len(s) : s[k] = s[l] => k = l
    BY <1>2, <1>4 DEF IsInjective
  <2> QED BY <1>1, <1>2, <2>1
<1> QED BY <1>3, <1>4

\* The order on two lists, one behind the other.
LEMMA PrecedesJoined ==
    ASSUME NEW S, NEW s \in Seq(S), NEW u \in Seq(S), NEW x, NEW y
    PROVE  /\ Precedes(s, x, y) => Precedes(s \o u, x, y)
           /\ Precedes(u, x, y) => Precedes(s \o u, x, y)
           /\ x \in ToSet(s) /\ y \in ToSet(u) => Precedes(s \o u, x, y)
<1> DEFINE c == s \o u
<1>1. /\ c \in Seq(S) /\ Len(c) = Len(s) + Len(u)
      /\ \A i \in 1 .. Len(s) + Len(u) : c[i] = IF i <= Len(s) THEN s[i] ELSE u[i - Len(s)]
  BY ConcatProperties
<1>2. /\ DOMAIN s = 1 .. Len(s) /\ DOMAIN u = 1 .. Len(u) /\ DOMAIN c = 1 .. Len(s) + Len(u)
      /\ Len(s) \in Nat /\ Len(u) \in Nat
  BY <1>1
<1> HIDE DEF c
<1>3. \A i \in 1 .. Len(s) : i \in DOMAIN c /\ c[i] = s[i]
  BY <1>1, <1>2
<1>4. ASSUME NEW i \in 1 .. Len(u) PROVE i + Len(s) \in DOMAIN c /\ c[i + Len(s)] = u[i]
  <2>1. i + Len(s) \in 1 .. Len(s) + Len(u) /\ ~(i + Len(s) <= Len(s)) /\ (i + Len(s)) - Len(s) = i
    BY <1>2
  <2> QED BY <1>1, <1>2, <2>1
<1>5. ASSUME Precedes(s, x, y) PROVE Precedes(c, x, y)
  BY <1>2, <1>3, <1>5 DEF Precedes
<1>6. ASSUME Precedes(u, x, y) PROVE Precedes(c, x, y)
  <2>1. PICK i, j \in 1 .. Len(u) : i < j /\ u[i] = x /\ u[j] = y
    BY <1>2, <1>6 DEF Precedes
  <2>2. i + Len(s) < j + Len(s)
    BY <1>2, <2>1
  <2> QED BY <1>4, <2>1, <2>2 DEF Precedes
<1>7. ASSUME x \in ToSet(s), y \in ToSet(u) PROVE Precedes(c, x, y)
  <2>1. PICK i \in 1 .. Len(s) : s[i] = x
    BY <1>2, <1>7 DEF ToSet
  <2>2. PICK j \in 1 .. Len(u) : u[j] = y
    BY <1>2, <1>7 DEF ToSet
  <2>3. i < j + Len(s)
    BY <1>2
  <2> QED BY <1>3, <1>4, <2>1, <2>2, <2>3 DEF Precedes
<1> QED BY <1>5, <1>6, <1>7 DEF c

\* A list in reverse order has the reverse order.
LEMMA PrecedesReversed ==
    ASSUME NEW S, NEW s \in Seq(S), NEW x, NEW y, Precedes(s, y, x)
    PROVE  Precedes(Reverse(s), x, y)
<1> DEFINE r == Reverse(s)
<1>1. r \in Seq(S) /\ Len(r) = Len(s) /\ \A i \in 1 .. Len(s) : r[i] = s[(Len(s) - i) + 1]
  BY ReversedList
<1>2. DOMAIN s = 1 .. Len(s) /\ DOMAIN r = 1 .. Len(s) /\ Len(s) \in Nat
  BY <1>1
<1> HIDE DEF r
<1>3. PICK i, j \in 1 .. Len(s) : i < j /\ s[i] = y /\ s[j] = x
  BY <1>2 DEF Precedes
<1>4. ASSUME NEW k \in 1 .. Len(s) PROVE (Len(s) - k) + 1 \in 1 .. Len(s) /\ r[(Len(s) - k) + 1] = s[k]
  <2>1. (Len(s) - k) + 1 \in 1 .. Len(s) /\ (Len(s) - ((Len(s) - k) + 1)) + 1 = k
    BY <1>2
  <2> QED BY <1>1, <2>1
<1>5. (Len(s) - j) + 1 < (Len(s) - i) + 1
  BY <1>2, <1>3
<1>6. Precedes(r, x, y)
  BY <1>2, <1>3, <1>4, <1>5 DEF Precedes
<1> QED BY <1>6 DEF r

\* The order on a list without its first element.
LEMMA PrecedesTail ==
    ASSUME NEW S, NEW s \in Seq(S), s # <<>>, NEW x, NEW y
    PROVE  /\ Precedes(Tail(s), x, y) => Precedes(s, x, y)
           /\ Precedes(s, x, y) /\ x # Head(s) => Precedes(Tail(s), x, y)
           /\ y \in ToSet(Tail(s)) => Precedes(s, Head(s), y)
           /\ y \in ToSet(s) => y = Head(s) \/ Precedes(s, Head(s), y)
<1> DEFINE t == Tail(s)
<1>1. /\ Len(s) \in Nat \ {0} /\ DOMAIN s = 1 .. Len(s) /\ Head(s) = s[1]
      /\ t \in Seq(S) /\ Len(t) = Len(s) - 1 /\ \A i \in 1 .. Len(s) - 1 : t[i] = s[i + 1]
  BY EmptySeq
<1>2. DOMAIN t = 1 .. Len(s) - 1
  BY <1>1
<1> HIDE DEF t
<1>3. \A i \in DOMAIN t : i + 1 \in DOMAIN s /\ 1 < i + 1 /\ s[i + 1] = t[i]
  BY <1>1, <1>2
<1>4. \A i \in DOMAIN s : i # 1 => i - 1 \in DOMAIN t /\ t[i - 1] = s[i]
  <2> SUFFICES ASSUME NEW i \in 1 .. Len(s), i # 1 PROVE i - 1 \in DOMAIN t /\ t[i - 1] = s[i]
    BY <1>1
  <2>1. i - 1 \in 1 .. Len(s) - 1 /\ (i - 1) + 1 = i
    BY <1>1
  <2> QED BY <1>1, <1>2, <2>1
<1>5. ASSUME Precedes(t, x, y) PROVE Precedes(s, x, y)
  <2>1. PICK i, j \in DOMAIN t : i < j /\ t[i] = x /\ t[j] = y
    BY <1>5 DEF Precedes
  <2>2. i + 1 < j + 1
    BY <1>1, <1>2, <2>1
  <2> QED BY <1>3, <2>1, <2>2 DEF Precedes
<1>6. ASSUME Precedes(s, x, y), x # Head(s) PROVE Precedes(t, x, y)
  <2>1. PICK i, j \in DOMAIN s : i < j /\ s[i] = x /\ s[j] = y
    BY <1>6 DEF Precedes
  <2>2. i # 1 /\ j # 1 /\ i - 1 < j - 1
    BY <1>1, <1>6, <2>1
  <2> QED BY <1>4, <2>1, <2>2 DEF Precedes
<1>7. 1 \in DOMAIN s
  BY <1>1
<1>8. ASSUME y \in ToSet(t) PROVE Precedes(s, Head(s), y)
  BY <1>1, <1>3, <1>7, <1>8 DEF ToSet, Precedes
<1>9. ASSUME y \in ToSet(s), y # Head(s) PROVE Precedes(s, Head(s), y)
  <2>1. PICK i \in DOMAIN s : s[i] = y
    BY <1>9 DEF ToSet
  <2>2. 1 < i
    BY <1>1, <1>9, <2>1
  <2> QED BY <1>1, <1>7, <2>1, <2>2 DEF Precedes
<1> QED BY <1>5, <1>6, <1>8, <1>9 DEF t

\* The order on a list with one more element behind.
LEMMA PrecedesAppended ==
    ASSUME NEW S, NEW s \in Seq(S), NEW z \in S, NEW x, NEW y
    PROVE  /\ ToSet(Append(s, z)) = ToSet(s) \cup {z}
           /\ Precedes(Append(s, z), x, y) => Precedes(s, x, y) \/ (x \in ToSet(s) /\ y = z)
<1> DEFINE a == Append(s, z)
<1>1. a \in Seq(S) /\ Len(a) = Len(s) + 1 /\ (\A i \in 1 .. Len(s) : a[i] = s[i]) /\ a[Len(s) + 1] = z
  BY AppendProperties
<1>2. DOMAIN s = 1 .. Len(s) /\ DOMAIN a = 1 .. Len(s) + 1 /\ Len(s) \in Nat
  BY <1>1
<1> HIDE DEF a
<1>3. \A i \in DOMAIN a : i = Len(s) + 1 \/ i \in DOMAIN s
  BY <1>2
<1>4. Len(s) + 1 \in DOMAIN a /\ \A i \in DOMAIN s : i \in DOMAIN a
  BY <1>2
<1>5. ToSet(a) = ToSet(s) \cup {z}
  <2>1. \A w \in ToSet(a) : w \in ToSet(s) \cup {z}
    BY <1>1, <1>2, <1>3 DEF ToSet
  <2>2. z \in ToSet(a) /\ \A w \in ToSet(s) : w \in ToSet(a)
    BY <1>1, <1>2, <1>4 DEF ToSet
  <2> QED BY <2>1, <2>2
<1>6. ASSUME Precedes(a, x, y) PROVE Precedes(s, x, y) \/ (x \in ToSet(s) /\ y = z)
  <2>1. PICK i, j \in DOMAIN a : i < j /\ a[i] = x /\ a[j] = y
    BY <1>6 DEF Precedes
  <2>2. i \in DOMAIN s
    BY <1>2, <1>3, <2>1
  <2>3. CASE j = Len(s) + 1
    BY <1>1, <1>2, <2>1, <2>2, <2>3 DEF ToSet
  <2>4. CASE j \in DOMAIN s
    BY <1>1, <1>2, <2>1, <2>2, <2>4 DEF Precedes
  <2> QED BY <1>3, <2>3, <2>4
<1> QED BY <1>5, <1>6 DEF a
=============================================================================
