----------------------------- MODULE QueueLemmas -----------------------------
(***************************************************************************)
(* What happens to the contents of a queue, to the places of certain       *)
(* elements in it and to the order of its elements when its head is taken  *)
(* off and when others are queued behind.  The proofs about the client use *)
(* these for the wire, for Ecore's events and for what passes between.     *)
(* At the end, what the operators of Lists return.                         *)
(***************************************************************************)
EXTENDS Integers, Sequences, SequencesExt, FiniteSets, Lists,
        SequenceTheorems, FiniteSetTheorems, TLAPS

(* The places in s of elements of X.                                       *)
Places(s, X) == {i \in 1..Len(s) : s[i] \in X}

(* Each element of s is related by R to every one behind it.               *)
Ordered(s, R) == \A i, j \in 1..Len(s) : i < j => <<s[i], s[j]>> \in R

(* Each element of s is related by R to every one of t.                    *)
Across(s, t, R) == \A x \in ToSet(s), y \in ToSet(t) : <<x, y>> \in R

(* The contents by index.                                                  *)
LEMMA Contents ==
  ASSUME NEW S, NEW s \in Seq(S)
  PROVE  /\ Len(s) \in Nat
         /\ DOMAIN s = 1..Len(s)
         /\ ToSet(s) = {s[i] : i \in 1..Len(s)}
         /\ ToSet(s) \subseteq S
         /\ s = <<>> <=> ToSet(s) = {}
<1>1. Len(s) \in Nat /\ DOMAIN s = 1..Len(s) /\ s \in [1..Len(s) -> S]
  BY LenProperties
<1>2. ToSet(s) = {s[i] : i \in 1..Len(s)}
  BY <1>1 DEF ToSet
<1>3. ToSet(s) \subseteq S
  BY <1>1, <1>2
<1>4. s = <<>> => ToSet(s) = {}
  BY <1>2
<1>5. s # <<>> => s[1] \in ToSet(s)
  <2> SUFFICES ASSUME s # <<>> PROVE 1 \in 1..Len(s)
    BY <1>2
  <2> QED BY <1>1, EmptySeq
<1> QED BY <1>1, <1>2, <1>3, <1>4, <1>5

(* A function of the first n numbers is a sequence of n.                   *)
LEMMA FunctionIsSequence ==
  ASSUME NEW S, NEW n \in Nat, NEW f \in [1..n -> S]
  PROVE  f \in Seq(S) /\ Len(f) = n
<1>1. f \in Seq(S)
  BY SeqDef
<1>2. Len(f) \in Nat /\ DOMAIN f = 1..Len(f)
  BY ONLY <1>1, LenProperties
<1>3. DOMAIN f = 1..n
  OBVIOUS
<1> QED BY ONLY n \in Nat, <1>1, <1>2, <1>3

LEMMA EmptyContents == ToSet(<<>>) = {} /\ \A X : Places(<<>>, X) = {}
BY DEF ToSet, Places

LEMMA SingleContents ==
  ASSUME NEW x
  PROVE  ToSet(<<x>>) = {x} /\ Len(<<x>>) = 1 /\ <<x>> \in Seq({x})
BY DEF ToSet

LEMMA ConcatContents ==
  ASSUME NEW S, NEW s \in Seq(S), NEW t \in Seq(S)
  PROVE  /\ s \o t \in Seq(S)
         /\ ToSet(s \o t) = ToSet(s) \cup ToSet(t)
<1> DEFINE u == s \o t
           m == Len(s)
           n == Len(t)
<1>1. /\ u \in Seq(S)
      /\ Len(u) = m + n
      /\ m \in Nat /\ n \in Nat
      /\ \A i \in 1..(m + n) : u[i] = IF i <= m THEN s[i] ELSE t[i - m]
  BY ConcatProperties, LenProperties
<1>2. /\ ToSet(s) = {s[i] : i \in 1..m}
      /\ ToSet(t) = {t[i] : i \in 1..n}
      /\ ToSet(u) = {u[i] : i \in 1..(m + n)}
  <2>1. ToSet(s) = {s[i] : i \in 1..m} /\ ToSet(t) = {t[i] : i \in 1..n}
    BY Contents
  <2>2. ToSet(u) = {u[i] : i \in 1..Len(u)}
    <3> HIDE DEF u
    <3> QED BY <1>1, Contents
  <2> QED BY <2>1, <2>2, <1>1
<1> HIDE DEF u, m, n
<1>3. ASSUME NEW i \in 1..(m + n)
      PROVE  u[i] \in ToSet(s) \cup ToSet(t)
  <2>1. CASE i <= m
    BY <2>1, <1>1, <1>2
  <2>2. CASE ~(i <= m)
    <3>1. i - m \in 1..n
      BY <2>2, <1>1
    <3> QED BY <3>1, <2>2, <1>1, <1>2
  <2> QED BY <2>1, <2>2
<1>4. ASSUME NEW i \in 1..m
      PROVE  s[i] \in ToSet(u)
  <2>1. i \in 1..(m + n) /\ u[i] = s[i]
    BY <1>1
  <2> QED BY <2>1, <1>2
<1>5. ASSUME NEW i \in 1..n
      PROVE  t[i] \in ToSet(u)
  <2>1. m + i \in 1..(m + n) /\ ~(m + i <= m) /\ (m + i) - m = i
    BY <1>1
  <2>2. u[m + i] = t[i]
    BY <2>1, <1>1
  <2> QED BY <2>1, <2>2, <1>2
<1>6. ToSet(u) = ToSet(s) \cup ToSet(t)
  BY <1>2, <1>3, <1>4, <1>5
<1> QED BY <1>1, <1>6 DEF u

LEMMA AppendContents ==
  ASSUME NEW S, NEW s \in Seq(S), NEW x \in S
  PROVE  /\ Append(s, x) \in Seq(S)
         /\ Append(s, x) = s \o <<x>>
         /\ ToSet(Append(s, x)) = ToSet(s) \cup {x}
<1> DEFINE h == <<x>>
<1>1. Append(s, x) = s \o h /\ h \in Seq(S)
  BY AppendIsConcat
<1>2. ToSet(h) = {x}
  BY SingleContents
<1>3. Append(s, x) \in Seq(S)
  BY AppendProperties
<1>4. ToSet(s \o h) = ToSet(s) \cup {x}
  <2> HIDE DEF h
  <2> QED BY <1>1, <1>2, ConcatContents
<1> QED BY <1>1, <1>3, <1>4

(* A queue is its head and what is behind it.                              *)
LEMMA HeadAndTail ==
  ASSUME NEW S, NEW s \in Seq(S), s # <<>>
  PROVE  /\ Head(s) \in S
         /\ Head(s) = s[1]
         /\ Tail(s) \in Seq(S)
         /\ s = <<Head(s)>> \o Tail(s)
         /\ ToSet(s) = {Head(s)} \cup ToSet(Tail(s))
<1>1. /\ Head(s) \in S
      /\ Tail(s) \in Seq(S)
      /\ Len(Tail(s)) = Len(s) - 1
      /\ \A i \in 1..Len(Tail(s)) : Tail(s)[i] = s[i + 1]
      /\ Len(s) \in Nat \ {0}
  BY HeadTailProperties, EmptySeq
<1>2. Head(s) = s[1]
  BY <1>1
<1>3. s = <<Head(s)>> \o Tail(s)
  <2> DEFINE h == <<Head(s)>>
             u == h \o Tail(s)
  <2>1. h \in Seq(S) /\ Len(h) = 1 /\ h[1] = s[1]
    BY <1>1, <1>2
  <2>2. /\ u \in Seq(S)
        /\ Len(u) = 1 + Len(Tail(s))
        /\ \A i \in 1..(1 + Len(Tail(s))) : u[i] = IF i <= 1 THEN h[i] ELSE Tail(s)[i - 1]
    <3> DEFINE t == Tail(s)
    <3>1. t \in Seq(S) /\ u = h \o t
      BY <1>1
    <3> HIDE DEF h, t
    <3>2. /\ h \o t \in Seq(S)
          /\ Len(h \o t) = Len(h) + Len(t)
          /\ \A i \in 1..(Len(h) + Len(t)) :
               (h \o t)[i] = IF i <= Len(h) THEN h[i] ELSE t[i - Len(h)]
      BY <2>1, <3>1, ConcatProperties
    <3> QED BY <2>1, <3>1, <3>2 DEF t
  <2>3. Len(u) = Len(s)
    BY <2>2, <1>1
  <2>4. ASSUME NEW i \in 1..Len(s)
        PROVE  s[i] = u[i]
    <3> HIDE DEF u, h
    <3>1. CASE i = 1
      BY <3>1, <2>1, <2>2, <1>1
    <3>2. CASE i # 1
      <4>1. i - 1 \in 1..Len(Tail(s)) /\ (i - 1) + 1 = i /\ ~(i <= 1)
        BY <3>2, <1>1
      <4>2. i \in 1..(1 + Len(Tail(s)))
        BY <1>1
      <4> QED BY <4>1, <4>2, <2>2, <1>1
    <3> QED BY <3>1, <3>2
  <2> HIDE DEF u, h
  <2>5. s = u
    BY <2>2, <2>3, <2>4, SeqEqual
  <2> QED BY <2>5 DEF u, h
<1>4. ToSet(s) = {Head(s)} \cup ToSet(Tail(s))
  <2> DEFINE h == <<Head(s)>>
             t == Tail(s)
  <2>1. h \in Seq(S) /\ ToSet(h) = {Head(s)} /\ t \in Seq(S) /\ s = h \o t
    BY <1>1, <1>3, SingleContents
  <2> HIDE DEF h, t
  <2>2. ToSet(h \o t) = ToSet(h) \cup ToSet(t)
    BY <2>1, ConcatContents
  <2> QED BY <2>1, <2>2 DEF t
<1> QED BY <1>1, <1>2, <1>3, <1>4

-----------------------------------------------------------------------------
(* Order                                                                   *)

LEMMA ShortOrdered ==
  ASSUME NEW R
  PROVE  Ordered(<<>>, R) /\ \A x : Ordered(<<x>>, R)
BY DEF Ordered

LEMMA ConcatOrdered ==
  ASSUME NEW S, NEW s \in Seq(S), NEW t \in Seq(S), NEW R
  PROVE  Ordered(s \o t, R) <=> Ordered(s, R) /\ Ordered(t, R) /\ Across(s, t, R)
<1> DEFINE u == s \o t
           m == Len(s)
           n == Len(t)
<1>1. /\ Len(u) = m + n
      /\ m \in Nat /\ n \in Nat
      /\ \A i \in 1..(m + n) : u[i] = IF i <= m THEN s[i] ELSE t[i - m]
  BY ConcatProperties, LenProperties
<1>2. /\ ToSet(s) = {s[i] : i \in 1..m}
      /\ ToSet(t) = {t[i] : i \in 1..n}
  BY Contents
<1>3. \A i \in 1..m : i \in 1..(m + n) /\ u[i] = s[i]
  BY <1>1
<1>4. \A i \in 1..n : m + i \in 1..(m + n) /\ u[m + i] = t[i]
  <2> SUFFICES ASSUME NEW i \in 1..n
               PROVE  m + i \in 1..(m + n) /\ u[m + i] = t[i]
    OBVIOUS
  <2>1. m + i \in 1..(m + n) /\ ~(m + i <= m) /\ (m + i) - m = i
    BY <1>1
  <2> HIDE DEF u, m, n
  <2> QED BY <2>1, <1>1
<1>5. \A i \in 1..(m + n) : i \notin 1..m => i - m \in 1..n /\ u[i] = t[i - m]
  <2> HIDE DEF u
  <2> QED BY <1>1
<1> HIDE DEF u, m, n
<1>6. ASSUME Ordered(u, R)
      PROVE  Ordered(s, R) /\ Ordered(t, R) /\ Across(s, t, R)
  <2>1. Ordered(s, R)
    BY <1>1, <1>3, <1>6 DEF Ordered, m
  <2>2. Ordered(t, R)
    <3> SUFFICES ASSUME NEW i \in 1..n, NEW j \in 1..n, i < j
                 PROVE  <<t[i], t[j]>> \in R
      BY DEF Ordered, n
    <3>1. m + i < m + j
      BY <1>1
    <3>2. /\ m + i \in 1..Len(u) /\ m + j \in 1..Len(u)
          /\ u[m + i] = t[i] /\ u[m + j] = t[j]
      BY <1>1, <1>4
    <3> QED BY <1>6, <3>1, <3>2 DEF Ordered
  <2>3. Across(s, t, R)
    <3> SUFFICES ASSUME NEW i \in 1..m, NEW j \in 1..n
                 PROVE  <<s[i], t[j]>> \in R
      BY <1>2 DEF Across
    <3>1. i < m + j
      BY <1>1
    <3>2. /\ i \in 1..Len(u) /\ m + j \in 1..Len(u)
          /\ u[i] = s[i] /\ u[m + j] = t[j]
      BY <1>1, <1>3, <1>4
    <3> QED BY <1>6, <3>1, <3>2 DEF Ordered
  <2> QED BY <2>1, <2>2, <2>3
<1>7. ASSUME Ordered(s, R), Ordered(t, R), Across(s, t, R)
      PROVE  Ordered(u, R)
  <2> SUFFICES ASSUME NEW i \in 1..(m + n), NEW j \in 1..(m + n), i < j
               PROVE  <<u[i], u[j]>> \in R
    BY <1>1 DEF Ordered
  <2>1. CASE i \in 1..m /\ j \in 1..m
    BY <2>1, <1>3, <1>7 DEF Ordered, m
  <2>2. CASE i \in 1..m /\ j \notin 1..m
    BY <2>2, <1>2, <1>3, <1>5, <1>7 DEF Across
  <2>3. CASE i \notin 1..m
    <3>1. j \notin 1..m
      BY <2>3, <1>1
    <3>2. i - m < j - m
      BY <1>1
    <3> QED BY <2>3, <3>1, <3>2, <1>5, <1>7 DEF Ordered, n
  <2> QED BY <2>1, <2>2, <2>3
<1> QED BY <1>6, <1>7 DEF u

LEMMA TailOrdered ==
  ASSUME NEW S, NEW s \in Seq(S), s # <<>>, NEW R, Ordered(s, R)
  PROVE  /\ Ordered(Tail(s), R)
         /\ \A x \in ToSet(Tail(s)) : <<Head(s), x>> \in R
<1> DEFINE h == <<Head(s)>>
<1>1. h \in Seq(S) /\ Tail(s) \in Seq(S) /\ s = h \o Tail(s) /\ ToSet(h) = {Head(s)}
  BY HeadAndTail, SingleContents
<1> HIDE DEF h
<1>2. Ordered(Tail(s), R) /\ Across(h, Tail(s), R)
  BY <1>1, ConcatOrdered
<1> QED BY <1>1, <1>2 DEF Across

LEMMA AppendOrdered ==
  ASSUME NEW S, NEW s \in Seq(S), NEW x \in S, NEW R, Ordered(s, R),
         \A y \in ToSet(s) : <<y, x>> \in R
  PROVE  Ordered(Append(s, x), R)
<1>1. <<x>> \in Seq(S) /\ Append(s, x) = s \o <<x>> /\ ToSet(<<x>>) = {x}
  BY AppendContents, SingleContents
<1>2. Ordered(<<x>>, R) /\ Across(s, <<x>>, R)
  BY <1>1, ShortOrdered DEF Across
<1> QED
  <2>1. PICK t \in Seq(S) : t = <<x>>
    BY <1>1
  <2>2. Append(s, x) = s \o t /\ Ordered(t, R) /\ Across(s, t, R) /\ Ordered(s, R)
    BY <1>1, <1>2, <2>1
  <2>3. s \in Seq(S)
    OBVIOUS
  <2>4. Ordered(s \o t, R)
    BY ONLY <2>1, <2>2, <2>3, ConcatOrdered, Zenon
  <2> QED BY ONLY <2>2, <2>4

-----------------------------------------------------------------------------
(* Counting                                                                *)

LEMMA PlacesFinite ==
  ASSUME NEW S, NEW s \in Seq(S), NEW X
  PROVE  /\ IsFiniteSet(Places(s, X))
         /\ Cardinality(Places(s, X)) \in Nat
         /\ Cardinality(Places(s, X)) = 0 <=> ToSet(s) \cap X = {}
<1>1. Len(s) \in Nat /\ ToSet(s) = {s[i] : i \in 1..Len(s)}
  BY Contents
<1>2. IsFiniteSet(1..Len(s))
  BY <1>1, FS_Interval
<1>3. Places(s, X) \subseteq 1..Len(s)
  BY DEF Places
<1>4. IsFiniteSet(Places(s, X))
  BY <1>2, <1>3, FS_Subset
<1>5. Cardinality(Places(s, X)) \in Nat
  BY <1>4, FS_CardinalityType
<1>6. Cardinality(Places(s, X)) = 0 <=> Places(s, X) = {}
  BY <1>4, FS_EmptySet
<1>7. Places(s, X) = {} <=> ToSet(s) \cap X = {}
  BY <1>1 DEF Places
<1> QED BY <1>4, <1>5, <1>6, <1>7

LEMMA ConcatCount ==
  ASSUME NEW S, NEW s \in Seq(S), NEW t \in Seq(S), NEW X
  PROVE  Cardinality(Places(s \o t, X))
           = Cardinality(Places(s, X)) + Cardinality(Places(t, X))
<1> DEFINE u == s \o t
           m == Len(s)
           n == Len(t)
           A == Places(s, X)
           B == Places(t, X)
           C == {m + i : i \in B}
<1>1. /\ Len(u) = m + n
      /\ m \in Nat /\ n \in Nat
      /\ \A i \in 1..(m + n) : u[i] = IF i <= m THEN s[i] ELSE t[i - m]
  BY ConcatProperties, LenProperties
<1>2. IsFiniteSet(A) /\ IsFiniteSet(B)
  BY PlacesFinite
<1>3. B \subseteq Nat
  BY <1>1 DEF Places
<1>4. IsFiniteSet(C) /\ Cardinality(C) = Cardinality(B)
  <2> DEFINE f == [i \in B |-> m + i]
  <2> HIDE DEF B
  <2>1. f \in [B -> C]
    OBVIOUS
  <2>2. \A i, j \in B : f[i] = f[j] => i = j
    BY <1>1, <1>3
  <2>3. \A c \in C : \E i \in B : f[i] = c
    OBVIOUS
  <2> HIDE DEF f, C
  <2>4. f \in Bijection(B, C)
    BY <2>1, <2>2, <2>3 DEF Bijection, Injection, Surjection, IsInjective
  <2>5. ExistsBijection(B, C)
    BY <2>4 DEF ExistsBijection
  <2> QED BY <1>2, <2>5, FS_Bijection
<1>5. Places(u, X) = A \cup C
  <2>1. ASSUME NEW i \in Places(u, X)
        PROVE  i \in A \cup C
    <3>1. i \in 1..(m + n) /\ u[i] \in X
      BY <1>1 DEF Places
    <3>2. CASE i <= m
      <4>1. i \in 1..m /\ u[i] = s[i]
        BY <3>1, <3>2, <1>1
      <4> QED BY <3>1, <4>1 DEF Places
    <3>3. CASE ~(i <= m)
      <4>1. i - m \in 1..n /\ m + (i - m) = i /\ u[i] = t[i - m]
        <5> HIDE DEF u
        <5> QED BY <3>1, <3>3, <1>1
      <4>2. i - m \in B
        BY <3>1, <4>1 DEF Places
      <4> QED BY <4>1, <4>2
    <3> QED BY <3>2, <3>3
  <2>2. ASSUME NEW i \in A
        PROVE  i \in Places(u, X)
    <3>1. i \in 1..m /\ s[i] \in X
      BY DEF Places
    <3>2. i \in 1..Len(u) /\ u[i] = s[i]
      <4> HIDE DEF u
      <4> QED BY <3>1, <1>1
    <3> QED BY <3>1, <3>2 DEF Places
  <2>3. ASSUME NEW i \in B
        PROVE  m + i \in Places(u, X)
    <3>1. i \in 1..n /\ t[i] \in X
      BY DEF Places
    <3>2. m + i \in 1..Len(u) /\ ~(m + i <= m) /\ (m + i) - m = i
      <4> HIDE DEF u
      <4> QED BY <3>1, <1>1
    <3>3. u[m + i] = t[i]
      <4> HIDE DEF u
      <4> QED BY <3>2, <1>1
    <3> QED BY <3>1, <3>2, <3>3 DEF Places
  <2> QED BY <2>1, <2>2, <2>3
<1>6. A \cap C = {}
  <2>1. \A i \in A : i <= m
    BY <1>1 DEF Places
  <2>2. \A i \in B : ~(m + i <= m)
    BY <1>1 DEF Places
  <2> QED BY <2>1, <2>2
<1> HIDE DEF A, B, C
<1>7. Cardinality(A \cap C) = 0
  BY <1>6, FS_EmptySet
<1>8. Cardinality(A \cup C) = Cardinality(A) + Cardinality(C)
  <2>1. Cardinality(A) \in Nat /\ Cardinality(C) \in Nat
    BY <1>2, <1>4, FS_CardinalityType
  <2>2. Cardinality(A \cup C) = Cardinality(A) + Cardinality(C) - Cardinality(A \cap C)
    BY <1>2, <1>4, FS_Union
  <2> QED BY <1>7, <2>1, <2>2
<1> QED BY <1>4, <1>5, <1>8 DEF A, B

LEMMA SingleCount ==
  ASSUME NEW x, NEW X
  PROVE  Cardinality(Places(<<x>>, X)) = IF x \in X THEN 1 ELSE 0
<1>1. Places(<<x>>, X) = IF x \in X THEN {1} ELSE {}
  BY DEF Places
<1> QED BY <1>1, FS_EmptySet, FS_Singleton

LEMMA TailCount ==
  ASSUME NEW S, NEW s \in Seq(S), s # <<>>, NEW X
  PROVE  Cardinality(Places(s, X))
           = (IF Head(s) \in X THEN 1 ELSE 0) + Cardinality(Places(Tail(s), X))
<1> DEFINE h == <<Head(s)>>
<1>1. h \in Seq(S) /\ Tail(s) \in Seq(S) /\ s = h \o Tail(s)
  BY HeadAndTail
<1>2. Cardinality(Places(h, X)) = IF Head(s) \in X THEN 1 ELSE 0
  BY SingleCount
<1> HIDE DEF h
<1>3. Cardinality(Places(h \o Tail(s), X))
        = Cardinality(Places(h, X)) + Cardinality(Places(Tail(s), X))
  BY <1>1, ConcatCount
<1> QED BY <1>1, <1>2, <1>3

(* A step takes the head off and queues t behind.                          *)
LEMMA StepCount ==
  ASSUME NEW S, NEW s \in Seq(S), s # <<>>, NEW t \in Seq(S)
  PROVE  /\ Tail(s) \o t \in Seq(S)
         /\ ToSet(s) = {Head(s)} \cup ToSet(Tail(s))
         /\ ToSet(Tail(s) \o t) = ToSet(Tail(s)) \cup ToSet(t)
         /\ \A X : /\ Cardinality(Places(Tail(s) \o t, X)) \in Nat
                   /\ Cardinality(Places(Tail(s) \o t, X)) + (IF Head(s) \in X THEN 1 ELSE 0)
                        = Cardinality(Places(s, X)) + Cardinality(Places(t, X))
<1>1. Tail(s) \in Seq(S) /\ ToSet(s) = {Head(s)} \cup ToSet(Tail(s))
  BY HeadAndTail
<1>2. Tail(s) \o t \in Seq(S) /\ ToSet(Tail(s) \o t) = ToSet(Tail(s)) \cup ToSet(t)
  <2> DEFINE r == Tail(s)
  <2> r \in Seq(S)
    BY <1>1
  <2> HIDE DEF r
  <2>1. r \o t \in Seq(S) /\ ToSet(r \o t) = ToSet(r) \cup ToSet(t)
    BY ConcatContents
  <2> QED BY <2>1 DEF r
<1>3. ASSUME NEW X
      PROVE  /\ Cardinality(Places(Tail(s) \o t, X)) \in Nat
             /\ Cardinality(Places(Tail(s) \o t, X)) + (IF Head(s) \in X THEN 1 ELSE 0)
                  = Cardinality(Places(s, X)) + Cardinality(Places(t, X))
  <2>1. Cardinality(Places(Tail(s) \o t, X)) = Cardinality(Places(Tail(s), X)) + Cardinality(Places(t, X))
    BY <1>1, ConcatCount
  <2>2. Cardinality(Places(s, X))
          = (IF Head(s) \in X THEN 1 ELSE 0) + Cardinality(Places(Tail(s), X))
    BY TailCount
  <2>3. Cardinality(Places(Tail(s), X)) \in Nat /\ Cardinality(Places(t, X)) \in Nat
    BY <1>1, PlacesFinite
  <2> QED BY <2>1, <2>2, <2>3
<1> QED BY <1>1, <1>2, <1>3

-----------------------------------------------------------------------------
(* Two queues one after the other: what leaves s is queued in e            *)

Chain(e, s, R) == Ordered(e, R) /\ Ordered(s, R) /\ Across(e, s, R)

LEMMA ChainPasses ==
  ASSUME NEW S, NEW e \in Seq(S), NEW s \in Seq(S), s # <<>>, NEW R, Chain(e, s, R)
  PROVE  Chain(e \o <<Head(s)>>, Tail(s), R) /\ Chain(e, Tail(s), R)
<1> DEFINE h == <<Head(s)>>
<1>1. h \in Seq(S) /\ Tail(s) \in Seq(S) /\ ToSet(h) = {Head(s)}
      /\ ToSet(s) = {Head(s)} \cup ToSet(Tail(s))
  BY HeadAndTail, SingleContents
<1>2. Ordered(e, R) /\ Ordered(s, R) /\ Across(e, s, R) /\ Ordered(h, R)
  BY ShortOrdered DEF Chain
<1> HIDE DEF h
<1>3. Ordered(Tail(s), R) /\ \A x \in ToSet(Tail(s)) : <<Head(s), x>> \in R
  BY <1>2, TailOrdered
<1>4. Across(e, h, R) /\ Across(e, Tail(s), R)
  BY <1>1, <1>2 DEF Across
<1>5. Ordered(e \o h, R)
  BY <1>1, <1>2, <1>4, ConcatOrdered
<1>6. ToSet(e \o h) = ToSet(e) \cup {Head(s)}
  BY <1>1, ConcatContents
<1>7. Across(e \o h, Tail(s), R)
  BY <1>3, <1>4, <1>6 DEF Across
<1> QED BY <1>2, <1>3, <1>4, <1>5, <1>7 DEF Chain, h

LEMMA ChainHandled ==
  ASSUME NEW S, NEW e \in Seq(S), e # <<>>, NEW s \in Seq(S), NEW t \in Seq(S), NEW R,
         Chain(e, s, R), \A x \in ToSet(t), y \in S : <<x, y>> \in R /\ <<y, x>> \in R
  PROVE  Chain(Tail(e) \o t, s, R)
<1>1. Tail(e) \in Seq(S) /\ ToSet(e) = {Head(e)} \cup ToSet(Tail(e)) /\ ToSet(t) \subseteq S
      /\ ToSet(Tail(e)) \subseteq S /\ ToSet(s) \subseteq S
  BY HeadAndTail, Contents
<1>2. Ordered(e, R) /\ Ordered(s, R) /\ Across(e, s, R)
  BY DEF Chain
<1>3. Ordered(Tail(e), R)
  BY <1>2, TailOrdered
<1>4. Across(Tail(e), t, R)
  BY <1>1 DEF Across
<1>5. Ordered(t, R)
  <2>1. \A i \in 1..Len(t) : t[i] \in ToSet(t)
    BY Contents
  <2> QED BY <1>1, <2>1 DEF Ordered
<1>6. Ordered(Tail(e) \o t, R)
  BY <1>1, <1>3, <1>4, <1>5, ConcatOrdered
<1>7. ToSet(Tail(e) \o t) = ToSet(Tail(e)) \cup ToSet(t)
  BY StepCount
<1>8. Across(Tail(e) \o t, s, R)
  BY <1>1, <1>2, <1>7 DEF Across
<1> QED BY <1>2, <1>6, <1>8 DEF Chain

LEMMA ChainAnswered ==
  ASSUME NEW S, NEW e \in Seq(S), NEW s \in Seq(S), NEW t \in Seq(S), NEW R,
         Chain(e, s, R), Ordered(t, R),
         \A x \in ToSet(e) \cup ToSet(s), y \in ToSet(t) : <<x, y>> \in R
  PROVE  Chain(e, s \o t, R)
<1>1. Ordered(e, R) /\ Ordered(s, R) /\ Across(e, s, R)
  BY DEF Chain
<1>2. Across(s, t, R)
  BY DEF Across
<1>3. Ordered(s \o t, R)
  BY <1>1, <1>2, ConcatOrdered
<1>4. ToSet(s \o t) = ToSet(s) \cup ToSet(t)
  BY ConcatContents
<1>5. Across(e, s \o t, R)
  BY <1>1, <1>4 DEF Across
<1> QED BY <1>1, <1>3, <1>5 DEF Chain

-----------------------------------------------------------------------------
(* What the elements of a queue say, without their numbers                 *)

Bodies(s) == [i \in 1..Len(s) |-> s[i].body]

(* The requests rs as they are written after the number n.                 *)
Numbered(n, rs) == [i \in 1..Len(rs) |-> [seq |-> n + i, body |-> rs[i].body]]

LEMMA BodiesOf ==
  ASSUME NEW S, NEW s \in Seq(S), NEW B, \A x \in S : x.body \in B
  PROVE  /\ Bodies(s) \in Seq(B)
         /\ Len(Bodies(s)) = Len(s)
         /\ \A i \in 1..Len(s) : Bodies(s)[i] = s[i].body
         /\ ToSet(Bodies(s)) = {x.body : x \in ToSet(s)}
         /\ s = <<>> <=> Bodies(s) = <<>>
<1>1. Len(s) \in Nat /\ \A i \in 1..Len(s) : s[i] \in S
  OBVIOUS
<1>2. Bodies(s) \in [1..Len(s) -> B] /\ \A i \in 1..Len(s) : Bodies(s)[i] = s[i].body
  BY <1>1 DEF Bodies
<1>3. Bodies(s) \in Seq(B) /\ Len(Bodies(s)) = Len(s)
  BY <1>1, <1>2
<1>4. ToSet(s) = {s[i] : i \in 1..Len(s)}
  BY Contents
<1>5. ToSet(Bodies(s)) = {Bodies(s)[i] : i \in 1..Len(s)}
  BY <1>3, Contents
<1>6. ToSet(Bodies(s)) = {x.body : x \in ToSet(s)}
  BY <1>2, <1>4, <1>5
<1>7. s = <<>> <=> Bodies(s) = <<>>
  BY <1>3, EmptySeq
<1> QED BY <1>2, <1>3, <1>6, <1>7

LEMMA BodiesConcat ==
  ASSUME NEW S, NEW s \in Seq(S), NEW t \in Seq(S)
  PROVE  Bodies(s \o t) = Bodies(s) \o Bodies(t)
<1> DEFINE B == {x.body : x \in S}
           u == s \o t
           a == Bodies(s)
           b == Bodies(t)
           c == Bodies(u)
<1>1. /\ u \in Seq(S)
      /\ Len(u) = Len(s) + Len(t)
      /\ Len(s) \in Nat /\ Len(t) \in Nat
      /\ \A i \in 1..(Len(s) + Len(t)) : u[i] = IF i <= Len(s) THEN s[i] ELSE t[i - Len(s)]
  BY ConcatProperties, LenProperties
<1>2. \A x \in S : x.body \in B
  OBVIOUS
<1> HIDE DEF u, B
<1>3. /\ a \in Seq(B) /\ Len(a) = Len(s)
      /\ \A i \in 1..Len(s) : a[i] = s[i].body
  BY <1>2, BodiesOf
<1>4. /\ b \in Seq(B) /\ Len(b) = Len(t)
      /\ \A i \in 1..Len(t) : b[i] = t[i].body
  BY <1>2, BodiesOf
<1>5. /\ c \in Seq(B) /\ Len(c) = Len(u)
      /\ \A i \in 1..Len(u) : c[i] = u[i].body
  BY <1>1, <1>2, BodiesOf
<1> HIDE DEF a, b, c
<1>6. /\ a \o b \in Seq(B)
      /\ Len(a \o b) = Len(s) + Len(t)
      /\ \A i \in 1..(Len(s) + Len(t)) : (a \o b)[i] = IF i <= Len(s) THEN a[i] ELSE b[i - Len(s)]
  <2> a \in Seq(B) /\ b \in Seq(B)
    BY <1>3, <1>4
  <2>1. /\ a \o b \in Seq(B)
        /\ Len(a \o b) = Len(a) + Len(b)
        /\ \A i \in 1..(Len(a) + Len(b)) : (a \o b)[i] = IF i <= Len(a) THEN a[i] ELSE b[i - Len(a)]
    BY ConcatProperties
  <2>2. Len(a) = Len(s) /\ Len(b) = Len(t)
    BY <1>3, <1>4
  <2> QED BY ONLY <2>1, <2>2
<1>7. ASSUME NEW i \in 1..Len(c) PROVE c[i] = (a \o b)[i]
  <2>1. i \in 1..(Len(s) + Len(t)) /\ c[i] = u[i].body
    BY <1>1, <1>5
  <2>2. CASE i <= Len(s)
    <3>1. i \in 1..Len(s)
      BY <1>1, <2>1, <2>2
    <3> QED BY <1>1, <1>3, <1>6, <2>1, <2>2, <3>1
  <2>3. CASE ~(i <= Len(s))
    <3>1. i - Len(s) \in 1..Len(t)
      BY <1>1, <2>1, <2>3
    <3> QED BY <1>1, <1>4, <1>6, <2>1, <2>3, <3>1
  <2> QED BY <2>2, <2>3
<1>8. c = a \o b
  BY <1>1, <1>5, <1>6, <1>7, SeqEqual
<1> QED BY <1>8 DEF a, b, c, u

LEMMA BodiesTail ==
  ASSUME NEW S, NEW s \in Seq(S), s # <<>>
  PROVE  /\ Bodies(s) # <<>>
         /\ Head(Bodies(s)) = Head(s).body
         /\ Bodies(Tail(s)) = Tail(Bodies(s))
<1> DEFINE B == {x.body : x \in S}
           a == Bodies(s)
           b == Bodies(Tail(s))
<1>1. \A x \in S : x.body \in B
  OBVIOUS
<1>2. /\ Head(s) = s[1] /\ Tail(s) \in Seq(S)
      /\ Len(Tail(s)) = Len(s) - 1 /\ Len(s) \in Nat /\ Len(s) # 0
      /\ \A i \in 1..Len(Tail(s)) : Tail(s)[i] = s[i + 1]
  BY HeadAndTail, HeadTailProperties, EmptySeq
<1> HIDE DEF B
<1>3. /\ a \in Seq(B) /\ Len(a) = Len(s)
      /\ \A i \in 1..Len(s) : a[i] = s[i].body
      /\ a # <<>>
  BY <1>1, BodiesOf
<1>4. /\ b \in Seq(B) /\ Len(b) = Len(s) - 1
      /\ \A i \in 1..(Len(s) - 1) : b[i] = Tail(s)[i].body
  BY <1>1, <1>2, BodiesOf
<1> HIDE DEF a, b
<1>5. /\ Head(a) = a[1] /\ Tail(a) \in Seq(B) /\ Len(Tail(a)) = Len(s) - 1
      /\ \A i \in 1..(Len(s) - 1) : Tail(a)[i] = a[i + 1]
  BY <1>3, HeadAndTail, HeadTailProperties
<1>6. ASSUME NEW i \in 1..(Len(s) - 1) PROVE b[i] = Tail(a)[i]
  <2>1. i + 1 \in 1..Len(s)
    BY <1>2
  <2> QED BY <1>2, <1>3, <1>4, <1>5, <2>1
<1>7. b = Tail(a)
  BY <1>2, <1>4, <1>5, <1>6, SeqEqual
<1>8. Head(a) = Head(s).body
  BY <1>2, <1>3, <1>5
<1> QED BY <1>3, <1>7, <1>8 DEF a, b

LEMMA BodiesNumbered ==
  ASSUME NEW S, NEW rs \in Seq(S), NEW n
  PROVE  /\ Bodies(Numbered(n, rs)) = Bodies(rs)
         /\ Numbered(n, rs) \in Seq({Numbered(n, rs)[i] : i \in 1..Len(rs)})
<1>1. Len(rs) \in Nat
  OBVIOUS
<1>2. DOMAIN Numbered(n, rs) = 1..Len(rs) /\ Len(Numbered(n, rs)) = Len(rs)
  BY <1>1 DEF Numbered
<1>3. \A i \in 1..Len(rs) : Numbered(n, rs)[i].body = rs[i].body
  BY DEF Numbered
<1>4. Bodies(Numbered(n, rs)) = Bodies(rs)
  BY <1>2, <1>3 DEF Bodies
<1>5. Numbered(n, rs) \in [1..Len(rs) -> {Numbered(n, rs)[i] : i \in 1..Len(rs)}]
  BY <1>2 DEF Numbered
<1> QED BY <1>1, <1>4, <1>5

-----------------------------------------------------------------------------
(* The operators of Lists                                                  *)

LEMMA Ranks ==
  ASSUME NEW S \in SUBSET Nat, IsFiniteSet(S)
  PROVE  /\ \A i \in S : Rank(S, i) \in 1..Cardinality(S)
         /\ \A i, k \in S : i < k => Rank(S, i) < Rank(S, k)
         /\ \A n \in 1..Cardinality(S) : \E i \in S : Rank(S, i) = n
<1> DEFINE upTo(i) == {j \in S : j <= i}
<1>1. Cardinality(S) \in Nat
  BY FS_CardinalityType
<1>2. \A i \in S : upTo(i) \in SUBSET S /\ IsFiniteSet(upTo(i)) /\ Cardinality(upTo(i)) \in Nat
                   /\ Cardinality(upTo(i)) <= Cardinality(S)
  <2> SUFFICES ASSUME NEW i \in S
               PROVE  /\ upTo(i) \in SUBSET S /\ IsFiniteSet(upTo(i))
                      /\ Cardinality(upTo(i)) \in Nat
                      /\ Cardinality(upTo(i)) <= Cardinality(S)
    OBVIOUS
  <2>1. upTo(i) \in SUBSET S
    OBVIOUS
  <2> HIDE DEF upTo
  <2> QED BY <2>1, FS_Subset, FS_CardinalityType
<1>3. \A i \in S : Rank(S, i) = Cardinality(upTo(i))
  BY DEF Rank
<1>4. \A i \in S : i \in upTo(i)
  OBVIOUS
<1>5. \A i \in S : Rank(S, i) \in 1..Cardinality(S)
  <2> SUFFICES ASSUME NEW i \in S PROVE Rank(S, i) \in 1..Cardinality(S)
    OBVIOUS
  <2>1. upTo(i) # {}
    BY <1>4
  <2>2. IsFiniteSet(upTo(i)) /\ Cardinality(upTo(i)) \in Nat /\ Cardinality(upTo(i)) <= Cardinality(S)
    BY <1>2
  <2> HIDE DEF upTo
  <2>3. Cardinality(upTo(i)) # 0
    BY <2>1, <2>2, FS_EmptySet
  <2> QED BY <1>1, <1>3, <2>2, <2>3
<1>6. \A i, k \in S : i < k => Rank(S, i) < Rank(S, k)
  <2> SUFFICES ASSUME NEW i \in S, NEW k \in S, i < k PROVE Rank(S, i) < Rank(S, k)
    OBVIOUS
  <2>1. upTo(i) \in SUBSET upTo(k) /\ k \in upTo(k) /\ k \notin upTo(i)
    <3>1. i \in Nat /\ k \in Nat /\ \A j \in S : j \in Nat
      OBVIOUS
    <3>2. ~(k <= i) /\ k <= k /\ \A j \in S : j <= i => j <= k
      BY <3>1
    <3> QED BY <3>2
  <2>2. /\ IsFiniteSet(upTo(k)) /\ Cardinality(upTo(k)) \in Nat
        /\ IsFiniteSet(upTo(i)) /\ Cardinality(upTo(i)) \in Nat
    BY <1>2
  <2> HIDE DEF upTo
  <2>3. Cardinality(upTo(i)) <= Cardinality(upTo(k)) /\ Cardinality(upTo(i)) # Cardinality(upTo(k))
    BY <2>1, <2>2, FS_Subset
  <2> QED BY <1>3, <2>2, <2>3
<1> HIDE DEF upTo
<1>7. \A n \in 1..Cardinality(S) : \E i \in S : Rank(S, i) = n
  <2> DEFINE T == 1..Cardinality(S)
             rank == [i \in S |-> Rank(S, i)]
  <2>1. rank \in [S -> T]
    BY <1>5
  <2>2. \A i, k \in S : rank[i] = rank[k] => i = k
    <3> SUFFICES ASSUME NEW i \in S, NEW k \in S, Rank(S, i) = Rank(S, k) PROVE i = k
      OBVIOUS
    <3>1. Rank(S, i) \in Int /\ i \in Int /\ k \in Int
      BY <1>5
    <3>2. ~(i < k) /\ ~(k < i)
      BY <1>6, <3>1
    <3> QED BY <3>1, <3>2
  <2>3. IsFiniteSet(T) /\ Cardinality(T) = Cardinality(S)
    BY <1>1, FS_Interval
  <2> HIDE DEF T
  <2>4. rank \in Injection(S, T)
    <3> HIDE DEF rank
    <3> QED BY <2>1, <2>2 DEF Injection, IsInjective
  <2>5. rank \in Surjection(S, T)
    <3> HIDE DEF rank
    <3> QED BY <2>3, <2>4, FS_Injection
  <2>6. \A n \in T : \E i \in S : rank[i] = n
    <3> HIDE DEF rank
    <3> QED BY <2>5 DEF Surjection
  <2> QED BY <2>6 DEF T
<1> QED BY <1>5, <1>6, <1>7

LEMMA AscendingIs ==
  ASSUME NEW S \in SUBSET Nat, IsFiniteSet(S)
  PROVE  /\ Ascending(S) \in Seq(S)
         /\ Len(Ascending(S)) = Cardinality(S) /\ Cardinality(S) \in Nat
         /\ ToSet(Ascending(S)) = S
         /\ \A n, m \in 1..Cardinality(S) : n < m => Ascending(S)[n] < Ascending(S)[m]
         /\ \A n, m \in 1..Cardinality(S) : Ascending(S)[n] = Ascending(S)[m] => n = m
<1> DEFINE c == Cardinality(S)
<1>1. c \in Nat
  BY FS_CardinalityType
<1>2. \A n \in 1..c : Nth(S, n) \in S /\ Rank(S, Nth(S, n)) = n
  BY Ranks DEF Nth
<1>3. Ascending(S) \in [1..c -> S] /\ \A n \in 1..c : Ascending(S)[n] = Nth(S, n)
  BY <1>2 DEF Ascending
<1>4. Ascending(S) \in Seq(S) /\ Len(Ascending(S)) = c
  BY <1>1, <1>3
<1>5. ToSet(Ascending(S)) = {Ascending(S)[n] : n \in 1..c}
  BY <1>4, Contents
<1>6. \A i \in S : \E n \in 1..c : Ascending(S)[n] = i
  <2> SUFFICES ASSUME NEW i \in S PROVE \E n \in 1..c : Nth(S, n) = i
    BY <1>3
  <2> DEFINE n == Rank(S, i)
             k == Nth(S, n)
  <2>1. n \in 1..c
    BY Ranks
  <2>2. k \in S /\ Rank(S, k) = n
    BY <1>2, <2>1
  <2>3. k = i
    <3>1. ~(k < i) /\ ~(i < k)
      <4>1. k < i => Rank(S, k) < Rank(S, i)
        BY <2>2, Ranks
      <4>2. i < k => Rank(S, i) < Rank(S, k)
        BY <2>2, Ranks
      <4> QED BY <2>1, <2>2, <4>1, <4>2
    <3>2. k \in Nat /\ i \in Nat
      <4> HIDE DEF k
      <4> QED BY <2>2
    <3> HIDE DEF k, n
    <3> QED BY <3>1, <3>2
  <2> QED BY <2>1, <2>3
<1>7. ToSet(Ascending(S)) = S
  BY <1>3, <1>5, <1>6
<1>8. ASSUME NEW n \in 1..c, NEW m \in 1..c, n < m
      PROVE  Nth(S, n) < Nth(S, m)
  <2>1. /\ Nth(S, n) \in S /\ Rank(S, Nth(S, n)) = n
        /\ Nth(S, m) \in S /\ Rank(S, Nth(S, m)) = m
    BY <1>2
  <2>2. Nth(S, m) < Nth(S, n) => Rank(S, Nth(S, m)) < Rank(S, Nth(S, n))
    BY <2>1, Ranks
  <2>3. Nth(S, m) # Nth(S, n)
    BY <1>8, <2>1
  <2>4. \A i \in S : i \in Nat
    OBVIOUS
  <2>5. Nth(S, n) \in Nat /\ Nth(S, m) \in Nat
    BY <2>1, <2>4
  <2> HIDE DEF c
  <2>6. n \in Nat /\ m \in Nat
    BY <1>1
  <2> QED BY <1>8, <2>1, <2>2, <2>3, <2>5, <2>6
<1>9. \A n, m \in 1..c : n < m => Ascending(S)[n] < Ascending(S)[m]
  BY <1>3, <1>8
<1>10. \A n, m \in 1..c : Ascending(S)[n] = Ascending(S)[m] => n = m
  <2> SUFFICES ASSUME NEW n \in 1..c, NEW m \in 1..c, Nth(S, n) = Nth(S, m) PROVE n = m
    BY <1>3
  <2> QED BY <1>2
<1> QED BY <1>1, <1>4, <1>7, <1>9, <1>10

LEMMA SelectedIs ==
  ASSUME NEW S, NEW s \in Seq(S), NEW T
  PROVE  /\ Selected(s, T) \in Seq(S \cap T)
         /\ ToSet(Selected(s, T)) = ToSet(s) \cap T
         /\ (\A i, j \in 1..Len(s) : s[i] = s[j] => i = j) =>
              \A n, m \in 1..Len(Selected(s, T)) :
                Selected(s, T)[n] = Selected(s, T)[m] => n = m
         /\ \A n, m \in 1..Len(Selected(s, T)) : n < m =>
              \E i, j \in 1..Len(s) : /\ i < j /\ s[i] = Selected(s, T)[n]
                                      /\ s[j] = Selected(s, T)[m]
<1> DEFINE P == {i \in 1..Len(s) : s[i] \in T}
           a == Ascending(P)
           r == Selected(s, T)
<1>1. Len(s) \in Nat /\ IsFiniteSet(1..Len(s)) /\ \A i \in 1..Len(s) : s[i] \in S
  BY FS_Interval
<1>2. P \in SUBSET (1..Len(s)) /\ P \in SUBSET Nat
  BY <1>1
<1>3. \A i \in P : i \in 1..Len(s) /\ s[i] \in S \cap T
  BY <1>1
<1>4. \A i \in 1..Len(s) : s[i] \in T => i \in P
  OBVIOUS
<1>5. r = [n \in 1..Len(a) |-> s[a[n]]]
  BY DEF Selected
<1> HIDE DEF P
<1>6. IsFiniteSet(P)
  BY <1>1, <1>2, FS_Subset
<1>7. /\ a \in Seq(P) /\ Len(a) \in Nat
      /\ ToSet(a) = P
      /\ \A n, m \in 1..Len(a) : n < m => a[n] < a[m]
      /\ \A n, m \in 1..Len(a) : a[n] = a[m] => n = m
  BY <1>2, <1>6, AscendingIs
<1> HIDE DEF a, r
<1>8. ToSet(a) = {a[n] : n \in 1..Len(a)} /\ \A n \in 1..Len(a) : a[n] \in P
  <2>1. a \in Seq(P)
    BY ONLY <1>7
  <2> QED BY ONLY <2>1, Contents
<1>9. r \in [1..Len(a) -> S \cap T]
  BY <1>3, <1>5, <1>8
<1>10. r \in Seq(S \cap T) /\ Len(r) = Len(a)
  BY <1>7, <1>9
<1>11. ToSet(r) = {s[a[n]] : n \in 1..Len(a)}
  <2>1. ToSet(r) = {r[n] : n \in 1..Len(r)}
    BY <1>10, Contents
  <2> QED BY <1>5, <1>10, <2>1
<1>12. ToSet(s) = {s[i] : i \in 1..Len(s)}
  BY Contents
<1>13. ToSet(r) = ToSet(s) \cap T
  <2>1. ASSUME NEW x \in ToSet(r) PROVE x \in ToSet(s) \cap T
    BY <1>3, <1>8, <1>11, <1>12
  <2>2. ASSUME NEW x \in ToSet(s) \cap T PROVE x \in ToSet(r)
    <3>1. PICK i \in 1..Len(s) : s[i] = x
      BY <1>12
    <3>2. i \in P
      BY <1>4, <3>1
    <3>3. PICK n \in 1..Len(a) : a[n] = i
      BY <1>7, <1>8, <3>2
    <3> QED BY <1>11, <3>1, <3>3
  <2> QED BY <2>1, <2>2
<1>14. ASSUME \A i, j \in 1..Len(s) : s[i] = s[j] => i = j,
              NEW n \in 1..Len(r), NEW m \in 1..Len(r), r[n] = r[m]
       PROVE  n = m
  <2>1. /\ n \in 1..Len(a) /\ m \in 1..Len(a)
        /\ a[n] \in 1..Len(s) /\ a[m] \in 1..Len(s)
        /\ s[a[n]] = s[a[m]]
    BY <1>3, <1>5, <1>8, <1>10, <1>14
  <2>2. a[n] = a[m]
    BY <1>14, <2>1
  <2> QED BY <1>7, <2>1, <2>2
<1>15. ASSUME NEW n \in 1..Len(r), NEW m \in 1..Len(r), n < m
       PROVE  \E i, j \in 1..Len(s) : i < j /\ s[i] = r[n] /\ s[j] = r[m]
  <2>1. /\ a[n] \in 1..Len(s) /\ a[m] \in 1..Len(s)
        /\ a[n] < a[m] /\ s[a[n]] = r[n] /\ s[a[m]] = r[m]
    BY <1>3, <1>5, <1>7, <1>8, <1>10, <1>15
  <2> QED BY <2>1
<1> QED BY <1>10, <1>13, <1>14, <1>15 DEF r
=============================================================================
