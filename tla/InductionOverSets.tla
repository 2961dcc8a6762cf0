-------------------------- MODULE InductionOverSets --------------------------
(***************************************************************************)
(* Induction for the proofs about data: about the recursive functions that *)
(* filter, concatenate and read sequences.  What is proved of every number *)
(* is membership in a set, so that no proof has to instantiate an operator *)
(* parameter.  The second part applies it to FlattenSeq.                   *)
(***************************************************************************)
EXTENDS Integers, Sequences, SequencesExt, WellFoundedInduction, SequenceTheorems, TLAPS

LEMMA LeastNatural ==
    ASSUME NEW T, T \subseteq Nat, T # {}
    PROVE  \E m \in T : \A n \in T : m =< n
<1> DEFINE R == OpToRel(<, Nat)
<1>1. IsWellFoundedOn(R, Nat)
  BY NatLessThanWellFounded, Zenon
<1>2. \A m, n \in Nat : m < n => <<m, n>> \in R
  BY DEF OpToRel
<1> HIDE DEF R
<1>3. PICK m \in T : \A n \in T : ~(<<n, m>> \in R)
  BY <1>1, WFMin
<1>4. ASSUME NEW n \in T PROVE m =< n
  <2>1. m \in Nat /\ n \in Nat /\ ~(n < m)
    BY <1>2, <1>3
  <2> QED
    BY <2>1
<1> QED
  BY <1>4

LEMMA AllNaturals ==
    ASSUME NEW S, 0 \in S, \A n \in Nat : n \in S => n + 1 \in S
    PROVE  Nat \subseteq S
<1> DEFINE T == {n \in Nat : n \notin S}
<1> SUFFICES ASSUME T # {} PROVE FALSE
  OBVIOUS
<1>1. PICK m \in T : \A n \in T : m =< n
  BY LeastNatural
<1>2. m \in Nat \ {0} /\ m \notin S
  BY <1>1
<1>3. m - 1 \in Nat /\ m - 1 \notin S
  BY <1>2
<1> QED
  BY <1>1, <1>3

\* Every sequence is had by appending to the empty one.
LEMMA AllSequences ==
    ASSUME NEW T, NEW P, <<>> \in P,
           \A r \in Seq(T), x \in T : r \in P => Append(r, x) \in P
    PROVE  Seq(T) \subseteq P
<1> DEFINE N == {n \in Nat : \A s \in Seq(T) : Len(s) = n => s \in P}
<1>1. 0 \in N
  OBVIOUS
<1>2. ASSUME NEW n \in Nat, n \in N PROVE n + 1 \in N
  <2> SUFFICES ASSUME NEW s \in Seq(T), Len(s) = n + 1 PROVE s \in P
    OBVIOUS
  <2>1. s # <<>>
    OBVIOUS
  <2>2. PICK r \in Seq(T), x \in T : s = Append(r, x)
    BY <2>1, SequenceEmptyOrAppend
  <2>3. Len(r) = n
    BY <2>2, AppendProperties
  <2> QED
    BY <1>2, <2>2, <2>3
<1> HIDE DEF N
<1>3. Nat \subseteq N
  BY <1>1, <1>2, AllNaturals
<1> QED
  BY <1>3 DEF N

-----------------------------------------------------------------------------
(* Sequences one after the other. *)

LEMMA ConcatAppend ==
    ASSUME NEW T, NEW x \in T
    PROVE  \A s, t \in Seq(T) : s \o Append(t, x) = Append(s \o t, x)
  OBVIOUS

Flattens(f, w, n) ==
    f = [i \in 1..n |-> IF i = 1 THEN w[i] ELSE f[i - 1] \o w[i]]

LEMMA FlattenExists ==
    ASSUME NEW w, NEW n \in Nat
    PROVE  \E f : Flattens(f, w, n)
<1> DEFINE N == {m \in Nat : \E f : Flattens(f, w, m)}
<1>1. 0 \in N
  <2> DEFINE f == [i \in 1..0 |-> w[i]]
  <2>1. Flattens(f, w, 0)
    BY DEF Flattens
  <2> QED
    BY <2>1
<1>2. ASSUME NEW m \in Nat, m \in N PROVE m + 1 \in N
  <2>1. PICK f : Flattens(f, w, m)
    BY <1>2
  <2> DEFINE g == [i \in 1..(m + 1) |->
                      IF i =< m THEN f[i]
                      ELSE IF m = 0 THEN w[i] ELSE f[m] \o w[m + 1]]
  <2>2. \A i \in 1..m : f[i] = IF i = 1 THEN w[i] ELSE f[i - 1] \o w[i]
    BY <2>1 DEF Flattens
  <2>3. ASSUME NEW i \in 1..(m + 1)
        PROVE  g[i] = IF i = 1 THEN w[i] ELSE g[i - 1] \o w[i]
    <3>1. CASE i \in 1..m
      BY <2>2, <3>1
    <3>2. CASE i = m + 1
      BY <3>2
    <3> QED
      BY <3>1, <3>2
  <2>4. Flattens(g, w, m + 1)
    BY <2>3 DEF Flattens
  <2> QED
    BY <2>4
<1> HIDE DEF N
<1>3. Nat \subseteq N
  BY <1>1, <1>2, AllNaturals
<1> QED
  BY <1>3 DEF N

LEMMA FlattenByFunction ==
    ASSUME NEW T, NEW w \in Seq(Seq(T)), Len(w) >= 1
    PROVE  \E f : /\ FlattenSeq(w) = f[Len(w)]
                  /\ \A i \in 1..Len(w) : /\ f[i] = IF i = 1 THEN w[i] ELSE f[i - 1] \o w[i]
                                          /\ f[i] \in Seq(T)
<1> DEFINE n == Len(w)
           f == CHOOSE f : f = [i \in 1..n |-> IF i = 1 THEN w[i] ELSE f[i - 1] \o w[i]]
<1>0. n \in Nat /\ n >= 1
  OBVIOUS
<1>1. \E g : g = [i \in 1..n |-> IF i = 1 THEN w[i] ELSE g[i - 1] \o w[i]]
  <2>1. PICK g : Flattens(g, w, n)
    BY <1>0, FlattenExists
  <2> QED
    BY <2>1, Zenon DEF Flattens
<1>2. f = [i \in 1..n |-> IF i = 1 THEN w[i] ELSE f[i - 1] \o w[i]]
  BY <1>1, Zenon
<1>3. FlattenSeq(w) = f[n]
  BY <1>0 DEF FlattenSeq
<1> HIDE DEF f
<1>4. \A i \in 1..n : f[i] = IF i = 1 THEN w[i] ELSE f[i - 1] \o w[i]
  BY <1>2
<1> DEFINE N == {i \in Nat : i \in 1..n => f[i] \in Seq(T)}
<1>5. 0 \in N
  OBVIOUS
<1>6. ASSUME NEW i \in Nat, i \in N PROVE i + 1 \in N
  <2> SUFFICES ASSUME i + 1 \in 1..n PROVE f[i + 1] \in Seq(T)
    OBVIOUS
  <2>1. w[i + 1] \in Seq(T)
    OBVIOUS
  <2>2. CASE i = 0
    BY <1>4, <2>1, <2>2
  <2>3. CASE i # 0
    <3>1. i \in 1..n /\ i + 1 # 1 /\ (i + 1) - 1 = i
      BY <1>0, <2>3
    <3>2. f[i] \in Seq(T) /\ f[i + 1] = f[i] \o w[i + 1]
      BY <1>4, <1>6, <3>1
    <3> QED
      BY <2>1, <3>2
  <2> QED
    BY <2>2, <2>3
<1> HIDE DEF N
<1>7. Nat \subseteq N
  BY <1>5, <1>6, AllNaturals
<1>8. \A i \in 1..n : f[i] \in Seq(T)
  BY <1>0, <1>7 DEF N
<1> QED
  BY <1>3, <1>4, <1>8

LEMMA FlattenTyped ==
    ASSUME NEW T, NEW w \in Seq(Seq(T)), Len(w) >= 1
    PROVE  FlattenSeq(w) \in Seq(T)
  BY FlattenByFunction

LEMMA FlattenSilent ==
    ASSUME NEW T, NEW w \in Seq(Seq(T)), Len(w) >= 1, \A i \in 1..Len(w) : w[i] = <<>>
    PROVE  FlattenSeq(w) = <<>>
<1> DEFINE n == Len(w)
<1>1. PICK f : /\ FlattenSeq(w) = f[n]
               /\ \A i \in 1..n : /\ f[i] = IF i = 1 THEN w[i] ELSE f[i - 1] \o w[i]
                                  /\ f[i] \in Seq(T)
  BY FlattenByFunction
<1>2. n \in Nat /\ n >= 1
  OBVIOUS
<1> DEFINE N == {i \in Nat : i \in 1..n => f[i] = <<>>}
<1>3. 0 \in N
  OBVIOUS
<1>4. ASSUME NEW i \in Nat, i \in N PROVE i + 1 \in N
  <2> SUFFICES ASSUME i + 1 \in 1..n PROVE f[i + 1] = <<>>
    OBVIOUS
  <2>1. CASE i = 0
    BY <1>1, <2>1
  <2>2. CASE i # 0
    <3>0. i \in 1..n /\ i + 1 # 1 /\ (i + 1) - 1 = i
      BY <1>2, <2>2
    <3>1. f[i] = <<>> /\ f[i + 1] = f[i] \o w[i + 1] /\ w[i + 1] = <<>>
      BY <1>1, <1>4, <3>0
    <3> QED
      BY <3>1
  <2> QED
    BY <2>1, <2>2
<1> HIDE DEF N
<1>5. Nat \subseteq N
  BY <1>3, <1>4, AllNaturals
<1> QED
  BY <1>1, <1>2, <1>5 DEF N

\* Sequence c, after which all are empty, is longer by m in v than it is in w.
EndsLonger(w, v, c, m) ==
    /\ Len(v) = Len(w)
    /\ \A i \in 1..Len(w) : v[i] = IF i = c THEN Append(w[i], m) ELSE w[i]
    /\ \A d \in 1..Len(w) : d > c => w[d] = <<>>

\* What is added to the last that is not empty comes after everything else.
LEMMA FlattenAppend ==
    ASSUME NEW T, NEW w \in Seq(Seq(T)), NEW v \in Seq(Seq(T)),
           NEW c \in 1..Len(w), NEW m \in T, EndsLonger(w, v, c, m)
    PROVE  FlattenSeq(v) = Append(FlattenSeq(w), m)
<1> DEFINE n == Len(w)
<1>1. n \in Nat /\ c \in 1..n /\ n >= 1
  OBVIOUS
<1>2. \A i \in 1..n : w[i] \in Seq(T)
  OBVIOUS
<1>3. /\ Len(v) = n
      /\ \A i \in 1..n : v[i] = IF i = c THEN Append(w[i], m) ELSE w[i]
      /\ \A d \in 1..n : d > c => w[d] = <<>>
  BY DEF EndsLonger
<1>4. PICK f : /\ FlattenSeq(w) = f[n]
               /\ \A i \in 1..n : /\ f[i] = IF i = 1 THEN w[i] ELSE f[i - 1] \o w[i]
                                  /\ f[i] \in Seq(T)
  BY <1>1, FlattenByFunction
<1>5. PICK g : /\ FlattenSeq(v) = g[n]
               /\ \A i \in 1..n : g[i] = IF i = 1 THEN v[i] ELSE g[i - 1] \o v[i]
  <2>1. \E g : /\ FlattenSeq(v) = g[Len(v)]
               /\ \A i \in 1..Len(v) : /\ g[i] = IF i = 1 THEN v[i] ELSE g[i - 1] \o v[i]
                                       /\ g[i] \in Seq(T)
    BY <1>1, <1>3, FlattenByFunction
  <2> QED
    BY <1>3, <2>1
<1> DEFINE N == {i \in Nat : i \in 1..n => g[i] = IF i < c THEN f[i] ELSE Append(f[i], m)}
<1>6. 0 \in N
  OBVIOUS
<1>7. ASSUME NEW i \in Nat, i \in N PROVE i + 1 \in N
  <2> SUFFICES ASSUME i + 1 \in 1..n
               PROVE  g[i + 1] = IF i + 1 < c THEN f[i + 1] ELSE Append(f[i + 1], m)
    OBVIOUS
  <2>1. CASE i = 0
    BY <1>1, <1>3, <1>4, <1>5, <2>1
  <2>2. CASE i # 0
    <3>0. i \in 1..n /\ i + 1 # 1 /\ (i + 1) - 1 = i
      BY <1>1, <2>2
    <3>1. /\ g[i] = IF i < c THEN f[i] ELSE Append(f[i], m)
          /\ f[i] \in Seq(T) /\ w[i + 1] \in Seq(T)
          /\ f[i + 1] = f[i] \o w[i + 1] /\ g[i + 1] = g[i] \o v[i + 1]
      BY <1>2, <1>4, <1>5, <1>7, <3>0
    <3>2. CASE i + 1 < c
      <4>1. i < c /\ i + 1 # c
        BY <1>1, <3>2
      <4>2. v[i + 1] = w[i + 1]
        BY <1>3, <4>1
      <4> QED
        BY <3>1, <3>2, <4>1, <4>2
    <3>3. CASE i + 1 = c
      <4>1. i < c /\ ~(i + 1 < c)
        BY <1>1, <3>3
      <4>2. v[i + 1] = Append(w[i + 1], m)
        BY <1>3, <3>3
      <4>3. f[i] \o Append(w[i + 1], m) = Append(f[i] \o w[i + 1], m)
        <5> DEFINE a == f[i]
                   b == w[i + 1]
        <5>1. a \in Seq(T) /\ b \in Seq(T)
          BY <3>1
        <5> HIDE DEF a, b
        <5>2. a \o Append(b, m) = Append(a \o b, m)
          BY <5>1, ConcatAppend, Zenon
        <5> QED
          BY <5>2 DEF a, b
      <4> QED
        BY <3>1, <4>1, <4>2, <4>3
    <3>4. CASE i + 1 > c
      <4>1. ~(i < c) /\ ~(i + 1 < c) /\ v[i + 1] = <<>> /\ w[i + 1] = <<>>
        BY <1>1, <1>3, <3>4
      <4>2. Append(f[i], m) \o <<>> = Append(f[i], m) /\ f[i] \o <<>> = f[i]
        BY <3>1
      <4> QED
        BY <3>1, <4>1, <4>2
    <3> QED
      BY <1>1, <3>2, <3>3, <3>4
  <2> QED
    BY <2>1, <2>2
<1> HIDE DEF N
<1>8. Nat \subseteq N
  BY <1>6, <1>7, AllNaturals
<1>9. g[n] = Append(f[n], m)
  <2>1. n \in N /\ n \in 1..n /\ ~(n < c)
    BY <1>1, <1>8
  <2> QED
    BY <2>1 DEF N
<1> QED
  BY <1>4, <1>5, <1>9

=============================================================================
