--------------------------- MODULE FlattenTheorems ---------------------------
(***************************************************************************)
(* Facts about FlattenSeq, which puts sequences one behind the other: what *)
(* it makes of none, of one more and of the rest, its type and its length. *)
(* It is defined by recursion along the sequence; the facts come from the  *)
(* least number a claim fails for.  And where its blocks are found in it,  *)
(* and a number in its digits.                                             *)
(***************************************************************************)
EXTENDS SequencesExt, Integers, WellFoundedInduction, NaturalsInduction, TLAPS

\* A set of numbers that is not empty has a least one.
LEMMA LeastNatural ==
  ASSUME NEW T \in SUBSET Nat, T # {}
  PROVE  \E n \in T : \A k \in T : n <= k
<1> DEFINE Less == {p \in Nat \X Nat : p[1] < p[2]}
<1>1. IsWellFoundedOn(Less, Nat)
  BY NatLessThanWellFounded DEF OpToRel
<1>2. \E n \in T : \A k \in T : ~ (<<k, n>> \in Less)
  <2> HIDE DEF Less
  <2> QED
    BY <1>1, WFMin
<1>3. PICK n \in T : \A k \in T : ~ (<<k, n>> \in Less)
  BY <1>2
<1>4. ASSUME NEW k \in T
      PROVE  n <= k
  <2>1. ~ (<<k, n>> \in Less) /\ k \in Nat /\ n \in Nat
    BY <1>3
  <2>2. <<k, n>>[1] = k /\ <<k, n>>[2] = n
    OBVIOUS
  <2>3. QED
    BY <2>1, <2>2
<1>5. QED
  BY <1>4

\* f[i] is the first i of the blocks q, one behind the other, for i up to n.
Joins(f, q, n) == f = [i \in 1 .. n |-> IF i = 1 THEN q[i] ELSE f[i - 1] \o q[i]]

\* What a numbered claim needs to hold up to n: that no number is the first it fails for.
LEMMA UpTo ==
  ASSUME NEW n \in Nat, NEW Holds \in SUBSET Nat, 1 \in Holds,
         \A k \in Nat \ {0} : k < n /\ k \in Holds => k + 1 \in Holds
  PROVE  1 .. n \subseteq Holds
<1> SUFFICES ASSUME ~(1 .. n \subseteq Holds) PROVE FALSE
  OBVIOUS
<1> DEFINE Fails == (1 .. n) \ Holds
<1>1. PICK k \in Fails : \A i \in Fails : k <= i
  <2>1. Fails \in SUBSET Nat /\ Fails # {}
    OBVIOUS
  <2> HIDE DEF Fails
  <2>2. QED
    BY <2>1, LeastNatural
<1>2. k # 1 /\ k - 1 \in Nat \ {0} /\ k - 1 < n /\ k - 1 \in Holds /\ (k - 1) + 1 = k
  BY <1>1
<1>3. QED
  BY <1>1, <1>2

\* The same from 0 on.
LEMMA FromZero ==
  ASSUME NEW n \in Nat, NEW Holds \in SUBSET Nat, 0 \in Holds,
         \A k \in Nat : k < n /\ k \in Holds => k + 1 \in Holds
  PROVE  0 .. n \subseteq Holds
<1> SUFFICES ASSUME ~(0 .. n \subseteq Holds) PROVE FALSE
  OBVIOUS
<1> DEFINE Fails == (0 .. n) \ Holds
<1>1. PICK k \in Fails : \A i \in Fails : k <= i
  <2>1. Fails \in SUBSET Nat /\ Fails # {}
    OBVIOUS
  <2> HIDE DEF Fails
  <2>2. QED
    BY <2>1, LeastNatural
<1>2. k # 0 /\ k - 1 \in Nat /\ k - 1 < n /\ k - 1 \in Holds /\ (k - 1) + 1 = k
  BY <1>1
<1>3. QED
  BY <1>1, <1>2

LEMMA JoinsSteps ==
  ASSUME NEW f, NEW q, NEW n \in Nat, Joins(f, q, n)
  PROVE  /\ n # 0 => f[1] = q[1]
         /\ \A k \in Nat \ {0} : k < n => f[k + 1] = f[k] \o q[k + 1]
<1>1. \A i \in 1 .. n : f[i] = IF i = 1 THEN q[i] ELSE f[i - 1] \o q[i]
  BY DEF Joins
<1>2. ASSUME NEW k \in Nat \ {0}, k < n
      PROVE  f[k + 1] = f[k] \o q[k + 1]
  <2>1. k + 1 \in 1 .. n /\ k + 1 # 1 /\ (k + 1) - 1 = k
    BY <1>2
  <2>2. f[k + 1] = f[(k + 1) - 1] \o q[k + 1]
    BY ONLY <1>1, <2>1
  <2>3. QED
    BY <2>1, <2>2
<1>3. n # 0 => f[1] = q[1]
  BY <1>1
<1>4. QED
  BY <1>2, <1>3

LEMMA JoinsAgree ==
  ASSUME NEW f, NEW g, NEW q, NEW r, NEW n \in Nat, NEW m \in Nat,
         Joins(f, q, n), Joins(g, r, m), n <= m, \A i \in 1 .. n : q[i] = r[i]
  PROVE  \A i \in 1 .. n : f[i] = g[i]
<1> DEFINE Holds == {i \in 1 .. n : f[i] = g[i]}
<1>1. CASE n = 0
  BY <1>1
<1>2. /\ n # 0 => f[1] = q[1]
      /\ \A k \in Nat \ {0} : k < n => f[k + 1] = f[k] \o q[k + 1]
  BY ONLY n \in Nat, Joins(f, q, n), JoinsSteps
<1>3. /\ m # 0 => g[1] = r[1]
      /\ \A k \in Nat \ {0} : k < m => g[k + 1] = g[k] \o r[k + 1]
  BY ONLY m \in Nat, Joins(g, r, m), JoinsSteps
<1>4. CASE n # 0
  <2>1. 1 \in Holds
    <3>1. 1 \in 1 .. n /\ m # 0
      BY <1>4
    <3>2. f[1] = q[1]
      BY <1>2, <1>4
    <3>3. g[1] = r[1]
      BY <1>3, <3>1
    <3>4. QED
      BY <3>1, <3>2, <3>3
  <2>2. ASSUME NEW k \in Nat \ {0}, k < n, k \in Holds
        PROVE  k + 1 \in Holds
    <3>1. k + 1 \in 1 .. n /\ k < m
      BY <2>2
    <3>2. f[k + 1] = f[k] \o q[k + 1] /\ g[k + 1] = g[k] \o r[k + 1]
      BY <1>2, <1>3, <2>2, <3>1
    <3>3. f[k] = g[k] /\ q[k + 1] = r[k + 1]
      BY <2>2, <3>1
    <3>4. QED
      BY <3>1, <3>2, <3>3
  <2>3. Holds \in SUBSET Nat
    OBVIOUS
  <2> HIDE DEF Holds
  <2>4. 1 .. n \subseteq Holds
    BY <2>1, <2>2, <2>3, UpTo
  <2>5. QED
    BY <2>4 DEF Holds
<1>5. QED
  BY <1>1, <1>4

LEMMA JoinsExists ==
  ASSUME NEW q, NEW n \in Nat
  PROVE  \E f : Joins(f, q, n)
<1> DEFINE Holds == {i \in Nat : \E f : Joins(f, q, i)}
<1>1. 0 \in Holds
  <2>1. Joins(<<>>, q, 0)
    BY DEF Joins
  <2>2. QED
    BY <2>1
<1>2. ASSUME NEW k \in Nat, k \in Holds
      PROVE  k + 1 \in Holds
  <2>1. PICK f : Joins(f, q, k)
    BY <1>2
  <2> DEFINE g == [i \in 1 .. k + 1 |->
                     IF i = 1 THEN q[i] ELSE f[i - 1] \o q[i]]
  <2>2. \A i \in 1 .. k : f[i] = IF i = 1 THEN q[i] ELSE f[i - 1] \o q[i]
    BY <2>1 DEF Joins
  <2>3. \A i \in 1 .. k : g[i] = f[i]
    BY <2>2
  <2>4. g = [i \in 1 .. k + 1 |-> IF i = 1 THEN q[i] ELSE g[i - 1] \o q[i]]
    <3>1. \A i \in 1 .. k + 1 : i # 1 => i - 1 \in 1 .. k
      OBVIOUS
    <3> DEFINE h == [i \in 1 .. k + 1 |-> IF i = 1 THEN q[i] ELSE g[i - 1] \o q[i]]
    <3>2. \A i \in 1 .. k + 1 : g[i] = h[i]
      BY <2>3, <3>1
    <3>3. QED
      BY <3>2
  <2>6. Joins(g, q, k + 1)
    BY <2>4 DEF Joins
  <2>5. QED
    BY <2>6
<1>3. Holds \in SUBSET Nat
  OBVIOUS
<1> HIDE DEF Holds
<1>4. n \in Holds
  BY <1>1, <1>2, <1>3, UpTo
<1>5. QED
  BY <1>4 DEF Holds

\* Blocks, one behind the other, are a sequence of what they hold.
LEMMA JoinsType ==
  ASSUME NEW S, NEW q \in Seq(Seq(S)), NEW f, Joins(f, q, Len(q))
  PROVE  \A i \in 1 .. Len(q) : f[i] \in Seq(S)
<1> DEFINE Holds == {i \in 1 .. Len(q) : f[i] \in Seq(S)}
<1>1. Len(q) \in Nat /\ \A i \in 1 .. Len(q) : q[i] \in Seq(S)
  OBVIOUS
<1>4. /\ Len(q) # 0 => f[1] = q[1]
      /\ \A k \in Nat \ {0} : k < Len(q) => f[k + 1] = f[k] \o q[k + 1]
  BY <1>1, JoinsSteps
<1>2. CASE Len(q) # 0
  <2>1. 1 \in Holds
    BY <1>1, <1>2, <1>4
  <2>2. ASSUME NEW k \in Nat \ {0}, k < Len(q), k \in Holds
        PROVE  k + 1 \in Holds
    <3>1. k + 1 \in 1 .. Len(q) /\ f[k] \in Seq(S) /\ q[k + 1] \in Seq(S)
      BY <1>1, <2>2
    <3>2. f[k + 1] = f[k] \o q[k + 1]
      BY <1>4, <2>2
    <3>3. f[k] \o q[k + 1] \in Seq(S)
      BY <3>1
    <3>4. QED
      BY <3>1, <3>2, <3>3
  <2>3. Holds \in SUBSET Nat
    OBVIOUS
  <2> HIDE DEF Holds
  <2>4. 1 .. Len(q) \subseteq Holds
    BY <1>1, <2>1, <2>2, <2>3, UpTo
  <2>5. QED
    BY <2>4 DEF Holds
<1>3. CASE Len(q) = 0
  BY <1>3
<1>5. QED
  BY <1>1, <1>2, <1>3

LEMMA FlattenJoins ==
  ASSUME NEW S, NEW q \in Seq(Seq(S)), Len(q) # 0
  PROVE  \E f : Joins(f, q, Len(q)) /\ FlattenSeq(q) = f[Len(q)]
<1>1. Len(q) \in Nat
  OBVIOUS
<1> DEFINE flatten == CHOOSE f : Joins(f, q, Len(q))
<1>2. \E f : Joins(f, q, Len(q))
  BY <1>1, JoinsExists
<1>3. Joins(flatten, q, Len(q))
  BY <1>2
<1>4. FlattenSeq(q) = flatten[Len(q)]
  BY DEF FlattenSeq, Joins
<1>5. QED
  BY <1>3, <1>4

\* What FlattenSeq does to an empty queue, to a push and to a pop.
LEMMA FlattenNone == FlattenSeq(<<>>) = <<>>
BY DEF FlattenSeq

LEMMA FlattenType ==
  ASSUME NEW S, NEW q \in Seq(Seq(S))
  PROVE  FlattenSeq(q) \in Seq(S)
<1>1. CASE Len(q) = 0
  BY <1>1 DEF FlattenSeq
<1>2. CASE Len(q) # 0
  <2>1. PICK f : Joins(f, q, Len(q)) /\ FlattenSeq(q) = f[Len(q)]
    BY <1>2, FlattenJoins
  <2>2. Len(q) \in 1 .. Len(q)
    BY <1>2
  <2>3. QED
    BY <2>1, <2>2, JoinsType
<1>3. QED
  BY <1>1, <1>2

LEMMA JoinsInAnyOrder == \A S : \A u, v, w \in Seq(S) : (u \o v) \o w = u \o (v \o w)
OBVIOUS

LEMMA JoinsTail ==
  ASSUME NEW S, NEW q \in Seq(Seq(S)), NEW n \in Nat \ {0}, NEW f, NEW g,
         Len(q) = n + 1, Joins(f, Tail(q), n), Joins(g, q, Len(q))
  PROVE  g[Len(q)] = Head(q) \o f[n]
<1>1. /\ Tail(q) \in Seq(Seq(S)) /\ Len(Tail(q)) = n
      /\ \A i \in 1 .. n : Tail(q)[i] = q[i + 1] /\ Tail(q)[i] \in Seq(S)
      /\ Head(q) = q[1] /\ Head(q) \in Seq(S)
  OBVIOUS
<1>2. \A i \in 1 .. n : f[i] \in Seq(S)
  BY <1>1, JoinsType
<1>3. /\ f[1] = Tail(q)[1]
      /\ \A k \in Nat \ {0} : k < n => f[k + 1] = f[k] \o Tail(q)[k + 1]
  BY ONLY n \in Nat \ {0}, Joins(f, Tail(q), n), JoinsSteps
<1>4. g[1] = q[1] /\ \A k \in Nat \ {0} : k < n + 1 => g[k + 1] = g[k] \o q[k + 1]
  <2>1. Len(q) \in Nat /\ Len(q) # 0
    OBVIOUS
  <2>2. /\ Len(q) # 0 => g[1] = q[1]
        /\ \A k \in Nat \ {0} : k < Len(q) => g[k + 1] = g[k] \o q[k + 1]
    BY ONLY <2>1, Joins(g, q, Len(q)), JoinsSteps
  <2>3. QED
    BY <2>1, <2>2
<1> DEFINE Holds == {i \in 1 .. n : g[i + 1] = Head(q) \o f[i]}
<1>5. 1 \in Holds
  <2>1. 1 \in 1 .. n /\ 1 < n + 1 /\ 1 \in Nat \ {0}
    OBVIOUS
  <2>2. g[1 + 1] = g[1] \o q[1 + 1] /\ Tail(q)[1] = q[1 + 1]
    BY <1>1, <1>4, <2>1
  <2>3. QED
    BY <1>1, <1>3, <1>4, <2>1, <2>2
<1>6. ASSUME NEW k \in Nat \ {0}, k < n, k \in Holds
      PROVE  k + 1 \in Holds
  <2>1. k + 1 \in 1 .. n /\ k \in 1 .. n /\ k + 1 \in Nat \ {0} /\ k + 1 < n + 1
    BY <1>6
  <2>2. /\ f[k + 1] = f[k] \o Tail(q)[k + 1]
        /\ g[(k + 1) + 1] = g[k + 1] \o q[(k + 1) + 1]
    BY ONLY <1>3, <1>4, <1>6, <2>1
  <2>3. g[k + 1] = Head(q) \o f[k] /\ Tail(q)[k + 1] = q[(k + 1) + 1]
    BY <1>1, <1>6, <2>1
  <2>4. PICK u, v, w \in Seq(S) : u = Head(q) /\ v = f[k] /\ w = Tail(q)[k + 1]
    BY <1>1, <1>2, <2>1
  <2>5. (u \o v) \o w = u \o (v \o w)
    BY ONLY u \in Seq(S), v \in Seq(S), w \in Seq(S), JoinsInAnyOrder
  <2>6. g[(k + 1) + 1] = Head(q) \o f[k + 1]
    BY <2>2, <2>3, <2>4, <2>5
  <2>7. QED
    BY <2>1, <2>6
<1>7. Holds \in SUBSET Nat
  <2>1. 1 .. n \subseteq Nat
    OBVIOUS
  <2>2. QED
    BY <2>1, Zenon
<1> HIDE DEF Holds
<1>8. 1 .. n \subseteq Holds
  BY <1>5, <1>6, <1>7, UpTo
<1>9. n \in Holds
  BY <1>8
<1>10. QED
  BY <1>9, Zenon DEF Holds

LEMMA FlattenPush ==
  ASSUME NEW S, NEW q \in Seq(Seq(S)), NEW s \in Seq(S)
  PROVE  FlattenSeq(Append(q, s)) = FlattenSeq(q) \o s
<1> DEFINE r == Append(q, s)
<1>1. /\ r \in Seq(Seq(S)) /\ Len(q) \in Nat /\ Len(r) \in Nat
      /\ Len(r) = Len(q) + 1 /\ Len(r) # 0
      /\ r[Len(r)] = s /\ \A i \in 1 .. Len(q) : q[i] = r[i]
  OBVIOUS
<1> HIDE DEF r
<1>2. PICK g : Joins(g, r, Len(r)) /\ FlattenSeq(r) = g[Len(r)]
  BY <1>1, FlattenJoins
<1>3. CASE Len(q) = 0
  <2>1. g[1] = r[1]
    BY <1>1, <1>2, JoinsSteps
  <2>2. q = <<>> /\ <<>> \o s = s /\ Len(r) = 1
    BY <1>1, <1>3
  <2>3. FlattenSeq(r) = s
    BY <1>1, <1>2, <2>1, <2>2
  <2>4. QED
    BY <2>2, <2>3, FlattenNone DEF r
<1>4. CASE Len(q) # 0
  <2>1. PICK f : Joins(f, q, Len(q)) /\ FlattenSeq(q) = f[Len(q)]
    BY <1>4, FlattenJoins
  <2>2. Len(q) \in Nat \ {0}
    BY <1>1, <1>4
  <2>5. g[Len(r)] = f[Len(q)] \o r[Len(r)]
    <3>1. \A i \in 1 .. Len(q) : f[i] = g[i]
      <4>1. Len(q) <= Len(r)
        BY <1>1
      <4>2. QED
        BY <1>1, <1>2, <2>1, <4>1, JoinsAgree
    <3>2. \A k \in Nat \ {0} : k < Len(r) => g[k + 1] = g[k] \o r[k + 1]
      <4>1. Len(r) \in Nat /\ Joins(g, r, Len(r))
        BY <1>1, <1>2
      <4>2. QED
        BY ONLY <4>1, JoinsSteps
    <3>3. Len(q) \in 1 .. Len(q) /\ Len(q) < Len(r)
      BY <1>1, <2>2
    <3>4. g[Len(q) + 1] = g[Len(q)] \o r[Len(q) + 1] /\ f[Len(q)] = g[Len(q)]
      BY <2>2, <3>1, <3>2, <3>3
    <3>5. QED
      BY <1>1, <3>4
  <2>3. FlattenSeq(r) = FlattenSeq(q) \o s
    BY <1>1, <1>2, <2>1, <2>5
  <2>4. QED
    BY <2>3 DEF r
<1>5. QED
  BY <1>3, <1>4

LEMMA FlattenPop ==
  ASSUME NEW S, NEW q \in Seq(Seq(S)), q # <<>>
  PROVE  FlattenSeq(q) = Head(q) \o FlattenSeq(Tail(q))
<1> DEFINE r == Tail(q)
<1>1. /\ r \in Seq(Seq(S)) /\ Len(r) \in Nat /\ Len(q) = Len(r) + 1
      /\ Head(q) = q[1] /\ Head(q) \in Seq(S) /\ Len(q) # 0 /\ Len(q) \in Nat
  OBVIOUS
<1>2. PICK g : Joins(g, q, Len(q)) /\ FlattenSeq(q) = g[Len(q)]
  BY <1>1, FlattenJoins
<1>3. CASE Len(r) = 0
  <2>1. g[1] = q[1]
    BY <1>1, <1>2, JoinsSteps
  <2>2. r = <<>>
    <3>1. \A t \in Seq(Seq(S)) : Len(t) = 0 => t = <<>>
      OBVIOUS
    <3>2. QED
      BY <1>1, <1>3, <3>1
  <2>3. Head(q) \o <<>> = Head(q)
    BY <1>1
  <2>4. FlattenSeq(q) = g[1]
    <3>1. Len(q) = 1
      <4> HIDE DEF r
      <4>1. QED
        BY <1>1, <1>3
    <3>2. QED
      BY <1>2, <3>1
  <2>5. QED
    BY <1>1, <2>1, <2>2, <2>3, <2>4, FlattenNone
<1>4. CASE Len(r) # 0
  <2>1. PICK f : Joins(f, r, Len(r)) /\ FlattenSeq(r) = f[Len(r)]
    <3> HIDE DEF r
    <3>1. QED
      BY <1>1, <1>4, FlattenJoins
  <2>2. g[Len(q)] = Head(q) \o f[Len(r)]
    <3>1. /\ Len(r) \in Nat \ {0} /\ Len(q) = Len(r) + 1
          /\ Joins(f, Tail(q), Len(r)) /\ Joins(g, q, Len(q))
      BY <1>1, <1>2, <1>4, <2>1
    <3>2. QED
      BY ONLY <3>1, q \in Seq(Seq(S)), JoinsTail
  <2>3. QED
    BY <1>2, <2>1, <2>2
<1>5. QED
  BY <1>3, <1>4

\* Blocks of the same length.
LEMMA FlattenLength ==
  ASSUME NEW S, NEW q \in Seq(Seq(S)), NEW size \in Nat,
         \A i \in 1 .. Len(q) : Len(q[i]) = size
  PROVE  Len(FlattenSeq(q)) = size * Len(q)
<1>1. Len(q) \in Nat /\ \A i \in 1 .. Len(q) : q[i] \in Seq(S)
  OBVIOUS
<1>2. CASE Len(q) = 0
  BY <1>2 DEF FlattenSeq
<1>3. CASE Len(q) # 0
  <2>1. PICK f : Joins(f, q, Len(q)) /\ FlattenSeq(q) = f[Len(q)]
    BY <1>3, FlattenJoins
  <2>2. \A i \in 1 .. Len(q) : f[i] \in Seq(S)
    BY <2>1, JoinsType
  <2>3. /\ f[1] = q[1]
        /\ \A k \in Nat \ {0} : k < Len(q) => f[k + 1] = f[k] \o q[k + 1]
    <3>1. Len(q) \in Nat /\ Len(q) # 0 /\ Joins(f, q, Len(q))
      BY <1>1, <1>3, <2>1
    <3>2. QED
      BY ONLY <3>1, JoinsSteps
  <2> DEFINE Holds == {i \in 1 .. Len(q) : Len(f[i]) = size * i}
  <2>4. 1 \in Holds
    BY <1>1, <1>3, <2>3
  <2>5. ASSUME NEW k \in Nat \ {0}, k < Len(q), k \in Holds
        PROVE  k + 1 \in Holds
    <3>1. k \in 1 .. Len(q) /\ k + 1 \in 1 .. Len(q)
      BY <1>1, <2>5
    <3>6. f[k + 1] = f[k] \o q[k + 1]
      BY <2>3, <2>5
    <3>7. Len(f[k]) = size * k
      BY <2>5
    <3>2. f[k] \in Seq(S) /\ q[k + 1] \in Seq(S) /\ Len(q[k + 1]) = size
      BY <1>1, <2>2, <3>1
    <3>8. \A u, v \in Seq(S) : Len(u \o v) = Len(u) + Len(v)
      OBVIOUS
    <3>3. Len(f[k] \o q[k + 1]) = Len(f[k]) + Len(q[k + 1])
      BY <3>2, <3>8
    <3>4. size * (k + 1) = size * k + size
      OBVIOUS
    <3>9. Len(f[k + 1]) = size * (k + 1)
      BY <3>2, <3>3, <3>4, <3>6, <3>7
    <3>5. QED
      BY <3>1, <3>9
  <2>6. Holds \in SUBSET Nat
    OBVIOUS
  <2> HIDE DEF Holds
  <2>7. 1 .. Len(q) \subseteq Holds
    BY <1>1, <2>4, <2>5, <2>6, UpTo
  <2>10. Len(q) \in Holds
    BY <1>1, <1>3, <2>7
  <2>8. Len(f[Len(q)]) = size * Len(q)
    BY <2>10, Zenon DEF Holds
  <2>9. QED
    BY <2>1, <2>8
<1>4. QED
  BY <1>2, <1>3

-----------------------------------------------------------------------------
(* What is found in what was put together.                                 *)

\* The buffer has the bytes from the index at on.
HasAt(buf, at, bytes) ==
  /\ at + Len(bytes) - 1 <= Len(buf)
  /\ \A i \in 1 .. Len(bytes) : buf[at + i - 1] = bytes[i]

LEMMA HasParts ==
  ASSUME NEW S, NEW buf \in Seq(S), NEW at \in Nat \ {0}, NEW u \in Seq(S), NEW w \in Seq(S),
         HasAt(buf, at, u \o w)
  PROVE  HasAt(buf, at, u) /\ HasAt(buf, at + Len(u), w) /\ at + Len(u) \in Nat \ {0}
<1>1. /\ Len(u) \in Nat /\ Len(w) \in Nat /\ Len(u \o w) = Len(u) + Len(w) /\ Len(buf) \in Nat
      /\ \A i \in 1 .. Len(u) : (u \o w)[i] = u[i]
      /\ \A i \in 1 .. Len(w) : (u \o w)[Len(u) + i] = w[i]
  OBVIOUS
<1>2. HasAt(buf, at, u)
  BY <1>1 DEF HasAt
<1>3. \A i \in 1 .. Len(w) : buf[(at + Len(u)) + i - 1] = w[i]
  <2>1. TAKE i \in 1 .. Len(w)
  <2>2. Len(u) + i \in 1 .. Len(u \o w) /\ at + (Len(u) + i) - 1 = (at + Len(u)) + i - 1
    BY <1>1
  <2>3. buf[at + (Len(u) + i) - 1] = (u \o w)[Len(u) + i]
    BY <2>2 DEF HasAt
  <2>4. QED
    BY <1>1, <2>2, <2>3
<1>4. HasAt(buf, at + Len(u), w)
  BY <1>1, <1>3 DEF HasAt
<1>5. QED
  BY <1>1, <1>2, <1>4

LEMMA HasSub ==
  ASSUME NEW S, NEW buf \in Seq(S), NEW at \in Nat \ {0}, NEW u \in Seq(S), HasAt(buf, at, u),
         NEW last, last = at + Len(u) - 1
  PROVE  SubSeq(buf, at, last) = u
<1>1. \A q, r \in Seq(S) : Len(q) = Len(r) /\ (\A i \in 1 .. Len(q) : q[i] = r[i]) => q = r
  OBVIOUS
<1>2. /\ Len(u) \in Nat /\ Len(buf) \in Nat /\ last <= Len(buf) /\ last \in Int
      /\ \A i \in 1 .. Len(u) : buf[at + i - 1] = u[i]
  BY DEF HasAt
<1>3. \A m \in Nat \ {0} : \A n \in Int : m <= n + 1 /\ n <= Len(buf) =>
        /\ SubSeq(buf, m, n) \in Seq(S) /\ Len(SubSeq(buf, m, n)) = n - m + 1
        /\ \A i \in 1 .. n - m + 1 : SubSeq(buf, m, n)[i] = buf[m + i - 1]
  OBVIOUS
<1>4. /\ SubSeq(buf, at, last) \in Seq(S) /\ Len(SubSeq(buf, at, last)) = Len(u)
      /\ \A i \in 1 .. Len(u) : SubSeq(buf, at, last)[i] = buf[at + i - 1]
  <2>1. at <= last + 1 /\ last - at + 1 = Len(u)
    BY <1>2
  <2>2. QED
    BY <1>2, <1>3, <2>1
<1>5. QED
  BY <1>1, <1>2, <1>4

\* Where the parts of what was written are.  (Their lengths are given by name: the
\* provers do better without numbers here.)
LEMMA ThreeParts ==
  ASSUME NEW S, NEW c1 \in Seq(S), NEW c2 \in Seq(S), NEW c3 \in Seq(S)
  PROVE  /\ c1 \o c2 \o c3 \in Seq(S) /\ Len(c1 \o c2 \o c3) = Len(c1) + Len(c2) + Len(c3)
         /\ \A buf \in Seq(S), at \in Nat \ {0} : HasAt(buf, at, c1 \o c2 \o c3) =>
              /\ HasAt(buf, at, c1) /\ HasAt(buf, at + Len(c1), c2)
              /\ HasAt(buf, at + Len(c1) + Len(c2), c3)
<1>1. c1 \o c2 \in Seq(S) /\ Len(c1 \o c2) = Len(c1) + Len(c2) /\ Len(c1) \in Nat /\ Len(c2) \in Nat
  OBVIOUS
<1> DEFINE a == c1 \o c2
<1>2. ASSUME NEW buf \in Seq(S), NEW at \in Nat \ {0}, HasAt(buf, at, a \o c3)
      PROVE  /\ HasAt(buf, at, c1) /\ HasAt(buf, at + Len(c1), c2)
             /\ HasAt(buf, at + Len(c1) + Len(c2), c3)
  <2> HIDE DEF a
  <2>1. HasAt(buf, at, a) /\ HasAt(buf, at + Len(a), c3)
    BY <1>1, <1>2, HasParts DEF a
  <2>2. at + Len(a) = at + Len(c1) + Len(c2)
    BY <1>1 DEF a
  <2>3. HasAt(buf, at, c1) /\ HasAt(buf, at + Len(c1), c2)
    BY <2>1, HasParts DEF a
  <2>4. QED
    BY <2>1, <2>2, <2>3
<1>3. a \o c3 \in Seq(S) /\ Len(a \o c3) = Len(c1) + Len(c2) + Len(c3)
  <2> HIDE DEF a
  <2>1. Len(a \o c3) = Len(a) + Len(c3) /\ a \o c3 \in Seq(S)
    BY <1>1 DEF a
  <2>2. QED
    BY <1>1, <2>1 DEF a
<1>4. QED
  BY <1>2, <1>3

\* What is behind it changes nothing of what a buffer has, and is had, too.
LEMMA HasMore ==
  ASSUME NEW S, NEW u \in Seq(S), NEW w \in Seq(S)
  PROVE  /\ \A at \in Nat \ {0}, c \in Seq(S) : HasAt(u, at, c) => HasAt(u \o w, at, c)
         /\ HasAt(u \o w, Len(u) + 1, w)
<1>1. /\ Len(u) \in Nat /\ Len(w) \in Nat /\ Len(u \o w) = Len(u) + Len(w)
      /\ \A i \in 1 .. Len(u) : (u \o w)[i] = u[i]
      /\ \A i \in 1 .. Len(w) : (u \o w)[Len(u) + i] = w[i]
  OBVIOUS
<1>2. ASSUME NEW at \in Nat \ {0}, NEW c \in Seq(S), HasAt(u, at, c)
      PROVE  HasAt(u \o w, at, c)
  <2>1. Len(c) \in Nat /\ at + Len(c) - 1 <= Len(u) /\ \A i \in 1 .. Len(c) : u[at + i - 1] = c[i]
    BY <1>2 DEF HasAt
  <2>2. \A i \in 1 .. Len(c) : at + i - 1 \in 1 .. Len(u)
    BY <1>1, <2>1
  <2>3. QED
    BY <1>1, <2>1, <2>2 DEF HasAt
<1>3. HasAt(u \o w, Len(u) + 1, w)
  <2>1. \A i \in 1 .. Len(w) : (Len(u) + 1) + i - 1 = Len(u) + i
    BY <1>1
  <2>2. QED
    BY <1>1, <2>1 DEF HasAt
<1>4. QED
  BY <1>2, <1>3

\* What a part of a buffer has is in the buffer.
LEMMA HasWithin ==
  ASSUME NEW S, NEW buf \in Seq(S), NEW at \in Nat \ {0}, NEW u \in Seq(S), HasAt(buf, at, u),
         NEW j \in Nat \ {0}, NEW c \in Seq(S), HasAt(u, j, c)
  PROVE  HasAt(buf, at + j - 1, c)
<1>1. /\ Len(u) \in Nat /\ Len(c) \in Nat /\ Len(buf) \in Nat
      /\ at + Len(u) - 1 <= Len(buf) /\ \A i \in 1 .. Len(u) : buf[at + i - 1] = u[i]
      /\ j + Len(c) - 1 <= Len(u) /\ \A i \in 1 .. Len(c) : u[j + i - 1] = c[i]
  BY DEF HasAt
<1>2. ASSUME NEW i \in 1 .. Len(c)
      PROVE  buf[(at + j - 1) + i - 1] = c[i]
  <2>1. j + i - 1 \in 1 .. Len(u) /\ at + (j + i - 1) - 1 = (at + j - 1) + i - 1
    BY <1>1
  <2>2. buf[at + (j + i - 1) - 1] = u[j + i - 1] /\ u[j + i - 1] = c[i]
    BY <1>1, <2>1
  <2>3. QED
    BY <2>1, <2>2
<1>3. (at + j - 1) + Len(c) - 1 <= Len(buf)
  BY <1>1
<1>4. QED
  BY <1>2, <1>3 DEF HasAt

\* Where the blocks end, and that each is found behind the end of the one before.
LEMMA FlattenHas ==
  ASSUME NEW S, NEW q \in Seq(Seq(S)), NEW ends, ends[0] = 0,
         \A k \in Nat : k < Len(q) => ends[k + 1] = ends[k] + Len(q[k + 1])
  PROVE  /\ Len(FlattenSeq(q)) = ends[Len(q)]
         /\ \A i \in 1 .. Len(q) : HasAt(FlattenSeq(q), ends[i - 1] + 1, q[i])
<1> DEFINE n == Len(q)
<1>1. n \in Nat /\ \A i \in 1 .. n : q[i] \in Seq(S) /\ Len(q[i]) \in Nat
  OBVIOUS
<1>2. CASE n = 0
  BY <1>2 DEF FlattenSeq
<1>3. CASE n # 0
  <2>1. PICK f : Joins(f, q, n) /\ FlattenSeq(q) = f[n]
    BY <1>3, FlattenJoins
  <2>2. f[1] = q[1] /\ \A k \in Nat \ {0} : k < n => f[k + 1] = f[k] \o q[k + 1]
    BY <1>1, <1>3, <2>1, JoinsSteps
  <2>3. \A i \in 1 .. n : f[i] \in Seq(S)
    BY <2>1, JoinsType
  <2> HIDE DEF n
  <2> DEFINE Has(k) == /\ Len(f[k]) = ends[k]
                       /\ \A i \in 1 .. k : ends[i - 1] + 1 \in Nat \ {0} /\ HasAt(f[k], ends[i - 1] + 1, q[i])
             Holds == {k \in 1 .. n : Has(k)}
  <2>4. 1 \in Holds
    <3>1. 1 \in 1 .. n /\ 0 < n
      BY <1>1, <1>3
    <3>2. ends[1] = Len(q[1])
      <4>1. ends[0 + 1] = ends[0] + Len(q[0 + 1])
        BY <3>1 DEF n
      <4>2. QED
        BY <1>1, <3>1, <4>1
    <3>3. HasAt(q[1], 1, q[1])
      BY <1>1, <3>1 DEF HasAt
    <3>4. \A i \in 1 .. 1 : i = 1 /\ ends[i - 1] + 1 = 1
      OBVIOUS
    <3>5. QED
      BY <2>2, <3>1, <3>2, <3>3, <3>4
  <2>5. ASSUME NEW k \in Nat \ {0}, k < n, k \in Holds
        PROVE  k + 1 \in Holds
    <3>1. k \in 1 .. n /\ k + 1 \in 1 .. n /\ Has(k)
      BY <1>1, <2>5
    <3>2. PICK u \in Seq(S) : u = f[k]
      BY <2>3, <3>1
    <3>3. PICK w \in Seq(S) : w = q[k + 1]
      BY <1>1, <3>1
    <3>4. f[k + 1] = u \o w
      BY <2>2, <2>5, <3>2, <3>3
    <3>5. Len(u) = ends[k] /\ Len(u) \in Nat /\ Len(w) \in Nat /\ Len(u \o w) = Len(u) + Len(w)
      BY <3>1, <3>2
    <3>6. ends[k + 1] = ends[k] + Len(w)
      BY <2>5, <3>3 DEF n
    <3>7. /\ \A at \in Nat \ {0}, c \in Seq(S) : HasAt(u, at, c) => HasAt(u \o w, at, c)
          /\ HasAt(u \o w, Len(u) + 1, w)
      BY HasMore
    <3>8. ASSUME NEW i \in 1 .. k + 1
          PROVE  ends[i - 1] + 1 \in Nat \ {0} /\ HasAt(u \o w, ends[i - 1] + 1, q[i])
      <4>1. CASE i = k + 1
        <5>1. ends[i - 1] + 1 = Len(u) + 1 /\ q[i] = w
          BY <3>3, <3>5, <4>1
        <5>2. QED
          BY <3>5, <3>7, <5>1
      <4>2. CASE i \in 1 .. k
        <5>1. ends[i - 1] + 1 \in Nat \ {0} /\ HasAt(u, ends[i - 1] + 1, q[i])
          BY <3>1, <3>2, <4>2
        <5>2. q[i] \in Seq(S)
          BY <1>1, <3>1, <4>2
        <5>3. QED
          BY <3>7, <5>1, <5>2
      <4>3. QED
        BY <4>1, <4>2
    <3>9. Len(f[k + 1]) = ends[k + 1]
      BY <3>4, <3>5, <3>6
    <3>10. QED
      BY <3>1, <3>4, <3>8, <3>9
  <2>6. Holds \in SUBSET Nat
    BY <1>1
  <2> HIDE DEF Holds
  <2>7. n \in Holds
    <3>1. 1 .. n \subseteq Holds
      BY <1>1, <2>4, <2>5, <2>6, UpTo
    <3>2. QED
      BY <1>1, <1>3, <3>1
  <2>8. Has(n)
    BY <2>7 DEF Holds
  <2>9. QED
    BY <2>1, <2>8 DEF n
<1>4. QED
  BY <1>1, <1>2, <1>3

-----------------------------------------------------------------------------
(* Numbers as four digits.                                                 *)

LEMMA DivMod ==
  \A b \in Nat \ {0} : \A v \in Nat :
    v \div b \in Nat /\ v % b \in 0 .. b - 1 /\ v = b * (v \div b) + (v % b)
OBVIOUS

LEMMA DivBelow ==
  ASSUME NEW b \in Nat \ {0}, NEW m \in Nat, NEW v \in Nat, v < m * b
  PROVE  v \div b < m
<1>1. PICK q \in Nat : q = v \div b
  BY DivMod
<1>2. PICK r \in Nat : r = v % b
  BY DivMod
<1>3. v = b * q + r
  BY <1>1, <1>2, DivMod
<1>4. b * q < m * b
  BY <1>3
<1>5. q < m
  <2>1. SUFFICES ASSUME m <= q PROVE FALSE
    OBVIOUS
  <2>2. m * b <= b * q
    BY <2>1
  <2>3. QED
    BY <1>4, <2>2
<1>6. QED
  BY <1>1, <1>5

Digits(b, v) ==
  LET v8 == v \div b
      v16 == v8 \div b
      v24 == v16 \div b
  IN  <<v24 % b, v16 % b, v8 % b, v % b>>

LEMMA DigitsAre ==
  ASSUME NEW b \in Nat \ {0}, NEW v \in 0 .. b * b * b * b - 1
  PROVE  /\ Digits(b, v) \in Seq(0 .. b - 1) /\ Len(Digits(b, v)) = 4
         /\ v < b * b * b => Digits(b, v)[1] = 0
         /\ ((Digits(b, v)[1] * b + Digits(b, v)[2]) * b + Digits(b, v)[3]) * b + Digits(b, v)[4] = v
<1> DEFINE v8 == v \div b
           v16 == v8 \div b
           v24 == v16 \div b
<1> DEFINE b2 == b * b
           b3 == b2 * b
<1>1. b2 \in Nat /\ b3 \in Nat /\ v \in Nat /\ v < b3 * b /\ (v < b * b * b <=> v < b3)
  OBVIOUS
<1>2. v8 \in Nat /\ v16 \in Nat /\ v24 \in Nat
  BY <1>1, DivMod
<1> HIDE DEF b3
<1>3. v8 < b3 /\ (v < b3 => v8 < b2)
  BY <1>1, DivBelow DEF b3
<1> HIDE DEF v8
<1>4. v16 < b2 /\ (v < b3 => v16 < b)
  BY <1>1, <1>2, <1>3, DivBelow DEF b3, b2
<1> HIDE DEF v16
<1>5. v24 < b /\ (v < b3 => v24 < 1)
  BY <1>1, <1>2, <1>4, DivBelow DEF b2
<1>6. /\ v % b \in 0 .. b - 1 /\ v8 % b \in 0 .. b - 1 /\ v16 % b \in 0 .. b - 1 /\ v24 % b \in 0 .. b - 1
      /\ v = b * v8 + (v % b) /\ v8 = b * v16 + (v8 % b) /\ v16 = b * v24 + (v16 % b)
  BY <1>1, <1>2, DivMod DEF v8, v16
<1>7. v24 % b = v24
  <2>1. v24 = b * (v24 \div b) + (v24 % b) /\ v24 \div b \in Nat
    BY <1>1, <1>2, DivMod
  <2>2. v24 \div b < 1
    BY <1>1, <1>2, <1>5, DivBelow
  <2>3. QED
    BY <1>1, <1>2, <1>6, <2>1, <2>2
<1>8. Digits(b, v) = <<v24 % b, v16 % b, v8 % b, v % b>>
  BY DEF Digits, v8, v16
<1> HIDE DEF v24
<1>9. Digits(b, v) \in Seq(0 .. b - 1) /\ Len(Digits(b, v)) = 4
  BY <1>6, <1>8
<1>10. ((v24 * b + (v16 % b)) * b + (v8 % b)) * b + (v % b) = v
  <2>1. v24 * b + (v16 % b) = v16
    BY <1>1, <1>2, <1>6
  <2>2. v16 * b + (v8 % b) = v8
    BY <1>1, <1>2, <1>6
  <2>3. v8 * b + (v % b) = v
    BY <1>1, <1>2, <1>6
  <2>4. QED
    BY <2>1, <2>2, <2>3
<1>11. v < b * b * b => Digits(b, v)[1] = 0
  BY <1>1, <1>2, <1>5, <1>7, <1>8
<1>12. QED
  BY <1>7, <1>8, <1>9, <1>10, <1>11
=============================================================================
