---------------------------- MODULE DataInduction ----------------------------
(***************************************************************************)
(* Induction over data: over the natural numbers, over sequences and over  *)
(* the subsets of a finite set, from the fact that a set of natural        *)
(* numbers has a least one; and with it what FlattenSeq and MapThenSumSet, *)
(* which the models define texts and counters with, compute for every      *)
(* input.                                                                  *)
(***************************************************************************)
EXTENDS Integers, Sequences, FiniteSets, FiniteSetsExt, SequencesExt,
        FiniteSetTheorems, SequenceTheorems, WellFoundedInduction, TLAPS

(***************************************************************************)
(* Induction and recursion over the natural numbers, as facts about sets   *)
(* and functions.                                                          *)
(***************************************************************************)
Less == {ss \in Nat \X Nat : ss[1] < ss[2]}

(* A set of natural numbers has a least one.                               *)
LEMMA LeastNumber ==
    ASSUME NEW T \in SUBSET Nat, T # {}
    PROVE  \E x \in T : \A y \in T : x <= y
  <1>1. IsWellFoundedOn(Less, Nat)
    BY NatLessThanWellFounded DEF OpToRel, Less
  <1>2. PICK x \in T : \A y \in T : ~(<<y, x>> \in Less)
    BY <1>1, WFMin
  <1>3. \A y \in T : <<y, x>> \in Nat \X Nat
    OBVIOUS
  <1>4. \A y \in T : ~(y < x)
    BY <1>2, <1>3 DEF Less
  <1> QED
    BY <1>4

(* That is its minimum.                                                    *)
LEMMA LeastIn ==
    ASSUME NEW s \in SUBSET Nat, s # {}
    PROVE  Min(s) \in s
  <1>1. \E x \in s : \A y \in s : x <= y
    BY LeastNumber
  <1> QED
    BY <1>1 DEF Min

(* A bounded one has a greatest.                                           *)
LEMMA GreatestNumber ==
    ASSUME NEW T \in SUBSET Nat, T # {}, NEW b \in Nat, \A x \in T : x <= b
    PROVE  \E x \in T : \A y \in T : y <= x
  <1> DEFINE below == {b - x : x \in T}
  <1>1. below \in SUBSET Nat /\ below # {}
    <2>1. \A x \in T : b - x \in Nat
      OBVIOUS
    <2> QED
      BY <2>1
  <1>2. PICK y \in below : \A z \in below : y <= z
    BY <1>1, LeastNumber
  <1>3. PICK x \in T : y = b - x
    BY <1>2
  <1>4. \A z \in T : b - x <= b - z
    BY <1>2, <1>3
  <1> QED
    BY <1>4

(* A set with 0 that has n + 1 with every n is all of Nat.                 *)
LEMMA Induction ==
    ASSUME NEW S \in SUBSET Nat, 0 \in S, \A n \in S : n + 1 \in S
    PROVE  S = Nat
  <1> SUFFICES ASSUME S # Nat PROVE FALSE
    OBVIOUS
  <1>1. PICK x \in Nat \ S : \A y \in Nat \ S : x <= y
    <2>1. Nat \ S # {}
      OBVIOUS
    <2> QED
      BY <2>1, LeastNumber
  <1>2. x - 1 \in Nat /\ x - 1 < x
    BY <1>1
  <1>3. x - 1 \in S
    BY <1>1, <1>2
  <1> QED
    BY <1>1, <1>2, <1>3

\* f takes v through the steps h, n of them.
Leads(f, V, v, h, n) ==
    /\ f \in [0..n -> V] /\ f[0] = v
    /\ \A i \in 0..n : i < n => f[i + 1] = h[<<i, f[i]>>]

\* f is where they lead.
Recursive(f, V, v, h) ==
    f \in [Nat -> V] /\ f[0] = v /\ \A n \in Nat : f[n + 1] = h[<<n, f[n]>>]

(* Leads in a set can be taken any number of times.                        *)
LEMMA Recursion ==
    ASSUME NEW V, NEW v \in V, NEW h \in [Nat \X V -> V]
    PROVE  \E f : Recursive(f, V, v, h)
  <1> DEFINE P == {n \in Nat : \E f : Leads(f, V, v, h, n)}
  <1>1. 0 \in P
    <2>1. Leads([i \in 0..0 |-> v], V, v, h, 0)
      BY DEF Leads
    <2> QED
      BY <2>1
  <1>2. ASSUME NEW n \in P PROVE n + 1 \in P
    <2>1. PICK f : Leads(f, V, v, h, n)
      OBVIOUS
    <2> DEFINE g == [i \in 0..(n + 1) |-> IF i = n + 1 THEN h[<<n, f[n]>>] ELSE f[i]]
    <2>2. f[n] \in V /\ h[<<n, f[n]>>] \in V
      BY <2>1 DEF Leads
    <2>3. g \in [0..(n + 1) -> V] /\ g[0] = v
      BY <2>1, <2>2 DEF Leads
    <2>4. ASSUME NEW i \in 0..(n + 1), i < n + 1 PROVE g[i + 1] = h[<<i, g[i]>>]
      <3>1. CASE i = n
        <4>1. g[n + 1] = h[<<n, f[n]>>] /\ g[n] = f[n]
          OBVIOUS
        <4> HIDE DEF g
        <4> QED
          BY <3>1, <4>1
      <3>2. CASE i < n
        BY <3>2, <2>1 DEF Leads
      <3> QED
        BY <3>1, <3>2, <2>4
    <2>5. Leads(g, V, v, h, n + 1)
      BY <2>3, <2>4 DEF Leads
    <2> QED
      BY <2>5
  <1>3. \A n \in Nat : \E f : Leads(f, V, v, h, n)
    <2>1. P = Nat
      <3> HIDE DEF P
      <3>1. P \in SUBSET Nat
        BY DEF P
      <3> QED
        BY <3>1, <1>1, <1>2, Induction
    <2> QED
      BY <2>1
  <1> DEFINE s(n) == CHOOSE f : Leads(f, V, v, h, n)
  <1>4. \A n \in Nat : Leads(s(n), V, v, h, n)
    BY <1>3
  <1> HIDE DEF s
  <1>5. ASSUME NEW n \in Nat PROVE s(n + 1)[n] = s(n)[n]
    <2> DEFINE Q == {i \in Nat : i <= n => s(n + 1)[i] = s(n)[i]}
    <2>1. 0 \in Q
      BY <1>4 DEF Leads
    <2>2. ASSUME NEW i \in Q PROVE i + 1 \in Q
      <3>1. CASE i + 1 <= n
        <4>1. s(n + 1)[i] = s(n)[i]
          BY <3>1
        <4>2. s(n)[i + 1] = h[<<i, s(n)[i]>>]
          BY <3>1, <1>4 DEF Leads
        <4>3. s(n + 1)[i + 1] = h[<<i, s(n + 1)[i]>>]
          <5>1. Leads(s(n + 1), V, v, h, n + 1) /\ i \in 0..(n + 1) /\ i < n + 1
            BY <3>1, <1>4
          <5> QED
            BY <5>1 DEF Leads
        <4> QED
          BY <4>1, <4>2, <4>3
      <3> QED
        BY <3>1
    <2>3. Q = Nat
      <3> HIDE DEF Q
      <3>1. Q \in SUBSET Nat
        BY DEF Q
      <3> QED
        BY <3>1, <2>1, <2>2, Induction
    <2> QED
      BY <2>3
  <1> DEFINE F == [n \in Nat |-> s(n)[n]]
  <1>6. F \in [Nat -> V] /\ F[0] = v
    BY <1>4 DEF Leads
  <1>7. ASSUME NEW n \in Nat PROVE F[n + 1] = h[<<n, F[n]>>]
    <2>1. s(n + 1)[n + 1] = h[<<n, s(n + 1)[n]>>]
      <3>1. Leads(s(n + 1), V, v, h, n + 1) /\ n \in 0..(n + 1) /\ n < n + 1
        BY <1>4
      <3> QED
        BY <3>1 DEF Leads
    <2> QED
      BY <2>1, <1>5
  <1>8. Recursive(F, V, v, h)
    BY <1>6, <1>7 DEF Recursive
  <1> QED
    BY <1>8

(* A function on the first numbers is a sequence.                          *)
LEMMA FirstNumbers ==
    ASSUME NEW n \in Nat, NEW S, NEW f \in [1..n -> S]
    PROVE  f \in Seq(S) /\ Len(f) = n
  OBVIOUS

(***************************************************************************)
(* FlattenSeq joins sequences.                                             *)
(***************************************************************************)
Joins(f, s) == f = [i \in 1..Len(s) |-> IF i = 1 THEN s[i] ELSE f[i - 1] \o s[i]]

(* The function FlattenSeq is defined by exists.                           *)
LEMMA JoinsExist ==
    ASSUME NEW T, NEW s \in Seq(Seq(T))
    PROVE  \E f : Joins(f, s)
  <1> DEFINE h == [nv \in Nat \X Seq(T) |-> IF nv[1] + 1 \in 1..Len(s) THEN nv[2] \o s[nv[1] + 1] ELSE nv[2]]
  <1>1. h \in [Nat \X Seq(T) -> Seq(T)]
    OBVIOUS
  <1>2. <<>> \in Seq(T)
    OBVIOUS
  <1> HIDE DEF h
  <1>3. PICK g \in [Nat -> Seq(T)] : g[0] = <<>> /\ \A n \in Nat : g[n + 1] = h[<<n, g[n]>>]
    <2> DEFINE V == Seq(T)
               e == <<>>
    <2>1. e \in V /\ h \in [Nat \X V -> V]
      BY <1>1, <1>2
    <2> HIDE DEF V, e
    <2>2. \E g : Recursive(g, V, e, h)
      BY <2>1, Recursion
    <2> QED
      BY <2>2 DEF V, e, Recursive
  <1> DEFINE f == [i \in 1..Len(s) |-> g[i]]
  <1>4. ASSUME NEW i \in 1..Len(s) PROVE g[i] = g[i - 1] \o s[i]
    <2>1. i - 1 \in Nat /\ (i - 1) + 1 = i
      OBVIOUS
    <2>2. g[i] = h[<<i - 1, g[i - 1]>>]
      BY <1>3, <2>1
    <2> QED
      BY <2>1, <2>2 DEF h
  <1>5. ASSUME NEW i \in 1..Len(s) PROVE g[i] = IF i = 1 THEN s[i] ELSE f[i - 1] \o s[i]
    <2>1. CASE i = 1
      <3>1. s[1] \in Seq(T)
        BY <2>1
      <3>2. g[1] = g[1 - 1] \o s[1]
        BY <2>1, <1>4
      <3>20. g[1] = <<>> \o s[1]
        BY <3>2, <1>3, 1 - 1 = 0
      <3>3. <<>> \o s[1] = s[1]
        BY <3>1
      <3> QED
        BY <3>20, <3>3, <2>1
    <2>2. CASE i # 1
      <3>1. i - 1 \in 1..Len(s)
        BY <2>2
      <3>2. f[i - 1] = g[i - 1]
        BY <3>1
      <3> HIDE DEF f
      <3> QED
        BY <2>2, <3>2, <1>4
    <2> QED
      BY <2>1, <2>2
  <1>6. Joins(f, s)
    BY <1>5 DEF Joins
  <1> QED
    BY <1>6

(* One sequence after the other.                                           *)
LEMMA FlattenStep ==
    ASSUME NEW T, NEW s \in Seq(Seq(T))
    PROVE  \E f : /\ Joins(f, s) /\ (s # <<>> => FlattenSeq(s) = f[Len(s)])
  <1> DEFINE f == CHOOSE f : Joins(f, s)
  <1>1. Joins(f, s)
    BY JoinsExist
  <1>2. ASSUME s # <<>> PROVE FlattenSeq(s) = f[Len(s)]
    <2>1. Len(s) # 0
      BY <1>2
    <2> QED
      BY <2>1 DEF FlattenSeq, Joins
  <1> QED
    BY <1>1, <1>2

(* Nothing joined is nothing.                                              *)
LEMMA FlattenEmpty == FlattenSeq(<<>>) = <<>>
  BY DEF FlattenSeq

(* With one more sequence, that comes behind the others.                   *)
LEMMA FlattenAppend ==
    ASSUME NEW T, NEW s \in Seq(Seq(T)), NEW x \in Seq(T)
    PROVE  FlattenSeq(Append(s, x)) = FlattenSeq(s) \o x
  <1> DEFINE t == Append(s, x)
             n == Len(s)
  <1>0. t \in Seq(Seq(T)) /\ t # <<>> /\ Len(t) = n + 1 /\ t[n + 1] = x /\ n \in Nat
          /\ \A i \in 1..n : t[i] = s[i]
    <2> DEFINE V == Seq(T)
    <2>1. s \in Seq(V) /\ x \in V
      OBVIOUS
    <2> HIDE DEF V
    <2>2. t \in Seq(V) /\ t # <<>> /\ Len(t) = n + 1 /\ t[n + 1] = x /\ n \in Nat
            /\ \A i \in 1..n : t[i] = s[i]
      BY <2>1
    <2> QED
      BY <2>2 DEF V
  <1> HIDE DEF t, n
  <1>1. PICK f : Joins(f, s) /\ (s # <<>> => FlattenSeq(s) = f[Len(s)])
    BY FlattenStep
  <1>2. PICK g : Joins(g, t) /\ FlattenSeq(t) = g[Len(t)]
    BY <1>0, FlattenStep
  <1>3. \A i \in 1..n : f[i] = IF i = 1 THEN s[i] ELSE f[i - 1] \o s[i]
    BY <1>1 DEF Joins, n
  <1>4. \A i \in 1..(n + 1) : g[i] = IF i = 1 THEN t[i] ELSE g[i - 1] \o t[i]
    BY <1>0, <1>2 DEF Joins
  <1> DEFINE P == {i \in Nat : i + 1 <= n => f[i + 1] = g[i + 1]}
  <1>5. 0 \in P
    BY <1>0, <1>3, <1>4
  <1>6. ASSUME NEW i \in P PROVE i + 1 \in P
    <2>1. CASE i + 2 <= n
      <3>1. i + 2 \in 1..n /\ i + 2 \in 1..(n + 1) /\ i + 2 # 1 /\ (i + 2) - 1 = i + 1
        BY <2>1, <1>0
      <3>2. f[i + 2] = f[i + 1] \o s[i + 2]
        BY <3>1, <1>3
      <3>3. g[i + 2] = g[i + 1] \o t[i + 2]
        BY <3>1, <1>4
      <3>4. f[i + 1] = g[i + 1] /\ s[i + 2] = t[i + 2]
        BY <1>0, <3>1
      <3>5. f[i + 2] = g[i + 2]
        BY <3>2, <3>3, <3>4
      <3> QED
        BY <3>5
    <2> QED
      BY <2>1, <1>0
  <1>7. P = Nat
    <2> HIDE DEF P
    <2>1. P \in SUBSET Nat
      BY DEF P
    <2> QED
      BY <2>1, <1>5, <1>6, Induction
  <1>8. CASE s = <<>>
    <2>1. n = 0 /\ FlattenSeq(s) = <<>>
      BY <1>8, FlattenEmpty DEF n
    <2>2. FlattenSeq(t) = x
      BY <2>1, <1>0, <1>2, <1>4
    <2> QED
      BY <2>1, <2>2 DEF t
  <1>9. CASE s # <<>>
    <2>1. n - 1 \in Nat /\ n \in 1..n /\ n + 1 \in 1..(n + 1) /\ n + 1 # 1
      BY <1>9 DEF n
    <2>2. f[n] = g[n]
      <3> DEFINE k == n - 1
      <3>1. k \in P /\ k + 1 = n
        <4>1. k \in Nat /\ k + 1 = n
          BY <2>1, <1>0
        <4> HIDE DEF P, k
        <4> QED
          BY <1>7, <4>1
      <3>2. \A i \in P : i + 1 <= n => f[i + 1] = g[i + 1]
        OBVIOUS
      <3> HIDE DEF P, k
      <3>3. k + 1 <= n
        BY <3>1, <1>0
      <3>4. f[k + 1] = g[k + 1]
        BY <3>1, <3>2, <3>3
      <3> QED
        BY <3>1, <3>4
    <2>3. g[n + 1] = g[n] \o x
      <3>1. (n + 1) - 1 = n
        BY <2>1
      <3>2. g[n + 1] = g[(n + 1) - 1] \o t[n + 1]
        BY <1>4, <2>1
      <3> QED
        BY <3>1, <3>2, <1>0
    <2> QED
      BY <2>2, <2>3, <1>9, <1>0, <1>1, <1>2 DEF t, n
  <1> QED
    BY <1>8, <1>9

(* A sequence that is not empty is another one with an element behind.      *)
LEMMA LastElement ==
    ASSUME NEW T, NEW s \in Seq(T), s # <<>>
    PROVE  \E t \in Seq(T), x \in T : s = Append(t, x) /\ Len(t) = Len(s) - 1
  <1> DEFINE n == Len(s)
             f == SubSeq(s, 1, n - 1)
             e == s[n]
  <1>1. n \in Nat \ {0} /\ 1 \in 1..n /\ n \in 1..n
    OBVIOUS
  <1>2. f \in Seq(T) /\ Len(f) = n - 1 /\ e \in T
    <2>1. \A i \in 1..(n - 1) : s[i] \in T
      BY <1>1
    <2>2. e \in T
      BY <1>1
    <2>3. n \in Nat \ {0} /\ n - 1 \in Int
      BY <1>1
    <2> HIDE DEF n
    <2> QED
      BY <2>1, <2>2, <2>3, SubSeqProperties
  <1>3. s = f \o <<e>>
    BY <1>1, SubSeqRecursiveSecond, SubSeqFull
  <1> HIDE DEF f, e
  <1>4. s = Append(f, e)
    BY <1>2, <1>3, AppendIsConcat
  <1> QED
    BY <1>2, <1>4

(* A set of sequences that has <<>>, and each of its members with one more *)
(* element, has them all.                                                  *)
LEMMA SequenceInduction ==
    ASSUME NEW T, NEW Q \in SUBSET Seq(T), <<>> \in Q, \A s \in Q, x \in T : Append(s, x) \in Q
    PROVE  Q = Seq(T)
  <1> DEFINE P == {n \in Nat : \A s \in Seq(T) : Len(s) = n => s \in Q}
  <1>1. 0 \in P
    <2>1. ASSUME NEW s \in Seq(T), Len(s) = 0 PROVE s \in Q
      <3>1. s = <<>>
        BY <2>1
      <3> QED
        BY <3>1
    <2> QED
      BY <2>1
  <1>2. ASSUME NEW n \in P PROVE n + 1 \in P
    <2>1. ASSUME NEW s \in Seq(T), Len(s) = n + 1 PROVE s \in Q
      <3>1. s # <<>>
        BY <2>1
      <3>2. PICK t \in Seq(T), x \in T : s = Append(t, x) /\ Len(t) = Len(s) - 1
        BY <3>1, LastElement
      <3>3. t \in Q
        BY <2>1, <3>2
      <3> QED
        BY <3>2, <3>3
    <2> QED
      BY <2>1
  <1>3. P = Nat
    <2> HIDE DEF P
    <2>1. P \in SUBSET Nat
      BY DEF P
    <2> QED
      BY <2>1, <1>1, <1>2, Induction
  <1>4. \A s \in Seq(T) : Len(s) \in P
    BY <1>3
  <1>5. Seq(T) \subseteq Q
    BY <1>4
  <1> QED
    BY <1>5

(* What is joined is a sequence.                                           *)
LEMMA FlattenType ==
    ASSUME NEW T, NEW s \in Seq(Seq(T))
    PROVE  FlattenSeq(s) \in Seq(T)
  <1> DEFINE V == Seq(T)
             Q == {q \in Seq(V) : FlattenSeq(q) \in V}
  <1>1. <<>> \in Q
    <2>1. <<>> \in V
      OBVIOUS
    <2> HIDE DEF V
    <2> QED
      BY <2>1, FlattenEmpty
  <1>2. ASSUME NEW q \in Q, NEW x \in V PROVE Append(q, x) \in Q
    <2>1. FlattenSeq(Append(q, x)) = FlattenSeq(q) \o x
      BY FlattenAppend
    <2>2. FlattenSeq(q) \o x \in V
      OBVIOUS
    <2> HIDE DEF V
    <2>3. Append(q, x) \in Seq(V)
      OBVIOUS
    <2> QED
      BY <2>1, <2>2, <2>3
  <1>3. Q = Seq(V)
    <2>1. Q \in SUBSET Seq(V)
      OBVIOUS
    <2> HIDE DEF Q, V
    <2> QED
      BY <2>1, <1>1, <1>2, SequenceInduction
  <1> QED
    BY <1>3

(* Joining goes piece by piece.                                            *)
LEMMA FlattenConcat ==
    ASSUME NEW T, NEW s \in Seq(Seq(T)), NEW t \in Seq(Seq(T))
    PROVE  FlattenSeq(s \o t) = FlattenSeq(s) \o FlattenSeq(t)
  <1> DEFINE V == Seq(T)
             Q == {q \in Seq(V) : FlattenSeq(s \o q) = FlattenSeq(s) \o FlattenSeq(q)}
  <1>0. s \in Seq(V) /\ t \in Seq(V) /\ FlattenSeq(s) \in V
    BY FlattenType
  <1>1. <<>> \in Q
    <2>1. FlattenSeq(s) \o <<>> = FlattenSeq(s)
      BY <1>0
    <2> HIDE DEF V
    <2>2. s \o <<>> = s /\ <<>> \in Seq(V)
      BY <1>0
    <2> QED
      BY <2>1, <2>2, FlattenEmpty
  <1>2. ASSUME NEW q \in Q, NEW x \in V PROVE Append(q, x) \in Q
    <2>1. FlattenSeq(Append(q, x)) = FlattenSeq(q) \o x /\ FlattenSeq(q) \in Seq(T)
      BY FlattenAppend, FlattenType
    <2>2. s \o Append(q, x) = Append(s \o q, x) /\ s \o q \in Seq(V) /\ Append(q, x) \in Seq(V)
      <3>1. s \in Seq(V) /\ q \in Seq(V)
        BY <1>0
      <3> HIDE DEF V
      <3> QED
        BY <3>1
    <2>3. FlattenSeq(Append(s \o q, x)) = FlattenSeq(s \o q) \o x
      BY <2>2, FlattenAppend
    <2>4. (FlattenSeq(s) \o FlattenSeq(q)) \o x = FlattenSeq(s) \o (FlattenSeq(q) \o x)
      <3>1. FlattenSeq(s) \in Seq(T) /\ FlattenSeq(q) \in Seq(T) /\ x \in Seq(T)
        BY <1>0, <2>1
      <3> DEFINE a == FlattenSeq(s)
                 b == FlattenSeq(q)
      <3> HIDE DEF V, a, b
      <3>2. a \in Seq(T) /\ b \in Seq(T) /\ x \in Seq(T)
        BY <3>1 DEF a, b
      <3>3. (a \o b) \o x = a \o (b \o x)
        BY <3>2, SMTT(30)
      <3> QED
        BY <3>3 DEF a, b
    <2> HIDE DEF V
    <2> QED
      BY <2>1, <2>2, <2>3, <2>4
  <1>3. Q = Seq(V)
    <2>1. Q \in SUBSET Seq(V)
      OBVIOUS
    <2> HIDE DEF Q, V
    <2> QED
      BY <2>1, <1>1, <1>2, SequenceInduction
  <1> QED
    BY <1>3

(* What is joined has the elements of the sequences.                       *)
LEMMA FlattenElements ==
    ASSUME NEW T, NEW s \in Seq(Seq(T))
    PROVE  \A i \in 1..Len(s) : ToSet(s[i]) \subseteq ToSet(FlattenSeq(s))
  <1> DEFINE V == Seq(T)
             Good(q) == \A i \in 1..Len(q) : ToSet(q[i]) \subseteq ToSet(FlattenSeq(q))
             Q == {q \in Seq(V) : Good(q)}
  <1>1. <<>> \in Q
    OBVIOUS
  <1>2. ASSUME NEW q \in Q, NEW x \in V PROVE Append(q, x) \in Q
    <2> DEFINE r == Append(q, x)
    <2>1. FlattenSeq(r) = FlattenSeq(q) \o x /\ FlattenSeq(q) \in Seq(T)
      BY FlattenAppend, FlattenType
    <2>2. \A a, b \in V : ToSet(a \o b) = ToSet(a) \cup ToSet(b)
      <3> TAKE a, b \in V
      <3>1. /\ a \o b \in Seq(T) /\ Len(a \o b) = Len(a) + Len(b)
            /\ \A i \in 1..Len(a) : (a \o b)[i] = a[i]
            /\ \A i \in 1..Len(b) : (a \o b)[Len(a) + i] = b[i]
        OBVIOUS
      <3>2. DOMAIN a = 1..Len(a) /\ DOMAIN b = 1..Len(b) /\ DOMAIN (a \o b) = 1..(Len(a) + Len(b))
            /\ Len(a) \in Nat /\ Len(b) \in Nat
        OBVIOUS
      <3> DEFINE u == a \o b
      <3>3. \A i \in 1..(Len(a) + Len(b)) : i \in 1..Len(a)
                \/ (i - Len(a) \in 1..Len(b) /\ i = Len(a) + (i - Len(a)))
        BY <3>2
      <3>4. \A i \in 1..Len(b) : Len(a) + i \in 1..(Len(a) + Len(b))
        BY <3>2
      <3>5. \A i \in 1..Len(a) : i \in 1..(Len(a) + Len(b))
        BY <3>2
      <3> HIDE DEF u
      <3>6. ToSet(u) \subseteq ToSet(a) \cup ToSet(b)
        <4> SUFFICES ASSUME NEW i \in DOMAIN u PROVE u[i] \in ToSet(a) \cup ToSet(b)
          BY DEF ToSet
        <4>1. CASE i \in 1..Len(a)
          BY <4>1, <3>1, <3>2 DEF u, ToSet
        <4>2. CASE i - Len(a) \in 1..Len(b) /\ i = Len(a) + (i - Len(a))
          <5>1. u[i] = b[i - Len(a)]
            BY <4>2, <3>1 DEF u
          <5> QED
            BY <4>2, <5>1, <3>2 DEF ToSet
        <4> QED
          BY <4>1, <4>2, <3>2, <3>3 DEF u
      <3>7. ToSet(a) \subseteq ToSet(u)
        BY <3>1, <3>2, <3>5 DEF u, ToSet
      <3>8. ToSet(b) \subseteq ToSet(u)
        BY <3>1, <3>2, <3>4 DEF u, ToSet
      <3> QED
        BY <3>6, <3>7, <3>8 DEF u
    <2>3. ToSet(FlattenSeq(r)) = ToSet(FlattenSeq(q)) \cup ToSet(x)
      BY <2>1, <2>2
    <2>4. /\ r \in Seq(V) /\ Len(r) = Len(q) + 1 /\ Len(q) \in Nat /\ r[Len(q) + 1] = x
          /\ \A i \in 1..Len(q) : r[i] = q[i]
      <3>1. q \in Seq(V) /\ x \in V
        OBVIOUS
      <3> HIDE DEF V
      <3> QED
        BY <3>1
    <2>5. Good(q)
      OBVIOUS
    <2> HIDE DEF r
    <2>6. Good(r)
      <3> SUFFICES ASSUME NEW i \in 1..Len(r) PROVE ToSet(r[i]) \subseteq ToSet(FlattenSeq(r))
        OBVIOUS
      <3>1. CASE i = Len(q) + 1
        BY <3>1, <2>3, <2>4
      <3>2. CASE i \in 1..Len(q)
        BY <3>2, <2>3, <2>4, <2>5
      <3>3. i = Len(q) + 1 \/ i \in 1..Len(q)
        BY <2>4
      <3> QED
        BY <3>1, <3>2, <3>3
    <2> QED
      BY <2>4, <2>6 DEF r
  <1>3. Q = Seq(V)
    <2>1. Q \in SUBSET Seq(V)
      OBVIOUS
    <2> HIDE DEF Q, V
    <2> QED
      BY <2>1, <1>1, <1>2, SequenceInduction
  <1>4. Good(s)
    BY <1>3
  <1> QED
    BY <1>4

(* What is joined is as long as its first sequence at least, and as many   *)
(* as there are of them if none is empty.                                  *)
LEMMA FlattenLength ==
    ASSUME NEW T, NEW s \in Seq(Seq(T))
    PROVE  /\ s # <<>> => Len(FlattenSeq(s)) >= Len(s[1])
           /\ (\A i \in 1..Len(s) : s[i] # <<>>) => Len(FlattenSeq(s)) >= Len(s)
  <1> DEFINE V == Seq(T)
             Good(q) == /\ q # <<>> => Len(FlattenSeq(q)) >= Len(q[1])
                        /\ (\A i \in 1..Len(q) : q[i] # <<>>) => Len(FlattenSeq(q)) >= Len(q)
             Q == {q \in Seq(V) : Good(q)}
  <1>1. <<>> \in Q
    BY FlattenEmpty
  <1>2. ASSUME NEW q \in Q, NEW x \in V PROVE Append(q, x) \in Q
    <2> DEFINE r == Append(q, x)
    <2>1. FlattenSeq(r) = FlattenSeq(q) \o x /\ FlattenSeq(q) \in Seq(T)
      BY FlattenAppend, FlattenType
    <2>2. Len(FlattenSeq(r)) = Len(FlattenSeq(q)) + Len(x) /\ Len(x) \in Nat /\ Len(FlattenSeq(q)) \in Nat
      BY <2>1
    <2>3. q = <<>> => FlattenSeq(q) = <<>>
      BY FlattenEmpty
    <2>4. x # <<>> => Len(x) >= 1
      OBVIOUS
    <2>5. /\ r \in Seq(V) /\ Len(r) = Len(q) + 1 /\ Len(q) \in Nat /\ r[Len(q) + 1] = x
          /\ \A i \in 1..Len(q) : r[i] = q[i] /\ q[i] \in V
          /\ q = <<>> <=> Len(q) = 0
      <3>1. q \in Seq(V) /\ x \in V
        OBVIOUS
      <3> HIDE DEF V
      <3> QED
        BY <3>1
    <2>6. Good(q)
      OBVIOUS
    <2> HIDE DEF r
    <2>7. Len(FlattenSeq(r)) >= Len(r[1])
      <3>1. CASE q = <<>>
        BY <3>1, <2>2, <2>3, <2>5
      <3>2. CASE q # <<>>
        <4>1. r[1] = q[1] /\ Len(q[1]) \in Nat
          BY <3>2, <2>5
        <4> QED
          BY <4>1, <3>2, <2>2, <2>6
      <3> QED
        BY <3>1, <3>2
    <2>8. ASSUME \A i \in 1..Len(r) : r[i] # <<>> PROVE Len(FlattenSeq(r)) >= Len(r)
      <3>1. \A i \in 1..Len(q) : q[i] # <<>>
        <4> TAKE i \in 1..Len(q)
        <4>1. i \in 1..Len(r) /\ r[i] = q[i]
          BY <2>5
        <4> HIDE DEF V
        <4> QED
          BY <2>8, <4>1
      <3>2. x # <<>>
        BY <2>5, <2>8
      <3>3. Len(FlattenSeq(q)) >= Len(q)
        BY <2>6, <3>1
      <3> QED
        BY <3>2, <3>3, <2>2, <2>4, <2>5
    <2>9. Good(r)
      BY <2>7, <2>8
    <2> QED
      BY <2>5, <2>9 DEF r
  <1>3. Q = Seq(V)
    <2>1. Q \in SUBSET Seq(V)
      OBVIOUS
    <2> HIDE DEF Q, V
    <2> QED
      BY <2>1, <1>1, <1>2, SequenceInduction
  <1>4. Good(s)
    BY <1>3
  <1> QED
    BY <1>4

(***************************************************************************)
(* Induction over the subsets of a finite set, and sums over them.         *)
(***************************************************************************)

(* A set of subsets that has {}, and each of its members with one more     *)
(* element, has them all.                                                  *)
LEMMA SubsetInduction ==
    ASSUME NEW S, IsFiniteSet(S), NEW Q \in SUBSET (SUBSET S), {} \in Q,
           \A s \in Q, x \in S : x \notin s => s \cup {x} \in Q
    PROVE  Q = SUBSET S
  <1> DEFINE P == {n \in Nat : \A s \in SUBSET S : Cardinality(s) = n => s \in Q}
  <1>0. \A s \in SUBSET S : IsFiniteSet(s) /\ Cardinality(s) \in Nat
    BY FS_Subset, FS_CardinalityType
  <1>1. 0 \in P
    <2>1. \A s \in SUBSET S : Cardinality(s) = 0 => s = {}
      BY <1>0, FS_EmptySet
    <2> QED
      BY <2>1
  <1>2. ASSUME NEW n \in P PROVE n + 1 \in P
    <2>1. ASSUME NEW s \in SUBSET S, Cardinality(s) = n + 1 PROVE s \in Q
      <3>1. n \in Nat
        OBVIOUS
      <3>2. s # {}
        BY <2>1, <3>1, <1>0, FS_EmptySet
      <3>3. PICK x \in s : TRUE
        BY <3>2
      <3>4. Cardinality(s \ {x}) = n
        <4>1. IsFiniteSet(s)
          BY <1>0
        <4>2. Cardinality(s \ {x}) = Cardinality(s) - 1
          BY <3>3, <4>1, FS_RemoveElement
        <4> QED
          BY <2>1, <3>1, <4>2
      <3>5. s \ {x} \in Q /\ x \in S /\ x \notin s \ {x}
        BY <3>4
      <3>6. (s \ {x}) \cup {x} = s
        BY <3>3
      <3> QED
        BY <3>5, <3>6
    <2> QED
      BY <2>1
  <1>3. P = Nat
    <2> HIDE DEF P
    <2>1. P \in SUBSET Nat
      BY DEF P
    <2> QED
      BY <2>1, <1>1, <1>2, Induction
  <1>4. ASSUME NEW s \in SUBSET S PROVE s \in Q
    BY <1>0, <1>3
  <1> QED
    BY <1>4

\* One element of each set.
NonEmpty(S) == (SUBSET S) \ {{}}
Takes(c, S) == c \in [NonEmpty(S) -> S] /\ \A s \in NonEmpty(S) : c[s] \in s

\* it takes v through the steps h, one for each element of a set, as c takes them.
Folds(it, S, V, v, c, h) ==
    /\ it \in [SUBSET S -> V]
    /\ it[{}] = v
    /\ \A s \in NonEmpty(S) : it[s] = h[<<c[s], it[s \ {c[s]}]>>]

(* The functions that folds over finite sets are defined by exist.         *)
LEMMA FoldsExist ==
    ASSUME NEW S, IsFiniteSet(S), NEW V, NEW v \in V, NEW c, Takes(c, S), NEW h \in [S \X V -> V]
    PROVE  \E it : Folds(it, S, V, v, c, h)
  <1> DEFINE W == [SUBSET S -> V]
             more(F) == [s \in SUBSET S |-> IF s = {} THEN v ELSE h[<<c[s], F[s \ {c[s]}]>>]]
             k == [nF \in Nat \X W |-> more(nF[2])]
             w == [s \in SUBSET S |-> v]
  <1>0. \A s \in SUBSET S : s # {} => c[s] \in s /\ c[s] \in S
    BY DEF Takes, NonEmpty
  <1>1. w \in W
    OBVIOUS
  <1>2. \A F \in W : more(F) \in W
    BY <1>0
  <1>3. k \in [Nat \X W -> W] /\ \A n \in Nat, F \in W : k[<<n, F>>] = more(F)
    <2> HIDE DEF W, more
    <2> QED
      BY <1>2
  <1>4. PICK f : Recursive(f, W, w, k)
    <2> HIDE DEF W, w, k
    <2> QED
      BY <1>1, <1>3, Recursion
  <1>5. /\ f \in [Nat -> W] /\ f[0] = w
        /\ \A n \in Nat : f[n + 1] = more(f[n])
    <2> HIDE DEF W, w, k, more
    <2> QED
      BY <1>3, <1>4 DEF Recursive
  <1>6. \A n \in Nat, s \in SUBSET S :
            f[n + 1][s] = IF s = {} THEN v ELSE h[<<c[s], f[n][s \ {c[s]}]>>]
    <2> TAKE n \in Nat, s \in SUBSET S
    <2>1. f[n + 1] = more(f[n])
      BY <1>5
    <2>2. \A F : more(F)[s] = IF s = {} THEN v ELSE h[<<c[s], F[s \ {c[s]}]>>]
      OBVIOUS
    <2> HIDE DEF more
    <2> QED
      BY <2>1, <2>2
  <1> HIDE DEF more, k
  <1>7. \A n \in Nat : f[n][{}] = v
    <2>1. f[0][{}] = v
      BY <1>5
    <2>2. \A n \in Nat : f[n + 1][{}] = v
      BY <1>6
    <2>3. \A n \in Nat : n = 0 \/ \E m \in Nat : n = m + 1
      <3>1. \A n \in Nat : n = 0 \/ (n - 1 \in Nat /\ n = (n - 1) + 1)
        OBVIOUS
      <3> QED
        BY <3>1
    <2> QED
      BY <2>1, <2>2, <2>3
  <1>8. \A s \in SUBSET S : IsFiniteSet(s) /\ Cardinality(s) \in Nat
    BY FS_Subset, FS_CardinalityType
  <1> DEFINE stable(n) == \A s \in SUBSET S : Cardinality(s) <= n => f[n + 1][s] = f[n][s]
             P == {n \in Nat : stable(n)}
  <1>9. 0 \in P
    <2>1. \A s \in SUBSET S : Cardinality(s) <= 0 => s = {}
      BY <1>8, FS_EmptySet
    <2> QED
      BY <2>1, <1>7
  <1>10. ASSUME NEW n \in P PROVE n + 1 \in P
    <2>1. ASSUME NEW s \in SUBSET S, Cardinality(s) <= n + 1 PROVE f[(n + 1) + 1][s] = f[n + 1][s]
      <3>1. CASE s = {}
        BY <3>1, <1>7
      <3>2. CASE s # {}
        <4> DEFINE t == s \ {c[s]}
        <4>1. c[s] \in s /\ t \in SUBSET S
          BY <3>2, <1>0
        <4>2. Cardinality(t) <= n
          <5>1. Cardinality(t) = Cardinality(s) - 1
            BY <4>1, <1>8, FS_RemoveElement
          <5> QED
            BY <5>1, <2>1, <1>8
        <4> HIDE DEF t
        <4>3. f[n + 1][t] = f[n][t]
          BY <4>1, <4>2
        <4>4. /\ f[(n + 1) + 1][s] = h[<<c[s], f[n + 1][t]>>]
              /\ f[n + 1][s] = h[<<c[s], f[n][t]>>]
          BY <3>2, <1>6 DEF t
        <4> QED
          BY <4>3, <4>4
      <3> QED
        BY <3>1, <3>2
    <2> QED
      BY <2>1
  <1>11. \A n \in Nat : stable(n)
    <2>1. P = Nat
      <3> HIDE DEF P
      <3>1. P \in SUBSET Nat
        BY DEF P
      <3> QED
        BY <3>1, <1>9, <1>10, Induction
    <2> QED
      BY <2>1
  <1> DEFINE m == Cardinality(S)
             it == f[m]
  <1>12. m \in Nat /\ \A s \in SUBSET S : Cardinality(s) <= m
    BY <1>8, FS_Subset, FS_CardinalityType
  <1>13. it \in W
    BY <1>5, <1>12
  <1>14. \A s \in SUBSET S : it[s] = IF s = {} THEN v ELSE h[<<c[s], it[s \ {c[s]}]>>]
    <2>1. \A s \in SUBSET S : f[m + 1][s] = f[m][s]
      BY <1>11, <1>12
    <2> QED
      BY <2>1, <1>6, <1>12
  <1>15. Folds(it, S, V, v, c, h)
    <2> HIDE DEF it
    <2> QED
      BY <1>13, <1>14 DEF Folds, NonEmpty
  <1> QED
    BY <1>15

(* A set of indices has a largest one.                                     *)
LEMMA LargestIn ==
    ASSUME NEW n \in Nat, NEW s \in SUBSET (1..n), s # {}
    PROVE  Max(s) \in s
  <1>1. s \in SUBSET Nat /\ \A x \in s : x <= n
    OBVIOUS
  <1>2. \E x \in s : \A y \in s : y <= x
    BY <1>1, GreatestNumber
  <1>3. \E x \in s : \A y \in s : x >= y
    BY <1>1, <1>2
  <1> QED
    BY <1>3 DEF Max

\* it takes v through the steps h, one for each index, the largest last.
FoldsLeft(it, n, V, v, h) ==
    /\ it \in [SUBSET (1..n) -> V]
    /\ \A s \in SUBSET (1..n) : it[s] = IF s = {} THEN v ELSE h[<<Max(s), it[s \ {Max(s)}]>>]

(* So do those that FoldLeft is defined by.                                *)
LEMMA FoldLeftExists ==
    ASSUME NEW n \in Nat, NEW V, NEW v \in V, NEW h \in [(1..n) \X V -> V]
    PROVE  \E it : FoldsLeft(it, n, V, v, h)
  <1> DEFINE S == 1..n
             c == [s \in NonEmpty(S) |-> Max(s)]
  <1>1. ASSUME NEW s \in NonEmpty(S) PROVE Max(s) \in s
    BY LargestIn DEF NonEmpty
  <1>2. Takes(c, S)
    BY <1>1 DEF Takes, NonEmpty
  <1>3. IsFiniteSet(S)
    BY FS_Interval
  <1>4. \A s \in NonEmpty(S) : c[s] = Max(s)
    OBVIOUS
  <1>5. PICK it : Folds(it, S, V, v, c, h)
    <2> HIDE DEF c, S
    <2>1. h \in [S \X V -> V]
      BY DEF S
    <2> QED
      BY <1>2, <1>3, <2>1, FoldsExist
  <1>6. \A s \in SUBSET S : it[s] = IF s = {} THEN v ELSE h[<<Max(s), it[s \ {Max(s)}]>>]
    <2> HIDE DEF c, S
    <2> QED
      BY <1>4, <1>5 DEF Folds, NonEmpty
  <1>7. it \in [SUBSET S -> V]
    BY <1>5 DEF Folds
  <1> QED
    BY <1>6, <1>7 DEF FoldsLeft

(* The largest of the first numbers, and the numbers before it.            *)
LEMMA LastNumber ==
    ASSUME NEW k \in Nat
    PROVE  Max(1..(k + 1)) = k + 1 /\ (1..(k + 1)) \ {k + 1} = 1..k /\ 1..(k + 1) # {}
  <1>1. k + 1 \in 1..(k + 1) /\ \A y \in 1..(k + 1) : k + 1 >= y
    OBVIOUS
  <1>2. \A x \in 1..(k + 1) : (\A y \in 1..(k + 1) : x >= y) => x = k + 1
    BY <1>1
  <1>3. Max(1..(k + 1)) = k + 1
    BY <1>1, <1>2 DEF Max
  <1> QED
    BY <1>1, <1>3

\* it sums g over the subsets of S, taking one element after the other.
Sums(it, S, g) ==
    it = [s \in SUBSET S |-> IF s = {} THEN 0 ELSE LET x == CHOOSE x \in s : TRUE IN g[x] + it[s \ {x}]]

\* The sum of a function over its domain.
SumAll(g) == MapThenSumSet(LAMBDA x : g[x], DOMAIN g)

(* The function MapThenSumSet is defined by exists.                        *)
LEMMA SumsExist ==
    ASSUME NEW S, IsFiniteSet(S), NEW g \in [S -> Int]
    PROVE  \E it : Sums(it, S, g) /\ it \in [SUBSET S -> Int]
  <1> DEFINE one(s) == CHOOSE x \in s : TRUE
             c == [s \in NonEmpty(S) |-> one(s)]
             h == [xv \in S \X Int |-> g[xv[1]] + xv[2]]
  <1>0. \A s \in SUBSET S : s # {} => one(s) \in s
    OBVIOUS
  <1> HIDE DEF one
  <1>1. Takes(c, S) /\ \A s \in NonEmpty(S) : c[s] = one(s)
    BY <1>0 DEF Takes, NonEmpty
  <1>2. h \in [S \X Int -> Int] /\ \A x \in S, y \in Int : h[<<x, y>>] = g[x] + y
    OBVIOUS
  <1> HIDE DEF c, h
  <1>3. PICK it : Folds(it, S, Int, 0, c, h)
    <2> DEFINE V == Int
               v == 0
    <2>1. v \in V /\ h \in [S \X V -> V]
      BY <1>2
    <2> HIDE DEF V, v
    <2>2. \E it : Folds(it, S, V, v, c, h)
      BY <1>1, <2>1, FoldsExist
    <2> QED
      BY <2>2 DEF V, v
  <1>4. ASSUME NEW s \in SUBSET S
        PROVE  it[s] = IF s = {} THEN 0 ELSE g[one(s)] + it[s \ {one(s)}]
    <2>1. CASE s # {}
      <3>1. s \in NonEmpty(S) /\ one(s) \in S /\ s \ {one(s)} \in SUBSET S
        BY <2>1, <1>0 DEF NonEmpty
      <3>2. it[s] = h[<<one(s), it[s \ {one(s)}]>>]
        BY <3>1, <1>1, <1>3 DEF Folds
      <3>3. it[s \ {one(s)}] \in Int
        BY <3>1, <1>3 DEF Folds
      <3> QED
        BY <2>1, <3>1, <3>2, <3>3, <1>2
    <2> QED
      BY <2>1, <1>3 DEF Folds
  <1>5. it = [s \in SUBSET S |-> IF s = {} THEN 0 ELSE g[one(s)] + it[s \ {one(s)}]]
    BY <1>3, <1>4 DEF Folds
  <1>6. Sums(it, S, g)
    BY <1>5 DEF Sums, one
  <1> QED
    BY <1>3, <1>6 DEF Folds

(* Two such functions agree where what they sum does.                      *)
LEMMA SumsAgree ==
    ASSUME NEW S, IsFiniteSet(S), NEW g, NEW it, Sums(it, S, g),
           NEW R \in SUBSET S, NEW k, NEW jt, Sums(jt, R, k), \A x \in R : g[x] = k[x]
    PROVE  \A s \in SUBSET R : it[s] = jt[s]
  <1> DEFINE one(s) == CHOOSE x \in s : TRUE
  <1>0. \A s \in SUBSET R : s # {} => one(s) \in s
    OBVIOUS
  <1>1. \A s \in SUBSET R : it[s] = IF s = {} THEN 0 ELSE g[one(s)] + it[s \ {one(s)}]
    BY DEF Sums
  <1>2. \A s \in SUBSET R : jt[s] = IF s = {} THEN 0 ELSE k[one(s)] + jt[s \ {one(s)}]
    BY DEF Sums
  <1> HIDE DEF one
  <1>3. \A s \in SUBSET R : IsFiniteSet(s) /\ Cardinality(s) \in Nat
    BY FS_Subset, FS_CardinalityType
  <1> DEFINE P == {n \in Nat : \A s \in SUBSET R : Cardinality(s) = n => it[s] = jt[s]}
  <1>4. 0 \in P
    <2>1. \A s \in SUBSET R : Cardinality(s) = 0 => s = {}
      BY <1>3, FS_EmptySet
    <2> QED
      BY <2>1, <1>1, <1>2
  <1>5. ASSUME NEW n \in P PROVE n + 1 \in P
    <2>0. n \in Nat
      OBVIOUS
    <2>1. ASSUME NEW s \in SUBSET R, Cardinality(s) = n + 1 PROVE it[s] = jt[s]
      <3> DEFINE t == s \ {one(s)}
      <3>1. s # {}
        BY <2>0, <2>1, FS_EmptySet
      <3>2. one(s) \in s /\ t \in SUBSET R
        BY <3>1, <1>0
      <3>3. Cardinality(t) = n
        <4>1. IsFiniteSet(s)
          BY <1>3
        <4>2. \A z \in s : Cardinality(s \ {z}) = Cardinality(s) - 1
          BY <4>1, FS_RemoveElement
        <4>3. Cardinality(t) = Cardinality(s) - 1
          BY <3>2, <4>2
        <4> QED
          BY <2>0, <2>1, <4>3
      <3> HIDE DEF t
      <3>4. it[t] = jt[t]
        BY <3>2, <3>3
      <3>5. it[s] = g[one(s)] + it[t] /\ jt[s] = k[one(s)] + jt[t]
        BY <3>1, <1>1, <1>2 DEF t
      <3>6. g[one(s)] = k[one(s)]
        BY <3>2
      <3> QED
        BY <3>4, <3>5, <3>6
    <2> QED
      BY <2>0, <2>1
  <1>6. P = Nat
    <2> HIDE DEF P
    <2>1. P \in SUBSET Nat
      BY DEF P
    <2> QED
      BY <2>1, <1>4, <1>5, Induction
  <1> QED
    BY <1>3, <1>6

\* One that sums the same whichever element it takes first.
TakesAny(it, S, g) == \A s \in SUBSET S : \A x \in s : it[s] = g[x] + it[s \ {x}]

(* A function that sums takes any element first.                           *)
LEMMA SumsTake ==
    ASSUME NEW S, IsFiniteSet(S), NEW g \in [S -> Int], NEW it \in [SUBSET S -> Int], Sums(it, S, g)
    PROVE  TakesAny(it, S, g)
  <1> DEFINE one(s) == CHOOSE x \in s : TRUE
  <1>0. \A s \in SUBSET S : s # {} => one(s) \in s
    OBVIOUS
  <1>1. \A s \in SUBSET S : it[s] = IF s = {} THEN 0 ELSE g[one(s)] + it[s \ {one(s)}]
    BY DEF Sums
  <1> HIDE DEF one
  <1>2. \A s \in SUBSET S : IsFiniteSet(s) /\ Cardinality(s) \in Nat
    BY FS_Subset, FS_CardinalityType
  <1> DEFINE P == {n \in Nat : \A s \in SUBSET S :
                      Cardinality(s) = n => \A x \in s : it[s] = g[x] + it[s \ {x}]}
  <1>3. 0 \in P
    <2>1. \A s \in SUBSET S : Cardinality(s) = 0 => s = {}
      BY <1>2, FS_EmptySet
    <2> QED
      BY <2>1
  <1>4. ASSUME NEW n \in P PROVE n + 1 \in P
    <2>0. n \in Nat
      OBVIOUS
    <2>1. ASSUME NEW s \in SUBSET S, Cardinality(s) = n + 1, NEW x \in s PROVE it[s] = g[x] + it[s \ {x}]
      <3> DEFINE y == one(s)
                 sx == s \ {x}
                 sy == s \ {y}
      <3>1. y \in s /\ sx \in SUBSET S /\ sy \in SUBSET S
        BY <1>0
      <3>2. it[s] = g[y] + it[sy]
        BY <1>1
      <3> HIDE DEF y
      <3>3. CASE x = y
        BY <3>2, <3>3
      <3>4. CASE x # y
        <4>1. Cardinality(sx) = n /\ Cardinality(sy) = n
          <5>0. IsFiniteSet(s)
            BY <1>2
          <5>1. \A z \in s : Cardinality(s \ {z}) = n
            <6> TAKE z \in s
            <6>1. Cardinality(s \ {z}) = Cardinality(s) - 1
              BY <5>0, FS_RemoveElement
            <6> QED
              BY <2>0, <2>1, <6>1
          <5> QED
            BY <5>1, <3>1
        <4>2. y \in sx /\ x \in sy /\ sx \ {y} = sy \ {x}
          BY <3>1, <3>4
        <4> HIDE DEF sx, sy
        <4>3. it[sx] = g[y] + it[sx \ {y}] /\ it[sy] = g[x] + it[sy \ {x}]
          BY <3>1, <4>1, <4>2
        <4>4. /\ g[x] \in Int /\ g[y] \in Int /\ it[sx \ {y}] \in Int
          BY <3>1, <4>2
        <4>5. it[s] = g[x] + it[sx]
          <5>1. it[sy] = g[x] + it[sx \ {y}]
            BY <4>2, <4>3
          <5>2. it[s] = g[y] + (g[x] + it[sx \ {y}])
            BY <3>2, <5>1
          <5>3. it[sx] = g[y] + it[sx \ {y}]
            BY <4>3
          <5> QED
            BY <4>4, <5>2, <5>3
        <4> QED
          BY <4>5 DEF sx
      <3> QED
        BY <3>3, <3>4
    <2> QED
      BY <2>0, <2>1
  <1>5. P = Nat
    <2> HIDE DEF P
    <2>1. P \in SUBSET Nat
      BY DEF P
    <2> QED
      BY <2>1, <1>3, <1>4, Induction
  <1> QED
    BY <1>2, <1>5 DEF TakesAny

(* The sum is what such a function has for the whole set.                  *)
LEMMA SumIs ==
    ASSUME NEW S, IsFiniteSet(S), NEW g \in [S -> Int]
    PROVE  /\ SumAll(g) \in Int
           /\ \A it : Sums(it, S, g) => it[S] = SumAll(g)
  <1> DEFINE jt == CHOOSE it : Sums(it, S, g)
  <1>1. PICK it : Sums(it, S, g) /\ it \in [SUBSET S -> Int]
    BY SumsExist
  <1>2. Sums(jt, S, g)
    BY <1>1
  <1>3. SumAll(g) = jt[S]
    BY DEF SumAll, MapThenSumSet, MapThenFoldSet, Sums
  <1> HIDE DEF jt
  <1>4. \A kt : Sums(kt, S, g) => kt[S] = jt[S]
    BY <1>2, SumsAgree
  <1>5. it[S] = jt[S] /\ it[S] \in Int
    BY <1>1, <1>4
  <1> QED
    BY <1>3, <1>4, <1>5

\* g on a part of its domain.
On(g, A) == [x \in A |-> g[x]]

(* Over nothing the sum is zero, and an element can be set apart.          *)
LEMMA SumTake ==
    ASSUME NEW S, IsFiniteSet(S), NEW g \in [S -> Int]
    PROVE  /\ S = {} => SumAll(g) = 0
           /\ \A x \in S : SumAll(g) = g[x] + SumAll(On(g, S \ {x}))
  <1>1. PICK it : Sums(it, S, g) /\ it \in [SUBSET S -> Int]
    BY SumsExist
  <1>2. it[S] = SumAll(g)
    BY <1>1, SumIs
  <1>3. S = {} => it[S] = 0
    BY <1>1 DEF Sums
  <1>4. ASSUME NEW x \in S PROVE SumAll(g) = g[x] + SumAll(On(g, S \ {x}))
    <2> DEFINE R == S \ {x}
               k == On(g, R)
    <2>1. IsFiniteSet(R) /\ R \in SUBSET S /\ k \in [R -> Int] /\ \A y \in R : g[y] = k[y]
      BY FS_RemoveElement DEF On
    <2> HIDE DEF k, R
    <2>2. PICK jt : Sums(jt, R, k)
      BY <2>1, SumsExist
    <2>3. jt[R] = SumAll(k)
      BY <2>1, <2>2, SumIs
    <2>4. it[R] = jt[R]
      <3>1. R \in SUBSET R
        OBVIOUS
      <3> QED
        BY <3>1, <1>1, <2>1, <2>2, SumsAgree
    <2>5. it[S] = g[x] + it[R]
      <3>1. TakesAny(it, S, g)
        BY <1>1, SumsTake
      <3>2. S \in SUBSET S
        OBVIOUS
      <3> QED
        BY <3>1, <3>2 DEF R, TakesAny
    <2> QED
      BY <1>2, <2>3, <2>4, <2>5 DEF k, R
  <1> QED
    BY <1>2, <1>3, <1>4

(* The sum over a set is that over a part of it and that over the rest.    *)
LEMMA SumSplit ==
    ASSUME NEW S, IsFiniteSet(S), NEW g \in [S -> Int], NEW A \in SUBSET S
    PROVE  SumAll(g) = SumAll(On(g, A)) + SumAll(On(g, S \ A))
  <1> DEFINE Q == {B \in SUBSET S : SumAll(g) = SumAll(On(g, B)) + SumAll(On(g, S \ B))}
  <1>0. \A B \in SUBSET S : IsFiniteSet(B) /\ On(g, B) \in [B -> Int]
    BY FS_Subset DEF On
  <1>1. {} \in Q
    <2>1. On(g, S \ {}) = g
      BY DEF On
    <2>2. SumAll(On(g, {})) = 0
      <3>1. {} \in SUBSET S
        OBVIOUS
      <3> QED
        BY <3>1, <1>0, SumTake
    <2>3. SumAll(g) \in Int
      BY SumIs
    <2> QED
      BY <2>1, <2>2, <2>3
  <1>2. ASSUME NEW B \in Q, NEW x \in S, x \notin B PROVE B \cup {x} \in Q
    <2> DEFINE C == B \cup {x}
               D == S \ B
               E == S \ C
    <2>1. C \in SUBSET S /\ D \in SUBSET S /\ E \in SUBSET S /\ B \in SUBSET S
      OBVIOUS
    <2>2. C \ {x} = B /\ D \ {x} = E /\ x \in C /\ x \in D
      BY <1>2
    <2>3. SumAll(g) = SumAll(On(g, B)) + SumAll(On(g, D))
      OBVIOUS
    <2> HIDE DEF C, D, E
    <2>4. \A X \in SUBSET S : x \in X => SumAll(On(g, X)) = g[x] + SumAll(On(g, X \ {x}))
      <3> SUFFICES ASSUME NEW X \in SUBSET S, x \in X
                   PROVE  SumAll(On(g, X)) = g[x] + SumAll(On(g, X \ {x}))
        OBVIOUS
      <3> DEFINE k == On(g, X)
      <3>1. k[x] = g[x] /\ On(k, X \ {x}) = On(g, X \ {x})
        BY DEF On
      <3>2. IsFiniteSet(X) /\ k \in [X -> Int]
        BY <1>0
      <3> HIDE DEF k
      <3>3. SumAll(k) = k[x] + SumAll(On(k, X \ {x}))
        BY <3>2, SumTake
      <3> QED
        BY <3>1, <3>3 DEF k
    <2>5. SumAll(On(g, C)) = g[x] + SumAll(On(g, B)) /\ SumAll(On(g, D)) = g[x] + SumAll(On(g, E))
      BY <2>1, <2>2, <2>4
    <2>6. SumAll(On(g, B)) \in Int /\ SumAll(On(g, E)) \in Int /\ g[x] \in Int
      BY <2>1, <1>0, SumIs
    <2>7. SumAll(g) = SumAll(On(g, C)) + SumAll(On(g, E))
      BY <2>3, <2>5, <2>6
    <2> QED
      BY <2>1, <2>7 DEF C, E
  <1>3. Q = SUBSET S
    <2>1. Q \in SUBSET (SUBSET S)
      OBVIOUS
    <2> HIDE DEF Q
    <2> QED
      BY <2>1, <1>1, <1>2, SubsetInduction
  <1> QED
    BY <1>3

(***************************************************************************)
(* Numbering the elements of a finite set by the order of their keys.      *)
(***************************************************************************)
\* How many elements have a smaller key.
Place(key, S, x) == Cardinality({y \in S : key[y] < key[x]})

(* Each place is one element's.                                            *)
LEMMA PlacesFilled ==
    ASSUME NEW S, IsFiniteSet(S), NEW key \in [S -> Int],
           \A x, y \in S : key[x] = key[y] => x = y
    PROVE  /\ \A x \in S : Place(key, S, x) + 1 \in 1..Cardinality(S)
           /\ \A i \in 1..Cardinality(S) : \E x \in S : Place(key, S, x) = i - 1
  <1> DEFINE below(x) == {y \in S : key[y] < key[x]}
             c == Cardinality(S)
             place == [x \in S |-> Place(key, S, x) + 1]
  <1>1. c \in Nat
    BY FS_CardinalityType
  <1>2. ASSUME NEW x \in S
        PROVE  /\ IsFiniteSet(below(x)) /\ Cardinality(below(x)) \in Nat
               /\ Cardinality(below(x)) < c
    <2>1. below(x) \in SUBSET S /\ x \notin below(x)
      OBVIOUS
    <2>2. IsFiniteSet(below(x))
      BY <2>1, FS_Subset
    <2>3. Cardinality(below(x)) <= Cardinality(S) /\ (Cardinality(below(x)) = Cardinality(S) => below(x) = S)
      BY <2>1, FS_Subset
    <2> HIDE DEF below
    <2> QED
      BY <1>1, <2>1, <2>2, <2>3, FS_CardinalityType
  <1>3. ASSUME NEW x \in S, NEW y \in S, key[x] < key[y]
        PROVE  Cardinality(below(x)) < Cardinality(below(y))
    <2>1. below(x) \in SUBSET below(y) /\ x \in below(y) /\ x \notin below(x)
      BY <1>3
    <2>2. IsFiniteSet(below(y)) /\ Cardinality(below(x)) \in Nat /\ Cardinality(below(y)) \in Nat
      BY <1>2
    <2> HIDE DEF below
    <2> QED
      BY <2>1, <2>2, FS_Subset
  <1>p. \A x \in S : Place(key, S, x) = Cardinality(below(x))
    BY DEF Place
  <1> HIDE DEF below
  <1>4. place \in [S -> 1..c] /\ \A x \in S : place[x] = Cardinality(below(x)) + 1
    <2>1. \A x \in S : Place(key, S, x) + 1 \in 1..c
      <3> HIDE DEF c
      <3> QED
        BY <1>1, <1>2, <1>p
    <2> QED
      BY <2>1, <1>p
  <1> HIDE DEF place
  <1>5. IsInjective(place)
    <2>1. ASSUME NEW x \in S, NEW y \in S, place[x] = place[y] PROVE x = y
      <3>1. Cardinality(below(x)) = Cardinality(below(y))
        BY <2>1, <1>2, <1>4
      <3>2. key[x] \in Int /\ key[y] \in Int /\ ~(key[x] < key[y]) /\ ~(key[y] < key[x])
        BY <3>1, <1>2, <1>3
      <3> QED
        BY <3>2
    <2> QED
      BY <2>1, <1>4 DEF IsInjective
  <1>6. place \in Surjection(S, 1..c)
    <2>1. place \in Injection(S, 1..c)
      BY <1>4, <1>5 DEF Injection
    <2>2. IsFiniteSet(1..c) /\ Cardinality(1..c) = c
      BY <1>1, FS_Interval
    <2> HIDE DEF place, c
    <2>3. Cardinality(S) = Cardinality(1..c)
      BY <2>2 DEF c
    <2> QED
      BY <2>1, <2>2, <2>3, FS_Injection
  <1>7. ASSUME NEW i \in 1..c PROVE \E x \in S : Place(key, S, x) = i - 1
    <2>1. PICK x \in S : place[x] = i
      BY <1>6 DEF Surjection
    <2> QED
      BY <2>1, <1>2, <1>4, <1>p
  <1> QED
    BY <1>4, <1>7 DEF place
=============================================================================
