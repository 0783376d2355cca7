------------------------ MODULE WeightUpdateProofs ------------------------
(***************************************************************************)
(* For every sequence of command lines and models: the buckets and the     *)
(* plan of transfers cover the parameters and the engines, an update takes *)
(* effect in every engine, caches are fresh, and the engines implement     *)
(* WeightService.                                                          *)
(***************************************************************************)
EXTENDS WeightUpdate, DataInduction, TLAPS

(***************************************************************************)
(* The buckets.                                                            *)
(***************************************************************************)
\* A bucket being filled, and how a parameter is added to it if it is wanted.
Fillings(P) == [closed : Seq(SUBSET P), open : SUBSET P, size : Int]

Fill(b, p, kinds, buffer, guarded) == IF p.expert \in kinds THEN AddParam(b, p, buffer, guarded) ELSE b

\* f is how the buckets are filled, parameter by parameter.
Fills(f, params, kinds, buffer, guarded) ==
    /\ f[0] = Filling(<<>>, {}, 0)
    /\ \A i \in DOMAIN params : f[i] = Fill(f[i - 1], params[i], kinds, buffer, guarded)

\* The buckets that are closed, and the open one if it has something in it.
WithOpen(b) == IF b.open = {} THEN b.closed ELSE Append(b.closed, b.open)

(* The fold that makes the buckets takes one parameter after the other.    *)
LEMMA BucketsFill ==
    ASSUME NEW P, NEW params \in Seq(P), NEW kinds, NEW buffer, NEW guarded,
           \A p \in P : p.size \in Int
    PROVE  \E f : /\ Fills(f, params, kinds, buffer, guarded)
                  /\ Bucketed(params, kinds, buffer, guarded) = WithOpen(f[Len(params)])
  <1> DEFINE n == Len(params)
             V == Fillings(P)
             v == Filling(<<>>, {}, 0)
             h == [ib \in (1..n) \X V |-> Fill(ib[2], params[ib[1]], kinds, buffer, guarded)]
             E(it) == it = [s \in SUBSET DOMAIN params |->
                          IF s = {} THEN v
                          ELSE LET x == Max(s)
                               IN  IF params[x].expert \in kinds
                                   THEN AddParam(it[s \ {x}], params[x], buffer, guarded) ELSE it[s \ {x}]]
             jt == CHOOSE it : E(it)
  <1>1. n \in Nat /\ DOMAIN params = 1..n
    OBVIOUS
  <1>2. v \in V
    BY DEF Filling, Fillings
  <1>3. ASSUME NEW b \in V, NEW p \in P PROVE Fill(b, p, kinds, buffer, guarded) \in V
    BY <1>3 DEF Fill, AddParam, Filling, Fillings
  <1>4. h \in [(1..n) \X V -> V]
    <2> HIDE DEF V
    <2> QED
      BY <1>3
  <1>5. PICK it : FoldsLeft(it, n, V, v, h)
    <2> HIDE DEF n, V, v, h
    <2> QED
      BY <1>1, <1>2, <1>4, FoldLeftExists
  <1>6. E(it)
    <2>1. ASSUME NEW s \in SUBSET (1..n), s # {}
          PROVE  it[s] = Fill(it[s \ {Max(s)}], params[Max(s)], kinds, buffer, guarded)
      <3>1. Max(s) \in 1..n
        <4> HIDE DEF n, V, v, h
        <4>1. Max(s) \in s
          BY <1>1, <2>1, LargestIn
        <4> QED
          BY <4>1
      <3>2. it[s \ {Max(s)}] \in V
        BY <1>5 DEF FoldsLeft
      <3>3. it[s] = h[<<Max(s), it[s \ {Max(s)}]>>]
        BY <1>5, <2>1 DEF FoldsLeft
      <3> HIDE DEF V
      <3> QED
        BY <3>1, <3>2, <3>3
    <2> HIDE DEF V, v, h
    <2>2. it = [s \in SUBSET DOMAIN params |-> it[s]] /\ it[{}] = v
      BY <1>1, <1>5 DEF FoldsLeft
    <2> HIDE DEF n
    <2> QED
      BY <1>1, <2>1, <2>2 DEF Fill
  <1>7. E(jt)
    BY <1>6
  <1>8. Bucketed(params, kinds, buffer, guarded) = WithOpen(jt[DOMAIN params])
    BY DEF Bucketed, FoldLeft, MapThenFoldSet, WithOpen
  <1> HIDE DEF jt
  <1> DEFINE f == [i \in 0..n |-> jt[1..i]]
  <1>9. f[0] = v /\ f[n] = jt[DOMAIN params]
    <2>1. 1..0 = {} /\ 1..0 \in SUBSET DOMAIN params
      OBVIOUS
    <2> HIDE DEF v, n
    <2> QED
      BY <1>1, <1>7, <2>1
  <1>10. ASSUME NEW i \in 1..n PROVE f[i] = Fill(f[i - 1], params[i], kinds, buffer, guarded)
    <2> DEFINE k == i - 1
    <2>1. k \in Nat /\ k \in 0..n /\ i = k + 1
      OBVIOUS
    <2>2. Max(1..i) = i /\ (1..i) \ {i} = 1..k /\ 1..i # {}
      <3> HIDE DEF k
      <3> QED
        BY <2>1, LastNumber
    <2>3. 1..i \in SUBSET DOMAIN params
      BY <1>1
    <2>4. jt[1..i] = Fill(jt[(1..i) \ {i}], params[i], kinds, buffer, guarded)
      <3> HIDE DEF v, n
      <3> QED
        BY <1>7, <2>2, <2>3 DEF Fill
    <2> QED
      BY <2>1, <2>2, <2>4
  <1> HIDE DEF f, v
  <1>11. Fills(f, params, kinds, buffer, guarded)
    BY <1>1, <1>9, <1>10 DEF Fills, v
  <1> QED
    BY <1>8, <1>9, <1>11

\* What a bucket that is filled and those that are closed have.
Kept(b) == (UNION ToSet(b.closed)) \cup b.open

\* No parameter is in two of them.
Apart(b) ==
    /\ \A k, l \in DOMAIN b.closed : b.closed[k] \cap b.closed[l] # {} => k = l
    /\ \A k \in DOMAIN b.closed : b.closed[k] \cap b.open = {}

(* Filling on keeps what is held and adds what is wanted.                  *)
LEMMA FillKeeps ==
    ASSUME NEW P, NEW b \in Fillings(P), NEW p \in P, p.size \in Int, NEW kinds, NEW buffer, NEW guarded
    PROVE  LET c == Fill(b, p, kinds, buffer, guarded) IN
           /\ c \in Fillings(P)
           /\ Kept(c) = Kept(b) \cup (IF p.expert \in kinds THEN {p} ELSE {})
           /\ Apart(b) /\ p \notin Kept(b) => Apart(c)
  <1> DEFINE c == Fill(b, p, kinds, buffer, guarded)
             s == b.closed
  <1>0. s \in Seq(SUBSET P) /\ b.open \in SUBSET P /\ b.size \in Int
    BY DEF Fillings
  <1>1. CASE p.expert \notin kinds
    BY <1>1 DEF Fill
  <1>2. CASE p.expert \in kinds /\ c = Filling(s, b.open \cup {p}, b.size + p.size)
    <2>1. c.closed = s /\ c.open = b.open \cup {p} /\ c \in Fillings(P)
      BY <1>0, <1>2 DEF Filling, Fillings
    <2> HIDE DEF c
    <2>2. Kept(c) = Kept(b) \cup {p}
      BY <2>1 DEF Kept
    <2>3. Apart(b) /\ p \notin Kept(b) => Apart(c)
      <3>1. \A k \in DOMAIN s : s[k] \in ToSet(s)
        BY DEF ToSet
      <3>2. p \notin Kept(b) => \A k \in DOMAIN s : p \notin s[k]
        BY <3>1 DEF Kept
      <3> QED
        BY <2>1, <3>2 DEF Apart
    <2> QED
      BY <1>2, <2>1, <2>2, <2>3 DEF c
  <1>3. CASE p.expert \in kinds /\ c = Filling(Append(s, b.open), {p}, p.size)
    <2> DEFINE t == Append(s, b.open)
    <2>1. c.closed = t /\ c.open = {p} /\ c \in Fillings(P)
      BY <1>0, <1>3 DEF Filling, Fillings
    <2>2. /\ DOMAIN t = DOMAIN s \cup {Len(s) + 1} /\ t[Len(s) + 1] = b.open
          /\ \A k \in DOMAIN s : t[k] = s[k] /\ k # Len(s) + 1
      BY <1>0
    <2> HIDE DEF c, t
    <2>3. ToSet(t) = ToSet(s) \cup {b.open}
      BY <2>2 DEF ToSet
    <2>4. Kept(c) = Kept(b) \cup {p}
      BY <2>1, <2>3 DEF Kept
    <2>5. ASSUME Apart(b), p \notin Kept(b) PROVE Apart(c)
      <3>1. \A k \in DOMAIN s : s[k] \in ToSet(s)
        BY DEF ToSet
      <3>2. p \notin b.open /\ \A k \in DOMAIN s : p \notin s[k]
        BY <2>5, <3>1 DEF Kept
      <3>3. \A k, l \in DOMAIN t : t[k] \cap t[l] # {} => k = l
        BY <2>2, <2>5 DEF Apart
      <3>4. \A k \in DOMAIN t : p \notin t[k]
        BY <2>2, <3>2
      <3> QED
        BY <2>1, <3>3, <3>4 DEF Apart
    <2> QED
      BY <1>3, <2>1, <2>4, <2>5 DEF c
  <1>4. \/ p.expert \notin kinds
        \/ c = Filling(s, b.open \cup {p}, b.size + p.size)
        \/ c = Filling(Append(s, b.open), {p}, p.size)
    BY DEF Fill, AddParam
  <1> HIDE DEF c
  <1> QED
    BY <1>1, <1>2, <1>3, <1>4 DEF c

\* The first i parameters that are wanted.
Wanted(params, kinds, i) == {params[j] : j \in {j \in 1..i : params[j].expert \in kinds}}

(* All parameters that are wanted, and no others, are in the buckets; each *)
(* in one, if none comes twice.                                            *)
LEMMA BucketsAre ==
    ASSUME NEW P, NEW params \in Seq(P), NEW kinds, NEW buffer, NEW guarded,
           \A p \in P : p.size \in Int
    PROVE  LET bs == Bucketed(params, kinds, buffer, guarded) IN
           /\ bs \in Seq(SUBSET P)
           /\ UNION ToSet(bs) = Wanted(params, kinds, Len(params))
           /\ IsInjective(params) => \A k, l \in DOMAIN bs : bs[k] \cap bs[l] # {} => k = l
  <1> DEFINE bs == Bucketed(params, kinds, buffer, guarded)
             n == Len(params)
             fine(b, i) ==
                 /\ b \in Fillings(P) /\ Kept(b) = Wanted(params, kinds, i)
                 /\ IsInjective(params) => Apart(b)
  <1>0. n \in Nat /\ DOMAIN params = 1..n /\ \A i \in 1..n : params[i] \in P
    OBVIOUS
  <1>1. PICK f : Fills(f, params, kinds, buffer, guarded) /\ bs = WithOpen(f[n])
    BY BucketsFill
  <1> DEFINE I == {i \in Nat : i <= n => fine(f[i], i)}
  <1>2. 0 \in I
    <2>1. f[0] = Filling(<<>>, {}, 0)
      BY <1>1 DEF Fills
    <2>2. f[0] \in Fillings(P) /\ f[0].closed = <<>> /\ f[0].open = {}
      BY <2>1 DEF Filling, Fillings
    <2>3. ToSet(<<>>) = {}
      BY DEF ToSet
    <2>4. Kept(f[0]) = Wanted(params, kinds, 0)
      BY <2>2, <2>3 DEF Kept, Wanted
    <2>5. Apart(f[0])
      BY <2>2 DEF Apart
    <2> QED
      BY <2>2, <2>4, <2>5
  <1>3. ASSUME NEW i \in I PROVE i + 1 \in I
    <2>1. CASE i + 1 <= n
      <3> DEFINE p == params[i + 1]
      <3>1. i + 1 \in 1..n /\ (i + 1) - 1 = i /\ i \in Nat /\ i <= n
        BY <2>1, <1>0
      <3>2. f[i + 1] = Fill(f[i], p, kinds, buffer, guarded)
        BY <3>1, <1>0, <1>1 DEF Fills
      <3>3. fine(f[i], i)
        BY <3>1
      <3>4. p \in P /\ p.size \in Int
        BY <3>1, <1>0
      <3>5. Wanted(params, kinds, i + 1)
              = Wanted(params, kinds, i) \cup (IF p.expert \in kinds THEN {p} ELSE {})
        <4>1. 1..(i + 1) = (1..i) \cup {i + 1}
          BY <3>1
        <4> QED
          BY <4>1 DEF Wanted
      <3>6. IsInjective(params) => p \notin Wanted(params, kinds, i)
        <4>1. \A j \in 1..i : j \in DOMAIN params /\ j # i + 1
          BY <3>1, <1>0
        <4> QED
          BY <3>1, <4>1, <1>0 DEF Wanted, IsInjective
      <3> HIDE DEF p
      <3>7. /\ f[i + 1] \in Fillings(P)
            /\ Kept(f[i + 1]) = Kept(f[i]) \cup (IF p.expert \in kinds THEN {p} ELSE {})
            /\ Apart(f[i]) /\ p \notin Kept(f[i]) => Apart(f[i + 1])
        BY <3>2, <3>3, <3>4, FillKeeps
      <3>8. fine(f[i + 1], i + 1)
        BY <3>3, <3>5, <3>6, <3>7
      <3> QED
        BY <3>1, <3>8
    <2> QED
      BY <2>1
  <1>4. n \in I
    <2>1. I = Nat
      <3> HIDE DEF I
      <3>1. I \in SUBSET Nat
        BY DEF I
      <3> QED
        BY <3>1, <1>2, <1>3, Induction
    <2> QED
      BY <1>0, <2>1
  <1> DEFINE b == f[n]
  <1>5. fine(b, n)
    BY <1>0, <1>4
  <1>6. bs = IF b.open = {} THEN b.closed ELSE Append(b.closed, b.open)
    BY <1>1 DEF WithOpen
  <1>7. b.closed \in Seq(SUBSET P) /\ b.open \in SUBSET P
    BY <1>5 DEF Fillings
  <1> HIDE DEF b, bs
  <1>8. CASE b.open = {}
    BY <1>5, <1>6, <1>7, <1>8 DEF bs, Kept, Apart
  <1>9. CASE b.open # {}
    <2> DEFINE s == b.closed
    <2>1. bs = Append(s, b.open) /\ bs \in Seq(SUBSET P)
      BY <1>6, <1>7, <1>9
    <2>2. /\ DOMAIN bs = DOMAIN s \cup {Len(s) + 1} /\ bs[Len(s) + 1] = b.open
          /\ \A k \in DOMAIN s : bs[k] = s[k] /\ k # Len(s) + 1
      BY <1>7, <2>1
    <2>3. ToSet(bs) = ToSet(s) \cup {b.open}
      BY <2>2 DEF ToSet
    <2>4. UNION ToSet(bs) = Kept(b)
      BY <2>3 DEF Kept
    <2>5. Apart(b) => \A k, l \in DOMAIN bs : bs[k] \cap bs[l] # {} => k = l
      BY <2>2 DEF Apart
    <2> QED
      BY <2>1, <2>4, <2>5, <1>5 DEF bs
  <1> QED
    BY <1>8, <1>9

(***************************************************************************)
(* The plan of transfers.                                                  *)
(***************************************************************************)
Plans(sources, T) == [given : [1..sources -> SUBSET T], next : Nat]

\* The targets that have been given to some source.
Given(plan) == UNION {plan.given[s] : s \in DOMAIN plan.given}

(* The targets are all ranks of all engines.                               *)
LEMMA TargetsAre ==
    ASSUME NEW engines \in Nat, NEW gpus \in Nat \ {0}
    PROVE  /\ AllTargets(engines, gpus) \in Seq((1..engines) \X (1..gpus))
           /\ ToSet(AllTargets(engines, gpus)) = (1..engines) \X (1..gpus)
           /\ Len(AllTargets(engines, gpus)) = engines * gpus
  <1> DEFINE all == AllTargets(engines, gpus)
             n == engines * gpus
             T == (1..engines) \X (1..gpus)
  <1>0. n \in Nat
    OBVIOUS
  <1>1. ASSUME NEW i \in 1..n
        PROVE  ((i - 1) \div gpus) + 1 \in 1..engines /\ ((i - 1) % gpus) + 1 \in 1..gpus
    <2> DEFINE d == (i - 1) \div gpus
               m == (i - 1) % gpus
    <2>1. d \in Nat /\ m \in 0..(gpus - 1) /\ i - 1 = gpus * d + m
      BY <1>0
    <2> HIDE DEF d, m
    <2>2. gpus * d < engines * gpus
      BY <2>1, <1>0
    <2>3. d < engines
      <3>1. CASE d >= engines
        <4>1. PICK k \in Nat : d = engines + k
          <5>1. d - engines \in Nat /\ d = engines + (d - engines)
            BY <2>1, <3>1
          <5> QED
            BY <5>1
        <4>2. gpus * d = engines * gpus + gpus * k /\ gpus * k \in Nat /\ engines * gpus \in Nat
          BY <4>1
        <4> QED
          BY <4>2, <2>2
      <3> QED
        BY <3>1, <2>1
    <2> QED
      BY <2>1, <2>3 DEF d, m
  <1>2. all = [i \in 1..n |-> <<((i - 1) \div gpus) + 1, ((i - 1) % gpus) + 1>>]
    BY DEF AllTargets
  <1>3. all \in [1..n -> T]
    <2>1. \A i \in 1..n : <<((i - 1) \div gpus) + 1, ((i - 1) % gpus) + 1>> \in T
      BY <1>1
    <2> HIDE DEF T, n
    <2> QED
      BY <1>2, <2>1
  <1>4. all \in Seq(T) /\ Len(all) = n
    <2> HIDE DEF all, T, n
    <2> QED
      BY <1>0, <1>3
  <1>5. ASSUME NEW e \in 1..engines, NEW g \in 1..gpus PROVE <<e, g>> \in ToSet(all)
    <2> DEFINE i == (e - 1) * gpus + g
    <2>1. (e - 1) * gpus \in Nat /\ (e - 1) * gpus + gpus <= n
      <3>1. PICK k \in Nat : engines = e + k
        <4>1. engines - e \in Nat /\ engines = e + (engines - e)
          OBVIOUS
        <4> QED
          BY <4>1
      <3>2. n = (e - 1) * gpus + gpus + k * gpus /\ k * gpus \in Nat /\ (e - 1) * gpus \in Nat
        BY <3>1
      <3> QED
        BY <3>2
    <2>2. i \in 1..n /\ i - 1 = gpus * (e - 1) + (g - 1) /\ g - 1 \in 0..(gpus - 1)
      BY <2>1
    <2>3. (i - 1) \div gpus = e - 1 /\ (i - 1) % gpus = g - 1
      <3>1. \A q, q2 \in Nat, m, m2 \in 0..(gpus - 1) :
                gpus * q + m = gpus * q2 + m2 => q = q2 /\ m = m2
        <4> TAKE q, q2 \in Nat, m, m2 \in 0..(gpus - 1)
        <4>1. CASE q < q2
          <5>1. PICK k \in Nat : q2 = q + 1 + k
            <6>1. q2 - q - 1 \in Nat /\ q2 = q + 1 + (q2 - q - 1)
              BY <4>1
            <6> QED
              BY <6>1
          <5>2. gpus * q2 = gpus * q + gpus + gpus * k /\ gpus * k \in Nat /\ gpus * q \in Nat
            BY <5>1
          <5> QED
            BY <5>2
        <4>2. CASE q2 < q
          <5>1. PICK k \in Nat : q = q2 + 1 + k
            <6>1. q - q2 - 1 \in Nat /\ q = q2 + 1 + (q - q2 - 1)
              BY <4>2
            <6> QED
              BY <6>1
          <5>2. gpus * q = gpus * q2 + gpus + gpus * k /\ gpus * k \in Nat /\ gpus * q2 \in Nat
            BY <5>1
          <5> QED
            BY <5>2
        <4>3. CASE q = q2
          BY <4>3
        <4> QED
          BY <4>1, <4>2, <4>3
      <3> DEFINE d == (i - 1) \div gpus
                 m == (i - 1) % gpus
      <3>2. d \in Nat /\ m \in 0..(gpus - 1) /\ i - 1 = gpus * d + m
        BY <2>2
      <3>3. e - 1 \in Nat
        OBVIOUS
      <3> HIDE DEF d, m, i
      <3>4. d = e - 1 /\ m = g - 1
        BY <2>2, <3>1, <3>2, <3>3
      <3> QED
        BY <3>4 DEF d, m
    <2>4. all[i] = <<e, g>>
      <3> DEFINE j == (i - 1) \div gpus
                 m == (i - 1) % gpus
      <3>1. all[i] = <<j + 1, m + 1>>
        <4> HIDE DEF i
        <4> QED
          BY <1>2, <2>2
      <3>2. j + 1 = e /\ m + 1 = g
        BY <2>3
      <3> HIDE DEF j, m, i, all
      <3> QED
        BY <3>1, <3>2
    <2> HIDE DEF i
    <2> QED
      BY <1>3, <2>2, <2>4 DEF ToSet
  <1>6. ToSet(all) \subseteq T
    <2> HIDE DEF all, T, n
    <2> QED
      BY <1>3 DEF ToSet
  <1> QED
    BY <1>4, <1>5, <1>6

(* A target is given to one of the sources.                                *)
LEMMA SelectsSource ==
    ASSUME NEW sources \in Nat \ {0}, NEW T, IsFiniteSet(T), NEW plan \in Plans(sources, T), NEW k
    PROVE  LET x == Select(plan, sources, k) IN x.source \in 1..sources /\ x.next \in Nat
  <1> DEFINE given == plan.given
             load(s) == Load(given, s, k)
             holders == {s \in 1..sources : load(s) > 0}
             loads == {load(s) : s \in holders}
             least == Min(loads)
             few == {s \in holders : load(s) = least}
  <1>1. given \in [1..sources -> SUBSET T] /\ plan.next \in Nat
    BY DEF Plans
  <1>2. \A s \in 1..sources : load(s) \in Nat
    <2> TAKE s \in 1..sources
    <2>1. {t \in given[s] : t[2] = k} \in SUBSET T
      BY <1>1
    <2> QED
      BY <2>1, FS_Subset, FS_CardinalityType DEF Load
  <1>3. CASE holders # {}
    <2>1. loads \in SUBSET Nat /\ loads # {}
      BY <1>2, <1>3
    <2>2. least \in loads
      <3> HIDE DEF loads
      <3> QED
        BY <2>1, LeastIn
    <2>3. few \in SUBSET Nat /\ few # {} /\ few \subseteq 1..sources
      <3> HIDE DEF least, load
      <3> QED
        BY <2>2
    <2>4. Min(few) \in few
      <3> HIDE DEF few
      <3> QED
        BY <2>3, LeastIn
    <2>5. Select(plan, sources, k) = [source |-> Min(few), next |-> plan.next]
      BY <1>3 DEF Select
    <2> DEFINE x == Min(few)
    <2>6. x \in 1..sources
      <3> HIDE DEF few
      <3> QED
        BY <2>3, <2>4
    <2> HIDE DEF x, few
    <2> QED
      BY <1>1, <2>5, <2>6 DEF x, few
  <1>4. CASE holders = {}
    <2>1. Select(plan, sources, k) = [source |-> (plan.next % sources) + 1, next |-> plan.next + 1]
      BY <1>4 DEF Select
    <2>2. (plan.next % sources) + 1 \in 1..sources
      BY <1>1
    <2> QED
      BY <1>1, <2>1, <2>2
  <1> QED
    BY <1>3, <1>4

(* It is one of those given then, and no source loses one it has.          *)
LEMMA AssignKeeps ==
    ASSUME NEW sources \in Nat \ {0}, NEW T, IsFiniteSet(T), NEW plan \in Plans(sources, T), NEW t \in T
    PROVE  LET q == Assign(plan, sources, t) IN
           /\ q \in Plans(sources, T)
           /\ Given(q) = Given(plan) \cup {t}
           /\ \A s \in 1..sources : plan.given[s] \subseteq q.given[s]
  <1> DEFINE x == Select(plan, sources, t[2])
             q == Assign(plan, sources, t)
  <1>1. x.source \in 1..sources /\ x.next \in Nat
    BY SelectsSource
  <1>2. q = [given |-> [plan.given EXCEPT ![x.source] = @ \cup {t}], next |-> x.next]
    BY DEF Assign
  <1>3. plan.given \in [1..sources -> SUBSET T]
    BY DEF Plans
  <1> HIDE DEF x, q
  <1>4. q.given = [plan.given EXCEPT ![x.source] = @ \cup {t}] /\ q.next = x.next
    BY <1>2
  <1>5. q \in Plans(sources, T)
    BY <1>1, <1>2, <1>3 DEF Plans
  <1>6. /\ q.given[x.source] = plan.given[x.source] \cup {t}
        /\ \A s \in 1..sources : s # x.source => q.given[s] = plan.given[s]
        /\ DOMAIN q.given = 1..sources /\ DOMAIN plan.given = 1..sources
    BY <1>1, <1>3, <1>4
  <1>7. Given(q) = Given(plan) \cup {t}
    BY <1>1, <1>6 DEF Given
  <1> QED
    BY <1>5, <1>6, <1>7 DEF q

\* The rest of the targets are given to sources.
GivenOut(start, sources, rest) == FoldLeft(LAMBDA p, t : Assign(p, sources, t), start, rest)

\* f is how they are, one by one.
Assigns(f, start, sources, rest) ==
    /\ f[0] = start
    /\ \A i \in DOMAIN rest : f[i] = Assign(f[i - 1], sources, rest[i])

(* The fold that makes the plan takes one target after the other.          *)
LEMMA PlanFills ==
    ASSUME NEW sources \in Nat \ {0}, NEW T, IsFiniteSet(T), NEW rest \in Seq(T),
           NEW start \in Plans(sources, T)
    PROVE  \E f : /\ Assigns(f, start, sources, rest)
                  /\ GivenOut(start, sources, rest) = f[Len(rest)]
  <1> DEFINE n == Len(rest)
             V == Plans(sources, T)
             h == [ib \in (1..n) \X V |-> Assign(ib[2], sources, rest[ib[1]])]
             E(it) == it = [s \in SUBSET DOMAIN rest |->
                          IF s = {} THEN start
                          ELSE LET x == Max(s) IN Assign(it[s \ {x}], sources, rest[x])]
             jt == CHOOSE it : E(it)
  <1>1. n \in Nat /\ DOMAIN rest = 1..n
    OBVIOUS
  <1>2. h \in [(1..n) \X V -> V]
    <2>1. \A b \in V, t \in T : Assign(b, sources, t) \in V
      BY AssignKeeps
    <2> HIDE DEF V
    <2> QED
      BY <2>1
  <1>3. PICK it : FoldsLeft(it, n, V, start, h)
    <2>1. start \in V
      OBVIOUS
    <2> HIDE DEF n, V, h
    <2> QED
      BY <1>1, <1>2, <2>1, FoldLeftExists
  <1>4. E(it)
    <2>1. ASSUME NEW s \in SUBSET (1..n), s # {}
          PROVE  it[s] = Assign(it[s \ {Max(s)}], sources, rest[Max(s)])
      <3>1. Max(s) \in 1..n
        <4> HIDE DEF n, V, h
        <4>1. Max(s) \in s
          BY <1>1, <2>1, LargestIn
        <4> QED
          BY <4>1
      <3>2. it[s \ {Max(s)}] \in V
        BY <1>3 DEF FoldsLeft
      <3>3. it[s] = h[<<Max(s), it[s \ {Max(s)}]>>]
        BY <1>3, <2>1 DEF FoldsLeft
      <3> HIDE DEF V
      <3> QED
        BY <3>1, <3>2, <3>3
    <2> HIDE DEF V, h
    <2>2. it = [s \in SUBSET DOMAIN rest |-> it[s]] /\ it[{}] = start
      BY <1>1, <1>3 DEF FoldsLeft
    <2> HIDE DEF n
    <2> QED
      BY <1>1, <2>1, <2>2
  <1>5. E(jt)
    BY <1>4
  <1>6. GivenOut(start, sources, rest) = jt[DOMAIN rest]
    BY DEF GivenOut, FoldLeft, MapThenFoldSet
  <1> HIDE DEF jt
  <1> DEFINE f == [i \in 0..n |-> jt[1..i]]
  <1>7. f[0] = start /\ f[n] = jt[DOMAIN rest]
    <2>1. 1..0 = {} /\ 1..0 \in SUBSET DOMAIN rest
      OBVIOUS
    <2> HIDE DEF n
    <2> QED
      BY <1>1, <1>5, <2>1
  <1>8. ASSUME NEW i \in 1..n PROVE f[i] = Assign(f[i - 1], sources, rest[i])
    <2> DEFINE k == i - 1
    <2>1. k \in Nat /\ k \in 0..n /\ i = k + 1
      OBVIOUS
    <2>2. Max(1..i) = i /\ (1..i) \ {i} = 1..k /\ 1..i # {}
      <3> HIDE DEF k
      <3> QED
        BY <2>1, LastNumber
    <2>3. 1..i \in SUBSET DOMAIN rest
      BY <1>1
    <2>4. jt[1..i] = Assign(jt[(1..i) \ {i}], sources, rest[i])
      <3> HIDE DEF n
      <3> QED
        BY <1>5, <2>2, <2>3
    <2> QED
      BY <2>1, <2>2, <2>4
  <1> HIDE DEF f
  <1>9. Assigns(f, start, sources, rest)
    BY <1>1, <1>7, <1>8 DEF Assigns
  <1> QED
    BY <1>6, <1>7, <1>9

(* The rest of the targets is given out, and what sources had they keep.   *)
LEMMA RestGiven ==
    ASSUME NEW sources \in Nat \ {0}, NEW T, IsFiniteSet(T), NEW rest \in Seq(T),
           NEW start \in Plans(sources, T)
    PROVE  LET plan == GivenOut(start, sources, rest) IN
           /\ plan \in Plans(sources, T)
           /\ Given(plan) = Given(start) \cup ToSet(rest)
           /\ \A s \in 1..sources : start.given[s] \subseteq plan.given[s]
           /\ rest = <<>> => plan = start
  <1> DEFINE n == Len(rest)
             taken(i) == {rest[j] : j \in 1..i}
             Fine(p, i) == /\ p \in Plans(sources, T)
                           /\ Given(p) = Given(start) \cup taken(i)
                           /\ \A s \in 1..sources : start.given[s] \subseteq p.given[s]
  <1>1. PICK f : /\ Assigns(f, start, sources, rest)
                 /\ GivenOut(start, sources, rest) = f[n]
    BY PlanFills
  <1>2. n \in Nat /\ DOMAIN rest = 1..n /\ \A i \in 1..n : rest[i] \in T
    OBVIOUS
  <1> DEFINE I == {i \in Nat : i <= n => Fine(f[i], i)}
  <1>3. 0 \in I
    <2>1. f[0] = start
      BY <1>1 DEF Assigns
    <2>2. taken(0) = {}
      OBVIOUS
    <2> HIDE DEF taken
    <2> QED
      BY <2>1, <2>2
  <1>4. ASSUME NEW i \in I PROVE i + 1 \in I
    <2>1. CASE i + 1 <= n
      <3>1. i + 1 \in 1..n /\ (i + 1) - 1 = i /\ i \in Nat /\ i <= n
        BY <1>2, <2>1
      <3>2. f[i + 1] = Assign(f[i], sources, rest[i + 1])
        BY <1>1, <1>2, <3>1 DEF Assigns
      <3>3. Fine(f[i], i)
        BY <3>1
      <3>4. taken(i + 1) = taken(i) \cup {rest[i + 1]}
        <4>1. 1..(i + 1) = (1..i) \cup {i + 1}
          BY <3>1
        <4> QED
          BY <4>1
      <3> HIDE DEF taken
      <3>5. /\ f[i + 1] \in Plans(sources, T)
            /\ Given(f[i + 1]) = Given(f[i]) \cup {rest[i + 1]}
            /\ \A s \in 1..sources : f[i].given[s] \subseteq f[i + 1].given[s]
        BY <1>2, <3>1, <3>2, <3>3, AssignKeeps
      <3>6. Fine(f[i + 1], i + 1)
        BY <3>3, <3>4, <3>5
      <3> QED
        BY <3>1, <3>6
    <2> QED
      BY <2>1
  <1>5. n \in I
    <2>1. I = Nat
      <3> HIDE DEF I
      <3>1. I \in SUBSET Nat
        BY DEF I
      <3> QED
        BY <3>1, <1>3, <1>4, Induction
    <2> QED
      BY <1>2, <2>1
  <1>6. Fine(f[n], n)
    BY <1>2, <1>5
  <1>7. taken(n) = ToSet(rest)
    BY <1>2 DEF ToSet
  <1>8. rest = <<>> => f[n] = start
    BY <1>1 DEF Assigns
  <1> HIDE DEF taken, n
  <1> QED
    BY <1>1, <1>6, <1>7, <1>8

(* Every target is given to a source, and every source has one as long as  *)
(* there are targets.                                                      *)
LEMMA PlanIs ==
    ASSUME NEW sources \in Nat \ {0}, NEW engines \in Nat \ {0}, NEW gpus \in Nat \ {0}
    PROVE  LET given == plan_p2p(sources, engines, gpus)
               T == (1..engines) \X (1..gpus) IN
           /\ given \in [1..sources -> SUBSET T]
           /\ \A t \in T : \E s \in 1..sources : t \in given[s]
           /\ \A s \in 1..sources : given[s] # {} <=> s <= engines * gpus
  <1> DEFINE T == (1..engines) \X (1..gpus)
             n == engines * gpus
             all == AllTargets(engines, gpus)
             first == IF sources < Len(all) THEN sources ELSE Len(all)
             start == [given |-> [s \in 1..sources |-> IF s <= first THEN {all[s]} ELSE {}], next |-> 0]
             rest == SubSeq(all, first + 1, Len(all))
             plan == GivenOut(start, sources, rest)
  <1>1. all \in Seq(T) /\ ToSet(all) = T
    BY TargetsAre
  <1>2. n \in Nat /\ Len(all) = n
    <2>1. n \in Nat
      OBVIOUS
    <2>2. Len(all) = n
      <3>1. engines \in Nat
        OBVIOUS
      <3> QED
        BY <3>1, TargetsAre
    <2> QED
      BY <2>1, <2>2
  <1>3. plan_p2p(sources, engines, gpus) = plan.given
    BY DEF plan_p2p, GivenOut
  <1>4. IsFiniteSet(T)
    <2>1. IsFiniteSet(1..engines) /\ IsFiniteSet(1..gpus)
      BY FS_Interval
    <2> QED
      BY <2>1, FS_Product
  <1> HIDE DEF T, n, all
  <1>5. first \in Nat /\ first <= sources /\ first <= n /\ \A s \in 1..sources : s <= first <=> s <= n
    BY <1>2
  <1>6. first < sources => first = n
    BY <1>2
  <1> HIDE DEF first
  <1>7. \A i \in 1..n : all[i] \in T
    BY <1>1, <1>2
  <1>8. start \in Plans(sources, T)
    <2>1. \A s \in 1..sources : (IF s <= first THEN {all[s]} ELSE {}) \in SUBSET T
      BY <1>5, <1>7
    <2> QED
      BY <2>1 DEF Plans
  <1>9. \A s \in 1..sources : start.given[s] = IF s <= first THEN {all[s]} ELSE {}
    OBVIOUS
  <1>10. Given(start) = {all[i] : i \in 1..first}
    <2>1. DOMAIN start.given = 1..sources
      OBVIOUS
    <2> HIDE DEF start
    <2>2. Given(start) = UNION {start.given[s] : s \in 1..sources}
      BY <2>1 DEF Given
    <2>3. ASSUME NEW i \in 1..first PROVE i \in 1..sources /\ all[i] \in start.given[i]
      <3>1. i \in 1..sources /\ i <= first
        BY <1>5
      <3>2. start.given[i] = {all[i]}
        BY <1>9, <3>1
      <3> QED
        BY <3>1, <3>2
    <2>4. ASSUME NEW s \in 1..sources PROVE start.given[s] \subseteq {all[i] : i \in 1..first}
      <3>1. CASE s <= first
        <4>1. start.given[s] = {all[s]}
          BY <1>9, <3>1
        <4>2. s \in 1..first
          BY <1>5, <3>1
        <4> QED
          BY <4>1, <4>2
      <3>2. CASE ~(s <= first)
        <4>1. start.given[s] = {}
          BY <1>9, <3>2
        <4> QED
          BY <4>1
      <3> QED
        BY <3>1, <3>2
    <2> QED
      BY <2>2, <2>3, <2>4
  <1>11. rest \in Seq(T) /\ ToSet(rest) = {all[i] : i \in (first + 1)..n} /\ (first = n => rest = <<>>)
    <2>1. /\ rest \in Seq(T) /\ Len(rest) = n - first
          /\ \A j \in 1..(n - first) : rest[j] = all[first + j]
      BY <1>1, <1>2, <1>5
    <2> HIDE DEF rest
    <2>2. \A i \in (first + 1)..n : i - first \in 1..(n - first) /\ i = first + (i - first)
      BY <1>2, <1>5
    <2>3. \A i \in (first + 1)..n : all[i] = rest[i - first]
      BY <2>1, <2>2
    <2>4. \A j \in 1..(n - first) : first + j \in (first + 1)..n
      BY <1>2, <1>5
    <2>5. DOMAIN rest = 1..(n - first)
      BY <2>1
    <2>6. ToSet(rest) = {all[i] : i \in (first + 1)..n}
      BY <2>1, <2>2, <2>3, <2>4, <2>5 DEF ToSet
    <2> QED
      BY <2>1, <2>6, <1>2
  <1> HIDE DEF start, rest
  <1>12. /\ plan \in Plans(sources, T)
         /\ Given(plan) = Given(start) \cup ToSet(rest)
         /\ \A s \in 1..sources : start.given[s] \subseteq plan.given[s]
         /\ rest = <<>> => plan = start
    BY <1>4, <1>8, <1>11, RestGiven
  <1> HIDE DEF plan
  <1>13. Given(plan) = T
    <2>1. ToSet(all) = {all[i] : i \in 1..n}
      BY <1>1, <1>2 DEF ToSet
    <2>2. 1..n = (1..first) \cup ((first + 1)..n)
      BY <1>2, <1>5
    <2> QED
      BY <1>1, <1>10, <1>11, <1>12, <2>1, <2>2
  <1>14. plan.given \in [1..sources -> SUBSET T]
    BY <1>12 DEF Plans
  <1>15. \A t \in T : \E s \in 1..sources : t \in plan.given[s]
    BY <1>13, <1>14 DEF Given
  <1>16. ASSUME NEW s \in 1..sources PROVE plan.given[s] # {} <=> s <= n
    <2>1. CASE s <= n
      BY <2>1, <1>5, <1>9, <1>12
    <2>2. CASE ~(s <= n)
      <3>1. first < sources /\ ~(s <= first)
        BY <2>2, <1>2, <1>5
      <3>2. plan.given[s] = {}
        BY <3>1, <1>6, <1>9, <1>11, <1>12
      <3> QED
        BY <2>2, <3>2
    <2> QED
      BY <2>1, <2>2
  <1> QED
    BY <1>3, <1>14, <1>15, <1>16 DEF T, n

\* The turns are those of the targets.
RanksFit(turns, targets, gpus) ==
    turns \in Seq(1..gpus) \ {<<>>} /\ ToSet(turns) = {t[2] : t \in targets}

(* The ranks a source writes to are those of its targets.                  *)
LEMMA RanksAre ==
    ASSUME NEW gpus \in Nat \ {0}, NEW sources \in Nat, NEW E,
           NEW given \in [1..sources -> SUBSET (E \X (1..gpus))],
           NEW s \in 1..sources, given[s] # {}
    PROVE  RanksFit(RanksOf(given, s, gpus), given[s], gpus)
  <1> DEFINE ranks == {t[2] : t \in given[s]}
             first == ((s - 1) % gpus) + 1
             behind(k) == IF k = first THEN 0 ELSE 1 + ((k - 1 - sources) % gpus)
             key == [k \in ranks |-> behind(k)]
             c == Cardinality(ranks)
             turns == RanksOf(given, s, gpus)
  <1>1. ranks \in SUBSET (1..gpus) /\ ranks # {}
    OBVIOUS
  <1>2. IsFiniteSet(ranks) /\ c \in Nat /\ c # 0
    <2>1. IsFiniteSet(ranks)
      <3>1. IsFiniteSet(1..gpus)
        BY FS_Interval
      <3> QED
        BY <1>1, <3>1, FS_Subset
    <2> HIDE DEF ranks
    <2> QED
      BY <1>1, <2>1, FS_CardinalityType, FS_EmptySet
  <1>3. Len(given) = sources
    <2> DEFINE S == SUBSET (E \X (1..gpus))
    <2>1. given \in [1..sources -> S]
      OBVIOUS
    <2> HIDE DEF S
    <2> QED
      BY <2>1, FirstNumbers
  <1>4. first \in Int
    OBVIOUS
  <1> HIDE DEF first
  <1>5. \A k \in 1..gpus : behind(k) \in Nat
    BY <1>4
  <1>6. \A j, k \in 1..gpus : behind(j) = behind(k) => j = k
    <2> SUFFICES ASSUME NEW j \in 1..gpus, NEW k \in 1..gpus, behind(j) = behind(k), j # first, k # first
                 PROVE  j = k
      <3>1. \A k \in 1..gpus : k # first => behind(k) > 0
        <4> TAKE k \in 1..gpus
        <4>1. (k - 1 - sources) % gpus \in Nat
          OBVIOUS
        <4> QED
          BY <4>1
      <3>2. behind(first) = 0
        OBVIOUS
      <3> HIDE DEF behind
      <3> QED
        BY <3>1, <3>2
    <2> DEFINE x == j - 1 - sources
               y == k - 1 - sources
    <2>1. behind(j) = 1 + (x % gpus) /\ behind(k) = 1 + (y % gpus)
      OBVIOUS
    <2>2. behind(j) = behind(k)
      OBVIOUS
    <2>3. x \in Int /\ y \in Int /\ x - y = j - k /\ j - k < gpus /\ k - j < gpus
      OBVIOUS
    <2> HIDE DEF x, y, behind
    <2>4. PICK a \in Int, m \in Nat : x = gpus * a + m /\ m = x % gpus
      <3>1. x = gpus * (x \div gpus) + (x % gpus) /\ x \div gpus \in Int /\ x % gpus \in Nat
        BY <2>3
      <3> QED
        BY <3>1
    <2>5. PICK b \in Int, l \in Nat : y = gpus * b + l /\ l = y % gpus
      <3>1. y = gpus * (y \div gpus) + (y % gpus) /\ y \div gpus \in Int /\ y % gpus \in Nat
        BY <2>3
      <3> QED
        BY <3>1
    <2>6. m = l
      <3>1. 1 + m = 1 + l
        BY <2>1, <2>2, <2>4, <2>5
      <3> QED
        BY <3>1
    <2>7. \A u, w \in Int : u < w => gpus * w >= gpus * u + gpus
      <3> TAKE u, w \in Int
      <3> HAVE u < w
      <3>1. PICK z \in Nat : w = u + 1 + z
        <4>1. w - u - 1 \in Nat /\ w = u + 1 + (w - u - 1)
          OBVIOUS
        <4> QED
          BY <4>1
      <3>2. gpus * w = gpus * u + gpus + gpus * z /\ gpus * z \in Nat /\ gpus * u \in Int
        BY <3>1
      <3> QED
        BY <3>2
    <2> DEFINE A == gpus * a
               B == gpus * b
    <2>8. A \in Int /\ B \in Int /\ (a < b => B >= A + gpus) /\ (b < a => A >= B + gpus)
      BY <2>7
    <2>9. x = A + m /\ y = B + m
      BY <2>4, <2>5, <2>6
    <2>10. a = b => A = B
      OBVIOUS
    <2> HIDE DEF A, B
    <2> QED
      BY <2>3, <2>8, <2>9, <2>10
  <1>7. key \in [ranks -> Int] /\ \A k \in ranks : key[k] = behind(k)
    <2> HIDE DEF behind, ranks
    <2> QED
      BY <1>1, <1>5
  <1>8. \A x, y \in ranks : key[x] = key[y] => x = y
    <2> HIDE DEF behind, key, ranks
    <2> QED
      BY <1>1, <1>6, <1>7
  <1>9. turns = [i \in 1..c |-> CHOOSE k \in ranks : Cardinality({j \in ranks : behind(j) < behind(k)}) = i - 1]
    BY <1>3 DEF RanksOf, first
  <1> HIDE DEF turns, behind, key, ranks, c
  <1>10. \A k \in ranks : Cardinality({j \in ranks : behind(j) < behind(k)}) = Place(key, ranks, k)
    <2> TAKE k \in ranks
    <2>1. {j \in ranks : behind(j) < behind(k)} = {j \in ranks : key[j] < key[k]}
      BY <1>7
    <2> QED
      BY <2>1 DEF Place
  <1>11. /\ \A k \in ranks : Place(key, ranks, k) + 1 \in 1..c
         /\ \A i \in 1..c : \E k \in ranks : Place(key, ranks, k) = i - 1
    BY <1>2, <1>7, <1>8, PlacesFilled DEF c
  <1> DEFINE at(i, k) == k \in ranks /\ Cardinality({j \in ranks : behind(j) < behind(k)}) = i - 1
  <1>12. \A i \in 1..c : \E k : at(i, k)
    BY <1>10, <1>11
  <1>13. \A i \in 1..c : turns[i] = CHOOSE k : at(i, k)
    BY <1>9
  <1>14. \A i \in 1..c : at(i, turns[i])
    <2> HIDE DEF at
    <2> QED
      BY <1>12, <1>13
  <1>15. turns \in [1..c -> 1..gpus]
    <2>1. \A i \in 1..c : turns[i] \in 1..gpus
      BY <1>1, <1>14
    <2> QED
      BY <1>9, <2>1
  <1>16. turns \in Seq(1..gpus) /\ Len(turns) = c
    <2> DEFINE S == 1..gpus
    <2>1. turns \in [1..c -> S]
      BY <1>15
    <2> HIDE DEF S
    <2>2. turns \in Seq(S) /\ Len(turns) = c
      BY <1>2, <2>1, FirstNumbers
    <2> QED
      BY <2>2 DEF S
  <1>17. turns # <<>>
    BY <1>2, <1>16
  <1>18. DOMAIN turns = 1..c /\ (\A i \in 1..c : turns[i] \in ranks) /\ ToSet(turns) \subseteq ranks
    <2>1. \A i \in 1..c : turns[i] \in ranks
      BY <1>14
    <2>2. DOMAIN turns = 1..c
      BY <1>15
    <2> HIDE DEF at
    <2> QED
      BY <2>1, <2>2 DEF ToSet
  <1>19. ASSUME NEW k \in ranks PROVE k \in ToSet(turns)
    <2> DEFINE i == Place(key, ranks, k) + 1
    <2>1. i \in 1..c /\ Place(key, ranks, k) \in Int
      <3>1. {y \in ranks : key[y] < key[k]} \in SUBSET ranks
        OBVIOUS
      <3>2. Place(key, ranks, k) \in Nat
        BY <1>2, <3>1, FS_Subset, FS_CardinalityType DEF Place
      <3> QED
        BY <1>11, <3>2
    <2>2. turns[i] \in ranks /\ Place(key, ranks, turns[i]) = i - 1
      BY <2>1, <1>10, <1>14
    <2>3. Place(key, ranks, turns[i]) = Place(key, ranks, k)
      BY <2>1, <2>2
    <2> HIDE DEF i
    <2>4. turns[i] = k
      <3>1. \A x, y \in ranks : key[x] < key[y] \/ key[y] < key[x] \/ x = y
        BY <1>7, <1>8
      <3>2. \A x, y \in ranks : key[x] < key[y] => Place(key, ranks, x) # Place(key, ranks, y)
        <4> SUFFICES ASSUME NEW x \in ranks, NEW y \in ranks, key[x] < key[y]
                     PROVE  Place(key, ranks, x) # Place(key, ranks, y)
          OBVIOUS
        <4> DEFINE X == {z \in ranks : key[z] < key[x]}
                   Y == {z \in ranks : key[z] < key[y]}
        <4>1. X \subseteq Y /\ x \in Y /\ x \notin X /\ Y \subseteq ranks
          BY <1>7
        <4> HIDE DEF X, Y
        <4>2. IsFiniteSet(Y)
          BY <4>1, <1>2, FS_Subset
        <4>3. Cardinality(X) # Cardinality(Y)
          BY <4>1, <4>2, FS_Subset
        <4> QED
          BY <4>3 DEF X, Y, Place
      <3> QED
        BY <2>2, <2>3, <3>1, <3>2
    <2> QED
      BY <2>1, <2>4, <1>18 DEF ToSet
  <1> QED
    BY <1>16, <1>17, <1>18, <1>19 DEF turns, ranks, RanksFit

(***************************************************************************)
(* Buckets and transfers cover everything.                                 *)
(***************************************************************************)
\* What a configuration has to be for the plans.
Planable(c) ==
    /\ {c.stages, c.copies, c.engines, c.gpus} \subseteq Nat \ {0}
    /\ c.params \in [1..c.stages -> Seq(AllOf(c))]
    /\ \A p \in AllOf(c) : p.size \in Nat /\ p.expert \in BOOLEAN

(* Every copy of every stage is a rank.                                    *)
LEMMA RanksCover ==
    ASSUME {args.stages, args.copies} \subseteq Nat \ {0}
    PROVE  /\ \A r \in Ranks : StageOf(r) \in 1..args.stages /\ CopyOf(r) \in 1..args.copies
           /\ \A s \in 1..args.stages, d \in 1..args.copies :
                  \E r \in Ranks : StageOf(r) = s /\ CopyOf(r) = d
           /\ 1 \in Ranks
  <1> DEFINE T == (1..args.stages) \X (1..args.copies)
             n == args.stages * args.copies
             all == AllTargets(args.stages, args.copies)
  <1>1. args.stages \in Nat /\ args.copies \in Nat \ {0} /\ args.stages \in Nat \ {0}
    OBVIOUS
  <1>2. all \in Seq(T) /\ ToSet(all) = T /\ Len(all) = n
    BY <1>1, TargetsAre
  <1>3. Ranks = 1..n /\ \A r \in 1..n : all[r] = <<StageOf(r), CopyOf(r)>>
    BY DEF Ranks, AllTargets, StageOf, CopyOf
  <1>4. 1 \in 1..n
    <2>1. \A a, b \in Nat \ {0} : 1 \in 1..(a * b)
      OBVIOUS
    <2> QED
      BY <1>1, <2>1
  <1> HIDE DEF T, all, n
  <1>5. \A r \in 1..n : all[r] \in T
    BY <1>2
  <1>6. \A t \in T : \E r \in 1..n : all[r] = t
    <2>1. DOMAIN all = 1..n
      BY <1>2
    <2> QED
      BY <1>2, <2>1 DEF ToSet
  <1>7. \A r \in Ranks : <<StageOf(r), CopyOf(r)>> \in T
    BY <1>3, <1>5
  <1>8. \A s \in 1..args.stages, d \in 1..args.copies : \E r \in Ranks : <<StageOf(r), CopyOf(r)>> = <<s, d>>
    <2> TAKE s \in 1..args.stages, d \in 1..args.copies
    <2>1. <<s, d>> \in T
      BY DEF T
    <2>2. PICK r \in 1..n : all[r] = <<s, d>>
      BY <1>6, <2>1
    <2> QED
      BY <2>2, <1>3
  <1>9. \A r \in Ranks : StageOf(r) \in 1..args.stages /\ CopyOf(r) \in 1..args.copies
    BY <1>7 DEF T
  <1>10. \A s \in 1..args.stages, d \in 1..args.copies : \E r \in Ranks : StageOf(r) = s /\ CopyOf(r) = d
    BY <1>8
  <1>11. 1 \in Ranks
    BY <1>3, <1>4
  <1> QED
    BY <1>9, <1>10, <1>11

(* The buckets of a rank are made of the parameters of its stage, those of *)
(* experts apart; under "tensor" of all.                                   *)
LEMMA PlannedIs ==
    ASSUME line \in DOMAIN Configurations, {args.stages, args.copies} \subseteq Nat \ {0}, NEW r \in Ranks
    PROVE  /\ args.transport = "tensor" =>
                  Planned(r, "non_expert") = Bucketed(FlattenSeq(args.params), BOOLEAN, args.buffer, TRUE)
           /\ args.transport # "tensor" =>
                  /\ Planned(r, "non_expert") = Bucketed(Params(r), {FALSE}, args.buffer, FALSE)
                  /\ Planned(r, "expert") = Bucketed(Params(r), {TRUE}, args.buffer, TRUE)
  <1>1. StageOf(r) \in 1..args.stages
    BY RanksCover
  <1> DEFINE plan(c, s) ==
        IF c.transport = "tensor"
        THEN [non_expert |-> TensorBuckets(c), expert |-> <<>>]
        ELSE [non_expert |-> NonExpertBuckets(c, c.params[s]), expert |-> ExpertBuckets(c, c.params[s])]
  <1>2. BucketPlans[line][StageOf(r)] = plan(args, StageOf(r))
    BY <1>1 DEF BucketPlans, args
  <1>3. ASSUME args.transport = "tensor" PROVE plan(args, StageOf(r)).non_expert = TensorBuckets(args)
    BY <1>3
  <1>4. ASSUME args.transport # "tensor"
        PROVE  /\ plan(args, StageOf(r)).non_expert = NonExpertBuckets(args, Params(r))
               /\ plan(args, StageOf(r)).expert = ExpertBuckets(args, Params(r))
    BY <1>4 DEF Params
  <1> HIDE DEF plan
  <1>5. /\ Planned(r, "non_expert") = plan(args, StageOf(r)).non_expert
        /\ Planned(r, "expert") = plan(args, StageOf(r)).expert
    BY <1>2 DEF Planned
  <1> QED
    BY <1>3, <1>4, <1>5 DEF TensorBuckets, NonExpertBuckets, ExpertBuckets

(* The buckets of a rank have what it has to send.                         *)
LEMMA PlannedHave ==
    ASSUME line \in DOMAIN Configurations, Planable(args), NEW r \in Ranks
    PROVE  /\ \A part \in Parts : Planned(r, part) \in Seq(SUBSET AllParams)
           /\ \A p \in (IF args.transport = "tensor" THEN AllParams ELSE ToSet(Params(r))) :
                  \E part \in Parts : \E k \in DOMAIN Planned(r, part) : p \in Planned(r, part)[k]
           /\ args.transport # "tensor" /\ IsInjective(Params(r)) =>
                  \A part, other \in Parts : \A k \in DOMAIN Planned(r, part), l \in DOMAIN Planned(r, other) :
                      /\ Planned(r, part)[k] \subseteq ToSet(Params(r))
                      /\ Planned(r, part)[k] \cap Planned(r, other)[l] # {} => part = other /\ k = l
  <1> DEFINE P == AllParams
  <1>1. /\ args.stages \in Nat \ {0} /\ {args.stages, args.copies} \subseteq Nat \ {0}
        /\ args.params \in [1..args.stages -> Seq(P)]
        /\ \A p \in P : p.size \in Int /\ p.expert \in BOOLEAN
    BY DEF Planable, AllParams
  <1>2. StageOf(r) \in 1..args.stages
    BY <1>1, RanksCover
  <1>3. Params(r) \in Seq(P)
    BY <1>1, <1>2 DEF Params
  <1>4. P = UNION {ToSet(args.params[s]) : s \in 1..args.stages}
    BY DEF AllParams, AllOf
  <1> HIDE DEF P
  <1>5. \A s \in Seq(P) : ToSet(s) = {s[j] : j \in 1..Len(s)} /\ ToSet(s) \subseteq P
    BY DEF ToSet
  <1>6. ASSUME NEW s \in Seq(P), NEW kinds, NEW guarded,
               NEW bs, bs = Bucketed(s, kinds, args.buffer, guarded)
        PROVE  /\ bs \in Seq(SUBSET P)
               /\ \A p \in ToSet(s) : p.expert \in kinds => \E k \in DOMAIN bs : p \in bs[k]
               /\ \A k \in DOMAIN bs : bs[k] \subseteq ToSet(s) /\ \A p \in bs[k] : p.expert \in kinds
               /\ IsInjective(s) => \A k, l \in DOMAIN bs : bs[k] \cap bs[l] # {} => k = l
    <2>1. /\ bs \in Seq(SUBSET P)
          /\ UNION ToSet(bs) = Wanted(s, kinds, Len(s))
          /\ IsInjective(s) => \A k, l \in DOMAIN bs : bs[k] \cap bs[l] # {} => k = l
      <3> DEFINE b == Bucketed(s, kinds, args.buffer, guarded)
      <3>1. \A p \in P : p.size \in Int
        BY <1>1
      <3>2. /\ b \in Seq(SUBSET P)
            /\ UNION ToSet(b) = Wanted(s, kinds, Len(s))
            /\ IsInjective(s) => \A k, l \in DOMAIN b : b[k] \cap b[l] # {} => k = l
        BY <3>1, BucketsAre
      <3>3. bs = b
        BY <1>6
      <3> HIDE DEF b
      <3> QED
        BY <3>2, <3>3
    <2>2. UNION ToSet(bs) = {p \in ToSet(s) : p.expert \in kinds}
      BY <2>1, <1>5 DEF Wanted
    <2>3. \A p : p \in UNION ToSet(bs) <=> \E k \in DOMAIN bs : p \in bs[k]
      BY DEF ToSet
    <2> QED
      BY <2>1, <2>2, <2>3
  <1>7. CASE args.transport = "tensor"
    <2> DEFINE s == FlattenSeq(args.params)
               bs == Planned(r, "non_expert")
    <2>1. Parts = {"non_expert"}
      BY <1>7 DEF Parts
    <2>2. args.params \in Seq(Seq(P)) /\ Len(args.params) = args.stages
      <3> DEFINE V == Seq(P)
      <3>1. args.params \in [1..args.stages -> V] /\ args.stages \in Nat
        BY <1>1
      <3> HIDE DEF V
      <3>2. args.params \in Seq(V) /\ Len(args.params) = args.stages
        BY <3>1, FirstNumbers
      <3> QED
        BY <3>2 DEF V
    <2>3. s \in Seq(P)
      BY <2>2, FlattenType
    <2>4. ToSet(s) = P
      <3>1. \A i \in 1..args.stages : ToSet(args.params[i]) \subseteq ToSet(s)
        BY <2>2, FlattenElements
      <3> HIDE DEF s
      <3>2. P \subseteq ToSet(s)
        BY <1>4, <3>1
      <3> QED
        BY <3>2, <2>3, <1>5
    <2>5. bs = Bucketed(s, BOOLEAN, args.buffer, TRUE)
      BY <1>1, <1>7, PlannedIs
    <2> HIDE DEF s, bs
    <2>6. bs \in Seq(SUBSET P) /\ \A p \in P : \E k \in DOMAIN bs : p \in bs[k]
      <3> DEFINE kinds == BOOLEAN
                 guarded == TRUE
      <3>1. bs = Bucketed(s, kinds, args.buffer, guarded)
        BY <2>5
      <3>2. \A p \in P : p.expert \in kinds
        BY <1>1
      <3> HIDE DEF kinds, guarded
      <3> QED
        BY <1>6, <2>3, <2>4, <3>1, <3>2
    <2> QED
      BY <1>7, <2>1, <2>6 DEF bs, P
  <1>8. CASE args.transport # "tensor"
    <2> DEFINE s == Params(r)
               kinds(part) == IF part = "expert" THEN {TRUE} ELSE {FALSE}
               bs(part) == Planned(r, part)
    <2>1. Parts = {"non_expert", "expert"}
      BY <1>8 DEF Parts
    <2>2. \A part \in Parts : bs(part) = Bucketed(s, kinds(part), args.buffer, part = "expert")
      <3>1. /\ Planned(r, "non_expert") = Bucketed(s, {FALSE}, args.buffer, FALSE)
            /\ Planned(r, "expert") = Bucketed(s, {TRUE}, args.buffer, TRUE)
        BY <1>1, <1>8, PlannedIs
      <3>2. bs("non_expert") = Bucketed(s, kinds("non_expert"), args.buffer, FALSE)
        BY <3>1
      <3>3. bs("expert") = Bucketed(s, kinds("expert"), args.buffer, TRUE)
        BY <3>1
      <3>4. ("non_expert" = "expert") = FALSE /\ ("expert" = "expert") = TRUE
        OBVIOUS
      <3> HIDE DEF bs, kinds, s
      <3> QED
        BY <2>1, <3>2, <3>3, <3>4
    <2> HIDE DEF s, bs, kinds
    <2>3. s \in Seq(P)
      BY <1>3 DEF s
    <2>4. \A part \in Parts :
              /\ bs(part) \in Seq(SUBSET P)
              /\ \A p \in ToSet(s) : p.expert \in kinds(part) => \E k \in DOMAIN bs(part) : p \in bs(part)[k]
              /\ \A k \in DOMAIN bs(part) :
                    bs(part)[k] \subseteq ToSet(s) /\ \A p \in bs(part)[k] : p.expert \in kinds(part)
              /\ IsInjective(s) => \A k, l \in DOMAIN bs(part) : bs(part)[k] \cap bs(part)[l] # {} => k = l
      <3> TAKE part \in Parts
      <3> DEFINE b == bs(part)
                 g == part = "expert"
                 m == kinds(part)
      <3>1. b = Bucketed(s, m, args.buffer, g)
        BY <2>2
      <3> HIDE DEF b, g, m
      <3>2. /\ b \in Seq(SUBSET P)
            /\ \A p \in ToSet(s) : p.expert \in m => \E k \in DOMAIN b : p \in b[k]
            /\ \A k \in DOMAIN b : b[k] \subseteq ToSet(s) /\ \A p \in b[k] : p.expert \in m
            /\ IsInjective(s) => \A k, l \in DOMAIN b : b[k] \cap b[l] # {} => k = l
        BY <1>6, <2>3, <3>1
      <3> QED
        BY <3>2 DEF b, m
    <2>5. \A p \in ToSet(s) : \E part \in Parts : p.expert \in kinds(part)
      <3> TAKE p \in ToSet(s)
      <3>1. p.expert \in BOOLEAN
        BY <1>1, <1>5, <2>3
      <3> QED
        BY <2>1, <3>1 DEF kinds
    <2>6. \A part, other \in Parts : kinds(part) \cap kinds(other) # {} => part = other
      BY <2>1 DEF kinds
    <2>7. \A p \in ToSet(s) : \E part \in Parts : \E k \in DOMAIN bs(part) : p \in bs(part)[k]
      BY <2>4, <2>5
    <2>8. IsInjective(s) => \A part, other \in Parts : \A k \in DOMAIN bs(part), l \in DOMAIN bs(other) :
              bs(part)[k] \cap bs(other)[l] # {} => part = other /\ k = l
      <3> SUFFICES ASSUME IsInjective(s), NEW part \in Parts, NEW other \in Parts,
                          NEW k \in DOMAIN bs(part), NEW l \in DOMAIN bs(other),
                          bs(part)[k] \cap bs(other)[l] # {}
                   PROVE  part = other /\ k = l
        OBVIOUS
      <3>1. PICK p : p \in bs(part)[k] /\ p \in bs(other)[l]
        OBVIOUS
      <3>2. p.expert \in kinds(part) /\ p.expert \in kinds(other)
        BY <2>4, <3>1
      <3>3. part = other
        BY <2>6, <3>2
      <3> QED
        BY <2>4, <3>3
    <2>9. \A part \in Parts : bs(part) \in Seq(SUBSET AllParams)
      BY <2>4 DEF P
    <2> QED
      BY <1>8, <2>4, <2>7, <2>8, <2>9 DEF bs, s
  <1> QED
    BY <1>7, <1>8

(* Whom a rank writes to, and in which order.                              *)
LEMMA TargetsPlanned ==
    ASSUME line \in DOMAIN Configurations, Planable(args)
    PROVE  LET given == plan_p2p(args.copies, args.engines, args.gpus) IN
           /\ given \in [1..args.copies -> SUBSET (Engines \X Gpus)]
           /\ \A t \in Engines \X Gpus : \E d \in 1..args.copies : t \in given[d]
           /\ \A d \in 1..args.copies : given[d] # {} <=> d <= args.engines * args.gpus
           /\ \A r \in Ranks : /\ Targets(r) = given[CopyOf(r)]
                               /\ TargetRanks(r) = RanksOf(given, CopyOf(r), args.gpus)
                               /\ CopyOf(r) \in 1..args.copies
  <1> DEFINE plan(c) == plan_p2p(c.copies, c.engines, c.gpus)
             write(c, d) == [targets |-> plan(c)[d], turns |-> RanksOf(plan(c), d, c.gpus)]
             given == plan(args)
  <1>1. /\ args.copies \in Nat \ {0} /\ args.engines \in Nat \ {0} /\ args.gpus \in Nat \ {0}
        /\ {args.stages, args.copies} \subseteq Nat \ {0}
    BY DEF Planable
  <1>2. /\ given \in [1..args.copies -> SUBSET (Engines \X Gpus)]
        /\ \A t \in Engines \X Gpus : \E d \in 1..args.copies : t \in given[d]
        /\ \A d \in 1..args.copies : given[d] # {} <=> d <= args.engines * args.gpus
    BY <1>1, PlanIs DEF Engines, Gpus
  <1>3. \A r \in Ranks : CopyOf(r) \in 1..args.copies
    BY <1>1, RanksCover
  <1>4. \A d \in 1..args.copies : WritePlans[line][d] = write(args, d)
    BY DEF WritePlans, args
  <1>5. \A d : write(args, d).targets = given[d] /\ write(args, d).turns = RanksOf(given, d, args.gpus)
    OBVIOUS
  <1>6. \A r \in Ranks : Targets(r) = given[CopyOf(r)] /\ TargetRanks(r) = RanksOf(given, CopyOf(r), args.gpus)
    <2> HIDE DEF write, plan
    <2> QED
      BY <1>3, <1>4, <1>5 DEF Targets, TargetRanks
  <1> HIDE DEF given
  <1>7. /\ given \in [1..args.copies -> SUBSET (Engines \X Gpus)]
        /\ \A t \in Engines \X Gpus : \E d \in 1..args.copies : t \in given[d]
        /\ \A d \in 1..args.copies : given[d] # {} <=> d <= args.engines * args.gpus
        /\ \A r \in Ranks : /\ Targets(r) = given[CopyOf(r)]
                            /\ TargetRanks(r) = RanksOf(given, CopyOf(r), args.gpus)
                            /\ CopyOf(r) \in 1..args.copies
    BY <1>2, <1>3, <1>6
  <1> QED
    BY <1>7 DEF given

(* Some source that has the parameter brings it to the gpu.                *)
LEMMA SourceReaches ==
    ASSUME line \in DOMAIN Configurations, IsConfiguration(args), Planable(args),
           NEW e \in Engines, NEW g \in Gpus, NEW s \in 1..args.stages
    PROVE  \E r \in Ranks : Reaches(r, e, g) /\ (args.transport = "tensor" \/ StageOf(r) = s)
  <1>1. /\ args.transport \in {"broadcast", "p2p", "tensor"}
        /\ {args.stages, args.copies} \subseteq Nat \ {0}
        /\ args.transport = "tensor" => (1..args.engines) \ args.distributed \subseteq 1..(args.stages * args.copies)
    BY DEF IsConfiguration, Planable
  <1>2. /\ \A d \in 1..args.copies : \E r \in Ranks : StageOf(r) = s /\ CopyOf(r) = d
        /\ 1 \in Ranks
    BY <1>1, RanksCover
  <1>3. CASE args.transport = "broadcast"
    <2>1. 1 \in 1..args.copies
      BY <1>1
    <2>2. PICK r \in Ranks : StageOf(r) = s /\ CopyOf(r) = 1
      BY <1>2, <2>1
    <2>3. Reaches(r, e, g)
      BY <1>3, <2>2 DEF Reaches, IsSource, Receivers
    <2> QED
      BY <2>2, <2>3
  <1>4. CASE args.transport = "p2p"
    <2> DEFINE given == plan_p2p(args.copies, args.engines, args.gpus)
    <2>1. /\ \A t \in Engines \X Gpus : \E d \in 1..args.copies : t \in given[d]
          /\ \A d \in 1..args.copies : given[d] # {} <=> d <= args.engines * args.gpus
          /\ \A r \in Ranks : Targets(r) = given[CopyOf(r)]
      BY TargetsPlanned
    <2> HIDE DEF given
    <2>2. PICK d \in 1..args.copies : <<e, g>> \in given[d]
      BY <2>1
    <2>3. PICK r \in Ranks : StageOf(r) = s /\ CopyOf(r) = d
      BY <1>2
    <2>4. d <= args.engines * args.gpus /\ <<e, g>> \in Targets(r)
      BY <2>1, <2>2, <2>3
    <2>5. Reaches(r, e, g)
      BY <1>4, <2>3, <2>4 DEF Reaches, IsSource
    <2> QED
      BY <2>3, <2>5
  <1>5. CASE args.transport = "tensor"
    <2>1. CASE e \in args.distributed
      <3>1. Reaches(1, e, g)
        BY <1>5, <2>1 DEF Reaches, IsSource, Receivers
      <3> QED
        BY <1>2, <1>5, <3>1
    <2>2. CASE e \notin args.distributed
      <3>1. e \in Ranks
        BY <1>1, <1>5, <2>2 DEF Engines, Ranks
      <3>2. Reaches(e, e, g)
        BY <1>5, <2>2 DEF Reaches, IsSource, IpcEngine
      <3> QED
        BY <1>5, <3>1, <3>2
    <2> QED
      BY <2>1, <2>2
  <1> QED
    BY <1>1, <1>3, <1>4, <1>5

(* The plans cover the parameters and the engines in every configuration.  *)
LEMMA PlansHold ==
    ASSUME line \in DOMAIN Configurations
    PROVE  PlansCover
  <1>1. IsConfiguration(args)
    BY UpdateAssumption DEF args
  <1>2. Planable(args) /\ AllParams # {} /\ {args.stages, args.copies} \subseteq Nat \ {0}
    BY <1>1 DEF IsConfiguration, Planable, AllParams
  <1>3. \A r \in Ranks : StageOf(r) \in 1..args.stages
    BY <1>2, RanksCover
  <1>4. \A r \in Ranks, part \in Parts : Planned(r, part) \in Seq(SUBSET AllParams)
    BY <1>2, PlannedHave
  <1>5. ASSUME NEW e \in Engines, NEW g \in Gpus, NEW n \in NamesOf(AllParams)
        PROVE  \E r \in Ranks : Reaches(r, e, g)
                 /\ \E part \in Parts : \E k \in DOMAIN Planned(r, part) : Carries(r, part, k, n)
    <2>1. PICK p \in AllParams : p.name = n
      BY DEF NamesOf
    <2>2. PICK s \in 1..args.stages : p \in ToSet(args.params[s])
      BY <2>1 DEF AllParams, AllOf
    <2>3. PICK r \in Ranks : Reaches(r, e, g) /\ (args.transport = "tensor" \/ StageOf(r) = s)
      BY <1>1, <1>2, SourceReaches
    <2>4. p \in (IF args.transport = "tensor" THEN AllParams ELSE ToSet(Params(r)))
      BY <2>2, <2>3 DEF Params
    <2>5. PICK part \in Parts : \E k \in DOMAIN Planned(r, part) : p \in Planned(r, part)[k]
      BY <1>2, <2>4, PlannedHave
    <2>6. PICK k \in DOMAIN Planned(r, part) : p \in Planned(r, part)[k]
      BY <2>5
    <2>7. k \in 1..Len(Planned(r, part))
      BY <1>4, <2>6
    <2>8. Carries(r, part, k, n)
      BY <2>1, <2>6, <2>7 DEF Carries, NamesOf
    <2> QED
      BY <2>3, <2>6, <2>8
  <1>6. ASSUME args.transport = "p2p", NEW r \in Ranks, IsSource(r)
        PROVE  /\ TargetRanks(r) \in Seq(Gpus) \ {<<>>}
               /\ Targets(r) \subseteq Engines \X ToSet(TargetRanks(r))
               /\ \A p, q \in Parts : \A k \in DOMAIN Planned(r, p), l \in DOMAIN Planned(r, q) :
                      NamesOf(Planned(r, p)[k]) \cap NamesOf(Planned(r, q)[l]) # {} => p = q /\ k = l
    <2> DEFINE given == plan_p2p(args.copies, args.engines, args.gpus)
               d == CopyOf(r)
               turns == RanksOf(given, d, args.gpus)
    <2>1. /\ given \in [1..args.copies -> SUBSET (Engines \X Gpus)]
          /\ \A c \in 1..args.copies : given[c] # {} <=> c <= args.engines * args.gpus
          /\ Targets(r) = given[d] /\ TargetRanks(r) = turns /\ d \in 1..args.copies
      BY <1>2, TargetsPlanned
    <2>2. d <= args.engines * args.gpus
      BY <1>6 DEF IsSource
    <2>3. turns \in Seq(Gpus) \ {<<>>} /\ ToSet(turns) = {t[2] : t \in given[d]}
      <3> DEFINE E == Engines
                 sources == args.copies
                 gpus == args.gpus
      <3>1. /\ given \in [1..sources -> SUBSET (E \X (1..gpus))] /\ given[d] # {}
            /\ gpus \in Nat \ {0} /\ sources \in Nat /\ d \in 1..sources
        BY <1>2, <2>1, <2>2 DEF Planable, Gpus
      <3> HIDE DEF E, given, d, sources, gpus
      <3>2. RanksFit(RanksOf(given, d, gpus), given[d], gpus)
        BY <3>1, RanksAre
      <3> QED
        BY <3>2 DEF RanksFit, Gpus, gpus
    <2>4. Targets(r) \subseteq Engines \X ToSet(TargetRanks(r))
      <3>1. \A t \in given[d] : t \in Engines \X Gpus
        BY <2>1
      <3> HIDE DEF given, d, turns
      <3>2. \A t \in given[d] : t[2] \in ToSet(turns) /\ t = <<t[1], t[2]>> /\ t[1] \in Engines
        BY <2>3, <3>1
      <3> QED
        BY <2>1, <3>2
    <2>5. ASSUME NEW p \in Parts, NEW q \in Parts,
                 NEW k \in DOMAIN Planned(r, p), NEW l \in DOMAIN Planned(r, q),
                 NamesOf(Planned(r, p)[k]) \cap NamesOf(Planned(r, q)[l]) # {}
          PROVE  p = q /\ k = l
      <3>1. \A i, j \in DOMAIN Params(r) : Params(r)[i].name = Params(r)[j].name => i = j
        BY <1>1, <1>3 DEF IsConfiguration, Params
      <3>2. IsInjective(Params(r))
        BY <3>1 DEF IsInjective
      <3>3. /\ Planned(r, p)[k] \subseteq ToSet(Params(r)) /\ Planned(r, q)[l] \subseteq ToSet(Params(r))
            /\ Planned(r, p)[k] \cap Planned(r, q)[l] # {} => p = q /\ k = l
        BY <1>2, <1>6, <3>2, PlannedHave
      <3>4. PICK a \in Planned(r, p)[k], b \in Planned(r, q)[l] : a.name = b.name
        BY <2>5 DEF NamesOf
      <3>5. a = b
        BY <3>1, <3>3, <3>4 DEF ToSet
      <3> QED
        BY <3>3, <3>4, <3>5
    <2> QED
      BY <2>1, <2>3, <2>4, <2>5
  <1> QED
    BY <1>2, <1>4, <1>5, <1>6 DEF PlansCover

(***************************************************************************)
(* The phases of an update: barriers lead from one to the next.            *)
(***************************************************************************)
Early == {"called", "destroy", "init", "connected", "prepare", "preparing", "prepared"}
Sending == {"buckets", "acquire", "send", "load", "await", "wait_transfers", "sent", "failed"}
Final == {"finalize", "finalizing", "finalized"}

InPhase(S) == \A r \in Ranks : rank[r].pc \in S

Names == NamesOf(AllParams)
Carriers == {"broadcast", "ipc"}
Kinds == Carriers \cup {"destroy", "init"}

PCs == {"idle"} \cup Early \cup Sending \cup Final
Counts == Nat \ {0}
CallSets == SUBSET (Engines \X Kinds)

RankOf == [pc : PCs, part : {"non_expert", "expert"}, bucket : Counts, unsent : CallSets,
           unanswered : CallSets, names : SUBSET Names, turn : Counts]

DriverTyped ==
    /\ line \in DOMAIN Configurations
    /\ weight_version \in [Ranks -> Nat] /\ failures \in Nat
    /\ updating \in BOOLEAN /\ new \in BOOLEAN

CallOf == [rank : Ranks, kind : Kinds, names : SUBSET Names]

EngineShape(x) ==
    /\ DOMAIN x = {"paused", "session", "announced", "cached", "weights"}
    /\ DOMAIN x.weights = Gpus \X Names

EnginesTyped == DOMAIN engine = Engines /\ \A e \in Engines : EngineShape(engine[e])

BuffersTyped ==
    /\ staged \in [Ranks -> SUBSET Names]
    /\ registry \in [Ranks -> {"none", "current", "stale"}]
    /\ DOMAIN pinned = Ranks /\ \A r \in Ranks : DOMAIN pinned[r] = NamesOf(ToSet(Params(r)))

TypeInv ==
    /\ DriverTyped /\ EnginesTyped /\ BuffersTyped
    /\ rank \in [Ranks -> RankOf]
    /\ inbox \in [Engines -> Seq(CallOf)]

Together ==
    \/ ~updating /\ InPhase({"idle"})
    \/ updating /\ (InPhase(Early) \/ InPhase(Sending) \/ InPhase(Final))

\* The bucket, and the turn, a rank is at.
Placed(r) ==
    /\ rank[r].pc \in {"sent", "wait_transfers"} => rank[r].bucket > Len(Buckets(r))
    /\ rank[r].pc \in {"acquire", "send", "load", "await"} =>
            IsSource(r) /\ rank[r].bucket \in DOMAIN Buckets(r)
    /\ rank[r].pc \in {"load", "await", "wait_transfers"} => args.transport = "p2p"
    /\ rank[r].pc \in {"acquire", "send"} => args.transport # "p2p"
    /\ rank[r].pc = "acquire" => args.transport = "broadcast"
    /\ rank[r].pc = "load" => rank[r].turn <= Len(TargetRanks(r))
    /\ rank[r].pc = "await" => rank[r].turn < Len(TargetRanks(r))
    /\ rank[r].pc = "wait_transfers" => IsSource(r) /\ rank[r].part = "expert"
    /\ rank[r].pc \in {"preparing", "finalizing"} => r = 1

PhaseInv ==
    /\ Together
    /\ \A r \in Ranks : rank[r].pc \in Sending => rank[r].part = rank[1].part /\ rank[r].part \in Parts
    /\ \A r \in Ranks : Placed(r)

Unprepared == {"called", "destroy", "init", "connected", "prepare"}

\* How far rank r is ahead of the others.
Ahead(r) == IF rank[r].pc \in {"preparing", "prepared"} THEN 1 ELSE 0

VersionInv ==
    /\ \A r \in Ranks : weight_version[r] + Ahead(1) = weight_version[1] + Ahead(r)
    /\ weight_version[1] <= args.updates
    /\ rank[1].pc \in Unprepared => weight_version[1] < args.updates

Due(r) == (IpcEngine(r) \X {"ipc"}) \cup (Receivers(r) \X {"broadcast"})

\* The calls a rank has still to make, and those it waits for.
SendsOk(r) ==
    /\ rank[r].unsent \cap rank[r].unanswered = {}
    /\ rank[r].pc \notin {"destroy", "init", "send"} =>
            rank[r].unsent = {} /\ rank[r].unanswered = {}
    /\ rank[r].pc \in {"destroy", "init"} =>
            \A c \in rank[r].unsent \cup rank[r].unanswered : c[2] \in {"destroy", "init"}
    /\ rank[r].pc = "send" => rank[r].unsent \subseteq Due(r) /\ rank[r].unanswered \subseteq Due(r)

SendInv == \A r \in Ranks : SendsOk(r)

SameCall(a, b) == a.rank = b.rank /\ a.kind = b.kind

\* No other call in the sequence is the same.
Unique(s, i) == \A j \in 1..Len(s) : SameCall(s[i], s[j]) => j = i

Expected(e, call) ==
    /\ rank[call.rank].pc = "send"
    /\ <<e, call.kind>> \in rank[call.rank].unanswered
    /\ call.names = NamesOf(Bucket(call.rank))

InboxInv == \A e \in Engines : \A i \in 1..Len(inbox[e]) :
    inbox[e][i].kind \in Carriers => Expected(e, inbox[e][i]) /\ Unique(inbox[e], i)

CallsInv ==
    /\ rank[1].pc \notin {"preparing", "finalizing"} => calls = <<>> /\ waiting = {}
    /\ rank[1].pc = "preparing" =>
        IF args.transport # "tensor" /\ args.in_place
        THEN calls \in {<<"pause", "begin">>, <<"begin">>}
        ELSE calls \in {<<"pause", "flush", "begin">>, <<"flush", "begin">>, <<"begin">>}
    /\ rank[1].pc = "finalizing" =>
        \/ calls \in {<<"end", "continue">>, <<"continue">>}
        \/ args.transport = "p2p" /\ calls = <<"announce", "end", "continue">>
    /\ calls # <<>> => waiting \subseteq Audience(Head(calls))

\* Rank 1 has paused the engines, or not yet called one of them.
Held == {"prepared", "finalize"} \cup Sending
Quiet == {"idle", "called", "destroy", "init", "connected", "prepare", "finalized"}

Suspended == rank[1].pc \in Held

IsPaused(e) ==
    \/ Suspended
    \/ rank[1].pc = "preparing" /\ (Head(calls) = "pause" => e \notin waiting)
    \/ rank[1].pc = "finalizing" /\ (Head(calls) = "continue" => e \in waiting)

IsFlushed(e) ==
    \/ Suspended
    \/ rank[1].pc = "preparing" /\ Head(calls) # "pause" /\ (Head(calls) = "flush" => e \notin waiting)
    \/ rank[1].pc = "finalizing" /\ (Head(calls) = "continue" => e \in waiting)

IsOpen(e) ==
    \/ Suspended
    \/ rank[1].pc = "preparing" /\ Head(calls) = "begin" /\ e \notin waiting
    \/ rank[1].pc = "finalizing" /\ Head(calls) # "continue" /\ (Head(calls) = "end" => e \in waiting)

IsAnnounced(e) ==
    \/ rank[1].pc = "finalizing" /\ (Head(calls) = "announce" => e \notin waiting)
    \/ rank[1].pc = "finalized"

EngineOk(e) ==
    /\ engine[e].paused <=> (e \in Paused /\ IsPaused(e))
    /\ engine[e].session <=> IsOpen(e)
    /\ e \in Paused /\ ~args.in_place /\ IsFlushed(e) => engine[e].cached = {}
    /\ e \in Paused /\ ~args.in_place /\ Intact => engine[e].cached \subseteq {engine[e].announced}

EngineInv == \A e \in Engines : EngineOk(e)

WeightsOk(e) ==
    /\ rank[1].pc \in {"idle"} \cup Early /\ Intact => Holds(e, engine[e].announced)
    /\ rank[1].pc = "idle" /\ ~new => engine[e].announced = weight_version[1]
    /\ rank[1].pc \in Final /\ Intact => Holds(e, weight_version[1])
    /\ rank[1].pc \in Final => engine[e].announced = weight_version[1]
                               \/ (args.transport = "p2p" /\ ~IsAnnounced(e))

WeightsInv == \A e \in Engines : WeightsOk(e)

\* Bucket k of the part is behind rank r.
Past(r, part, k) ==
    \/ part = "non_expert" /\ rank[r].part = "expert"
    \/ part = rank[r].part /\ k < rank[r].bucket

DeliveredTo(e, names) ==
    /\ engine[e].announced = weight_version[1]
    /\ Intact => \A x \in Gpus \X Names :
           x[2] \in names => engine[e].weights[x] = <<weight_version[1], x[1]>>

Sent(r) == IpcEngine(r) \cup Receivers(r)

DeliveryOk(r) == rank[r].pc \in Sending /\ IsSource(r) =>
        /\ \A part \in Parts : \A k \in DOMAIN Planned(r, part) : Past(r, part, k) =>
                \A e \in Sent(r) : DeliveredTo(e, NamesOf(Planned(r, part)[k]))
        /\ rank[r].pc = "send" => \A c \in Due(r) :
                c \in rank[r].unsent \cup rank[r].unanswered \/ DeliveredTo(c[1], NamesOf(Bucket(r)))

DeliveryInv == args.transport # "p2p" => \A r \in Ranks : DeliveryOk(r)

Loading(r) == rank[r].pc \in {"load", "await"}

Begun(r, n) == \E part \in Parts : \E k \in DOMAIN Planned(r, part) :
    /\ Carries(r, part, k, n)
    /\ Past(r, part, k) \/ (Loading(r) /\ part = rank[r].part /\ k = rank[r].bucket)

InFlight(r, n, t) == \E w \in writes : w.rank = r /\ w.target = t /\ n \in w.names

Arrived(r, n, t) == engine[t[1]].weights[<<t[2], n>>] = <<weight_version[r], t[2]>>

\* Parameter n is still to be written to target t.
ToDo(r, n, t) ==
    /\ Loading(r) /\ n \in rank[r].names
    /\ \E k \in DOMAIN TargetRanks(r) : 
        /\ TargetRanks(r)[k] = t[2]
        /\ IF rank[r].pc = "load" THEN k >= rank[r].turn ELSE k > rank[r].turn

SourceSound(r) ==
    /\ rank[r].pc \notin Sending => staged[r] = {}
    /\ rank[r].pc = "sent" /\ rank[r].part = "expert" => staged[r] = {} /\ \A w \in writes : w.rank # r
    /\ \A n \in staged[r] : Begun(r, n)
    /\ Loading(r) => /\ rank[r].names \subseteq NamesOf(ToSet(Params(r)))
                     /\ \A n \in rank[r].names : Begun(r, n) /\ n \notin staged[r]
    /\ rank[r].pc \in Sending => \A n \in Names : Begun(r, n) /\ n \notin staged[r] =>
            \A t \in Targets(r) : InFlight(r, n, t) \/ Arrived(r, n, t) \/ ToDo(r, n, t)

WriteSound(w) ==
    /\ w.rank \in Ranks /\ IsSource(w.rank) /\ w.target \in Targets(w.rank)
    /\ rank[w.rank].pc \in Sending
    /\ \A n \in w.names :
        /\ Begun(w.rank, n) /\ n \notin staged[w.rank] /\ n \in Names /\ n \in DOMAIN pinned[w.rank]
        /\ pinned[w.rank][n] = <<weight_version[w.rank], w.target[2]>>
        /\ Loading(w.rank) /\ n \in rank[w.rank].names =>
                rank[w.rank].pc = "await" /\ w.target[2] = Turn(w.rank)

TransfersSound ==
    /\ \A r \in Ranks : IsSource(r) => SourceSound(r)
    /\ \A w \in writes : WriteSound(w)

TransferInv ==
    /\ args.transport # "p2p" => writes = {}
    /\ args.transport = "p2p" /\ Intact => TransfersSound

UpdateInv ==
    /\ PlansCover /\ TypeInv /\ PhaseInv /\ VersionInv /\ SendInv /\ InboxInv
    /\ CallsInv /\ EngineInv /\ WeightsInv /\ DeliveryInv /\ TransferInv

(***************************************************************************)
(* What the command line fixes.                                            *)
(***************************************************************************)
LEMMA ArgsOk ==
    ASSUME line \in DOMAIN Configurations
    PROVE  IsConfiguration(args)
  BY UpdateAssumption DEF args

LEMMA RanksOk ==
    ASSUME line \in DOMAIN Configurations
    PROVE  /\ 1 \in Ranks /\ 1 \in Gpus
           /\ \A r \in Ranks : r \in Nat
           /\ args.transport \in {"broadcast", "p2p", "tensor"} /\ args.in_place \in BOOLEAN
           /\ args.updates \in Nat
           /\ Paused \subseteq Engines
           /\ \A r \in Ranks : Receivers(r) \subseteq Engines /\ IpcEngine(r) \subseteq Engines
  <1>1. IsConfiguration(args)
    BY ArgsOk
  <1>2. /\ args.stages \in Nat \ {0} /\ args.copies \in Nat \ {0} /\ args.gpus \in Nat \ {0}
        /\ args.distributed \subseteq Engines
    BY <1>1 DEF IsConfiguration, Engines
  <1>3. args.stages * args.copies \in Nat \ {0}
    BY <1>2
  <1>4. 1 \in Ranks /\ 1 \in Gpus /\ \A r \in Ranks : r \in Nat
    BY <1>2, <1>3 DEF Ranks, Gpus
  <1>5. \A r \in Ranks : Receivers(r) \subseteq Engines /\ IpcEngine(r) \subseteq Engines
    BY <1>1, <1>2 DEF Receivers, IpcEngine, IsConfiguration
  <1> QED
    BY <1>1, <1>4, <1>5 DEF Paused, IsConfiguration

LEMMA LineStays ==
    ASSUME line' = line
    PROVE  /\ args' = args /\ Ranks' = Ranks /\ Engines' = Engines /\ Gpus' = Gpus
           /\ Names' = Names /\ Paused' = Paused /\ Parts' = Parts /\ RankOf' = RankOf
           /\ PrepareCalls' = PrepareCalls /\ FinalizeCalls' = FinalizeCalls
           /\ \A r : Receivers(r)' = Receivers(r) /\ IpcEngine(r)' = IpcEngine(r)
           /\ \A r : Targets(r)' = Targets(r) /\ TargetRanks(r)' = TargetRanks(r)
           /\ \A r : IsSource(r)' <=> IsSource(r)
           /\ \A r : Params(r)' = Params(r) /\ Due(r)' = Due(r) /\ Sent(r)' = Sent(r)
           /\ \A r, part : Planned(r, part)' = Planned(r, part)
           /\ \A c : Audience(c)' = Audience(c)
  <1>1. /\ args' = args /\ Ranks' = Ranks /\ Engines' = Engines /\ Gpus' = Gpus
    BY DEF args, Ranks, Engines, Gpus
  <1>2. Names' = Names
    BY <1>1 DEF Names, AllParams
  <1>3. /\ Paused' = Paused /\ Parts' = Parts
        /\ PrepareCalls' = PrepareCalls /\ FinalizeCalls' = FinalizeCalls
    BY <1>1 DEF Paused, Parts, PrepareCalls, FinalizeCalls
  <1>4. RankOf' = RankOf
    BY <1>1, <1>2 DEF RankOf, CallSets
  <1>5. \A r : Receivers(r)' = Receivers(r) /\ IpcEngine(r)' = IpcEngine(r)
    BY <1>1 DEF Receivers, IpcEngine
  <1>6. \A r : StageOf(r)' = StageOf(r) /\ CopyOf(r)' = CopyOf(r)
    BY <1>1 DEF StageOf, CopyOf
  <1>7. \A r : Targets(r)' = Targets(r) /\ TargetRanks(r)' = TargetRanks(r)
    BY <1>6 DEF Targets, TargetRanks
  <1>8. \A r : IsSource(r)' <=> IsSource(r)
    BY <1>1, <1>6 DEF IsSource
  <1>9. \A r : Params(r)' = Params(r) /\ Due(r)' = Due(r) /\ Sent(r)' = Sent(r)
    BY <1>1, <1>5, <1>6 DEF Params, Due, Sent
  <1>10. \A r, part : Planned(r, part)' = Planned(r, part)
    BY <1>6 DEF Planned
  <1>11. \A c : Audience(c)' = Audience(c)
    BY <1>1, <1>3 DEF Audience
  <1> QED
    BY <1>1, <1>2, <1>3, <1>4, <1>5, <1>7, <1>8, <1>9, <1>10, <1>11

\* The line never changes.
LEMMA LineFixed ==
    ASSUME [Next]_vars
    PROVE  line' = line
  <1> USE DEF vars
  <1>1. CASE UNCHANGED vars
    BY <1>1
  <1>2. ASSUME NEW r \in Ranks, RankStep(r) PROVE line' = line
    BY <1>2 DEF RankStep, ReadEngines, SendCall, LeftGroup, JoinGroup, JoinedGroup, Prepare, Finalize,
        StartBucket, AcquireLock, Broadcast, BucketSent, BucketsDone, StageBucket, LoadAndWrite,
        WritesAwaited, TransfersWaited, driverVars
  <1>3. ASSUME NEW e \in Engines, EngineStep(e) PROVE line' = line
    BY <1>3 DEF EngineStep, HandleCall, LeaveGroup, HandleEmpty, HandleTensor, driverVars
  <1>4. CASE NextCall \/ Barrier
    BY <1>4 DEF NextCall, Barrier, BarrierConnected, BarrierPrepared, BarrierSent, BarrierFinalized,
        driverVars
  <1>5. ASSUME NEW w \in writes, WriteDone(w) \/ WriteFails(w) PROVE line' = line
    BY <1>5 DEF WriteDone, WriteFails, driverVars
  <1>6. CASE Outside
    BY <1>6 DEF Outside, CallUpdate, RestartEngine, Serve, driverVars
  <1>7. CASE Ended
    BY <1>7 DEF Ended
  <1> QED
    BY <1>1, <1>2, <1>3, <1>4, <1>5, <1>6, <1>7 DEF Next, UpdateStep

LEMMA PlansStay ==
    ASSUME PlansCover, line' = line
    PROVE  PlansCover'
  <1>1. AllParams' = AllParams
    BY LineStays DEF AllParams
  <1>2. \A r, e, g : Reaches(r, e, g)' <=> Reaches(r, e, g)
    BY LineStays DEF Reaches
  <1>3. \A r, part, k, n : Carries(r, part, k, n)' <=> Carries(r, part, k, n)
    BY LineStays DEF Carries
  <1> QED
    BY <1>1, <1>2, <1>3, LineStays DEF PlansCover

LEMMA PlansOk ==
    ASSUME PlansCover, TypeInv, PhaseInv
    PROVE  /\ \A r \in Ranks, part \in Parts :
                /\ Planned(r, part) \in Seq(SUBSET AllParams)
                /\ Len(Planned(r, part)) \in Nat
                /\ DOMAIN Planned(r, part) = 1..Len(Planned(r, part))
           /\ \A r \in Ranks : rank[r].pc \in Sending =>
                /\ Len(Buckets(r)) \in Nat /\ DOMAIN Buckets(r) = 1..Len(Buckets(r))
                /\ rank[r].bucket \in DOMAIN Buckets(r) => NamesOf(Bucket(r)) \subseteq Names
  <1>1. \A r \in Ranks, part \in Parts : Planned(r, part) \in Seq(SUBSET AllParams)
    BY DEF PlansCover
  <1>2. \A r \in Ranks, part \in Parts :
            /\ Len(Planned(r, part)) \in Nat /\ DOMAIN Planned(r, part) = 1..Len(Planned(r, part))
    BY <1>1
  <1>3. ASSUME NEW r \in Ranks, rank[r].pc \in Sending
        PROVE  /\ Len(Buckets(r)) \in Nat /\ DOMAIN Buckets(r) = 1..Len(Buckets(r))
               /\ rank[r].bucket \in DOMAIN Buckets(r) => NamesOf(Bucket(r)) \subseteq Names
    <2>1. rank[r].part \in Parts
      BY <1>3 DEF PhaseInv
    <2>2. rank[r].bucket \in DOMAIN Buckets(r) => Bucket(r) \in SUBSET AllParams
      BY <2>1, <1>1 DEF Buckets, Bucket
    <2>3. rank[r].bucket \in DOMAIN Buckets(r) => NamesOf(Bucket(r)) \subseteq Names
      BY <2>2 DEF NamesOf, Names
    <2> QED
      BY <2>1, <2>3, <1>2 DEF Buckets
  <1> QED
    BY <1>1, <1>2, <1>3

(***************************************************************************)
(* The steps.                                                              *)
(***************************************************************************)
USE DEF driverVars, sendVars, callVars, p2pVars, Goto

LEMMA Steps ==
    ASSUME [Next]_vars
    PROVE  \/ UNCHANGED vars
           \/ \E r \in Ranks :
                \/ ReadEngines(r) \/ (\E c \in rank[r].unsent : SendCall(r, c))
                \/ LeftGroup(r) \/ JoinGroup(r) \/ JoinedGroup(r)
                \/ Prepare(r) \/ Finalize(r)
                \/ StartBucket(r) \/ AcquireLock(r) \/ Broadcast(r) \/ BucketSent(r) \/ BucketsDone(r)
                \/ StageBucket(r) \/ LoadAndWrite(r) \/ WritesAwaited(r) \/ TransfersWaited(r)
           \/ \E e \in Engines :
                \/ HandleCall(e) \/ RestartEngine(e) \/ Serve(e)
                \/ \E r \in Ranks : LeaveGroup(r, e) \/ HandleEmpty(r, e) \/ HandleTensor(r, e)
           \/ \E w \in writes : WriteDone(w) \/ WriteFails(w)
           \/ NextCall \/ CallUpdate
           \/ BarrierConnected \/ BarrierPrepared \/ BarrierSent \/ BarrierFinalized
  BY DEF Next, UpdateStep, RankStep, EngineStep, Barrier, Outside, Ended


LEMMA TypesStay ==
    ASSUME TypeInv, line' = line
    PROVE  /\ UNCHANGED engine => EnginesTyped'
           /\ UNCHANGED <<staged, registry, pinned>> => BuffersTyped'
           /\ UNCHANGED <<weight_version, failures, updating, new>> => DriverTyped'
           /\ Seq(CallOf)' = Seq(CallOf)
           /\ \A x : EngineShape(x)' <=> EngineShape(x)
  <1> USE LineStays
  <1>1. \A x : EngineShape(x)' <=> EngineShape(x)
    BY DEF EngineShape
  <1>2. UNCHANGED engine => EnginesTyped'
    BY <1>1 DEF EnginesTyped, TypeInv
  <1>3. UNCHANGED <<staged, registry, pinned>> => BuffersTyped'
    BY DEF BuffersTyped, TypeInv
  <1>4. UNCHANGED <<weight_version, failures, updating, new>> => DriverTyped'
    BY DEF DriverTyped, TypeInv
  <1>5. Seq(CallOf)' = Seq(CallOf)
    BY DEF CallOf
  <1> QED
    BY <1>1, <1>2, <1>3, <1>4, <1>5

\* What a step leaves alone stays well typed.
LEMMA TypesFrom ==
    ASSUME TypeInv, line' = line, rank' \in [Ranks -> RankOf],
           inbox' \in [Engines -> Seq(CallOf)] \/ UNCHANGED inbox,
           EnginesTyped' \/ UNCHANGED engine,
           BuffersTyped' \/ UNCHANGED <<staged, registry, pinned>>,
           DriverTyped' \/ UNCHANGED <<weight_version, failures, updating, new>>
    PROVE  TypeInv'
  BY TypesStay, LineStays DEF TypeInv

LEMMA PCsAre ==
    /\ "idle" \in PCs /\ Early \subseteq PCs /\ Sending \subseteq PCs /\ Final \subseteq PCs
    /\ {"called", "destroy", "init", "connected", "prepare", "preparing", "prepared",
        "buckets", "acquire", "send", "load", "await", "wait_transfers", "sent", "failed",
        "finalize", "finalizing", "finalized"} \subseteq PCs
  BY DEF PCs, Early, Sending, Final

LEMMA RankTyped ==
    ASSUME NEW x \in RankOf, NEW pc \in PCs, NEW C \in CallSets
    PROVE  /\ [x EXCEPT !.pc = pc] \in RankOf
           /\ [x EXCEPT !.pc = pc, !.unsent = C] \in RankOf
           /\ \A k \in Counts : [x EXCEPT !.pc = pc, !.bucket = k] \in RankOf
           /\ \A k \in Counts : [x EXCEPT !.bucket = k, !.pc = pc] \in RankOf
           /\ \A k \in Counts : [x EXCEPT !.pc = pc, !.turn = k] \in RankOf
           /\ \A k \in Counts, N \in SUBSET Names :
                [x EXCEPT !.pc = pc, !.names = N, !.turn = k] \in RankOf
           /\ \A D \in CallSets : [x EXCEPT !.unsent = C, !.unanswered = D] \in RankOf
           /\ [x EXCEPT !.unanswered = C] \in RankOf
           /\ \A p \in {"non_expert", "expert"} : [RankInit EXCEPT !.pc = pc, !.part = p] \in RankOf
           /\ [RankInit EXCEPT !.pc = pc] \in RankOf
  <1> DEFINE Two == {"non_expert", "expert"}
  <1>1. {} \in CallSets /\ {} \in SUBSET Names /\ 1 \in Counts /\ "non_expert" \in Two
    BY DEF CallSets, Counts
  <1> QED
    BY <1>1 DEF RankOf, RankInit

LEMMA CountsOk ==
    ASSUME NEW k \in Counts
    PROVE  k + 1 \in Counts /\ 1 \in Counts /\ k \in Nat /\ k > 0
  BY DEF Counts

LEMMA RankFields ==
    ASSUME rank \in [Ranks -> RankOf], NEW r \in Ranks
    PROVE  /\ rank[r] \in RankOf /\ rank[r].pc \in PCs /\ rank[r].bucket \in Counts
           /\ rank[r].unsent \in CallSets /\ rank[r].unanswered \in CallSets
           /\ rank[r].names \in SUBSET Names /\ rank[r].turn \in Counts
           /\ rank[r].part \in {"non_expert", "expert"}
           /\ NextBucket(r) \in RankOf
  <1>1. rank[r] \in RankOf
    OBVIOUS
  <1>2. /\ rank[r].pc \in PCs /\ rank[r].bucket \in Counts
        /\ rank[r].unsent \in CallSets /\ rank[r].unanswered \in CallSets
        /\ rank[r].names \in SUBSET Names /\ rank[r].turn \in Counts
    BY <1>1 DEF RankOf
  <1>3. rank[r].part \in {"non_expert", "expert"}
    BY <1>1 DEF RankOf
  <1>4. rank[r].bucket + 1 \in Counts
    BY <1>2, CountsOk
  <1>5. NextBucket(r) \in RankOf
    BY <1>1, <1>2, <1>4, RankTyped, PCsAre DEF NextBucket
  <1> QED
    BY <1>1, <1>2, <1>3, <1>5

LEMMA RankSet ==
    ASSUME rank \in [Ranks -> RankOf], NEW r \in Ranks, NEW pc \in PCs, NEW C \in CallSets
    PROVE  /\ \A x \in RankOf : [rank EXCEPT ![r] = x] \in [Ranks -> RankOf]
           /\ [rank EXCEPT ![r].pc = pc] \in [Ranks -> RankOf]
           /\ [rank EXCEPT ![r].pc = pc, ![r].unsent = C] \in [Ranks -> RankOf]
           /\ \A k \in Counts : [rank EXCEPT ![r].pc = pc, ![r].turn = k] \in [Ranks -> RankOf]
           /\ \A D \in CallSets : [rank EXCEPT ![r].unsent = C, ![r].unanswered = D] \in [Ranks -> RankOf]
           /\ [rank EXCEPT ![r].unanswered = C] \in [Ranks -> RankOf]
  <1> rank[r] \in RankOf
    OBVIOUS
  <1> DEFINE x == rank[r]
  <1>1. [rank EXCEPT ![r].pc = pc] = [rank EXCEPT ![r] = [x EXCEPT !.pc = pc]]
    OBVIOUS
  <1>2. [rank EXCEPT ![r].pc = pc, ![r].unsent = C]
            = [rank EXCEPT ![r] = [x EXCEPT !.pc = pc, !.unsent = C]]
    OBVIOUS
  <1>3. \A k \in Counts : [rank EXCEPT ![r].pc = pc, ![r].turn = k]
            = [rank EXCEPT ![r] = [x EXCEPT !.pc = pc, !.turn = k]]
    OBVIOUS
  <1>4. \A D \in CallSets : [rank EXCEPT ![r].unsent = C, ![r].unanswered = D]
            = [rank EXCEPT ![r] = [x EXCEPT !.unsent = C, !.unanswered = D]]
    OBVIOUS
  <1>5. [rank EXCEPT ![r].unanswered = C] = [rank EXCEPT ![r] = [x EXCEPT !.unanswered = C]]
    OBVIOUS
  <1> HIDE DEF x
  <1>6. \A y \in RankOf : [rank EXCEPT ![r] = y] \in [Ranks -> RankOf]
    OBVIOUS
  <1> QED
    BY <1>1, <1>2, <1>3, <1>4, <1>5, <1>6, RankTyped DEF x

LEMMA PcSet ==
    ASSUME rank \in [Ranks -> RankOf], NEW r \in Ranks, NEW pc \in PCs
    PROVE  /\ [rank EXCEPT ![r].pc = pc] \in [Ranks -> RankOf]
           /\ \A k \in Counts : [rank EXCEPT ![r].pc = pc, ![r].turn = k] \in [Ranks -> RankOf]
  BY RankSet, RankFields

LEMMA AnsweredTyped ==
    ASSUME TypeInv, NEW r \in Ranks, NEW E, E \subseteq Engines, NEW kind, line' = line,
           Handled(E), Answered(r, E, kind), \A e \in E : inbox[e] # <<>>
    PROVE  rank' \in [Ranks -> RankOf] /\ inbox' \in [Engines -> Seq(CallOf)]
  <1>1. rank[r] \in RankOf
    BY DEF TypeInv
  <1>2. rank[r].unanswered \ (E \X {kind}) \in CallSets /\ "idle" \in PCs
    BY <1>1, RankFields, PCsAre DEF CallSets, TypeInv
  <1>3. rank' \in [Ranks -> RankOf]
    BY <1>2, RankSet DEF TypeInv, Answered
  <1>4. \A e \in Engines : inbox[e] \in Seq(CallOf)
    BY DEF TypeInv
  <1>5. \A e \in E : Tail(inbox[e]) \in Seq(CallOf)
    BY <1>4
  <1>6. inbox' \in [Engines -> Seq(CallOf)]
    BY <1>4, <1>5 DEF Handled
  <1> QED
    BY <1>3, <1>6

LEMMA LoadedShape ==
    ASSUME EnginesTyped, NEW e \in Engines
    PROVE  EngineShape(Loaded(e))
  BY DEF EnginesTyped, EngineShape, Loaded

LEMMA CallsOk ==
    ASSUME CallsInv, waiting # {}
    PROVE  /\ rank[1].pc \in {"preparing", "finalizing"} /\ calls # <<>>
           /\ waiting \subseteq Audience(Head(calls))
           /\ Head(calls) \in {"pause", "flush", "begin", "announce", "end", "continue"}
           /\ Head(calls) = "announce" => args.transport = "p2p"
           /\ rank[1].pc = "preparing" => Head(calls) \in {"pause", "flush", "begin"}
           /\ rank[1].pc = "finalizing" => Head(calls) \in {"announce", "end", "continue"}
  BY DEF CallsInv

LEMMA WriteGoes ==
    ASSUME rank \in [Ranks -> RankOf], NEW w, WriteDone(w) \/ WriteFails(w)
    PROVE  rank' \in [Ranks -> RankOf]
  <1>1. CASE w.rank \in Ranks
    <2>1. \A pc \in PCs : [rank EXCEPT ![w.rank].pc = pc] \in [Ranks -> RankOf]
      BY <1>1, PcSet
    <2>2. UNCHANGED rank \/ \E pc \in PCs : rank' = [rank EXCEPT ![w.rank].pc = pc]
      BY PCsAre DEF WriteDone, WriteFails
    <2> QED
      BY <2>1, <2>2
  <1>2. CASE w.rank \notin Ranks
    BY <1>2 DEF WriteDone, WriteFails
  <1> QED
    BY <1>1, <1>2

LEMMA TypeStep ==
    ASSUME PlansCover, TypeInv, PhaseInv, SendInv, CallsInv, [Next]_vars
    PROVE  TypeInv'
  <1>0. line' = line
    BY LineFixed
  <1>t. line \in DOMAIN Configurations
    BY DEF TypeInv, DriverTyped
  <1>1. CASE UNCHANGED vars
    BY <1>1, <1>0, TypesFrom DEF vars, TypeInv
  <1>2. ASSUME NEW r \in Ranks, ReadEngines(r) PROVE TypeInv'
    <2>1. Receivers(r) \X {"init"} \subseteq Engines \X Kinds
          /\ Receivers(r) \X {"destroy"} \subseteq Engines \X Kinds
      BY RanksOk, <1>t DEF Kinds
    <2>2. \A x \in RankOf : [rank EXCEPT ![r] = x] \in [Ranks -> RankOf]
      BY <2>1, RankSet, PCsAre DEF TypeInv, CallSets
    <2>3. rank' \in [Ranks -> RankOf]
      <3>1. CASE ~new
        BY <1>2, <2>1, <2>2, <3>1, RankTyped, RankFields, PCsAre DEF ReadEngines, TypeInv, CallSets
      <3>2. CASE new /\ Receivers(r) # {}
        BY <1>2, <2>1, <2>2, <3>2, RankTyped, RankFields, PCsAre DEF ReadEngines, TypeInv, CallSets
      <3>3. CASE new /\ Receivers(r) = {}
        BY <1>2, <2>1, <2>2, <3>3, RankTyped, RankFields, PCsAre DEF ReadEngines, TypeInv, CallSets
      <3> QED
        BY <3>1, <3>2, <3>3
    <2>4. registry' \in [Ranks -> {"none", "current", "stale"}]
      BY <1>2 DEF ReadEngines, TypeInv, BuffersTyped
    <2>5. DOMAIN pinned' = Ranks /\ \A q \in Ranks : DOMAIN pinned'[q] = NamesOf(ToSet(Params(q)))
      BY <1>2 DEF ReadEngines, TypeInv, BuffersTyped
    <2>6. BuffersTyped'
      BY <1>2, <1>0, <2>4, <2>5, LineStays DEF ReadEngines, TypeInv, BuffersTyped
    <2> QED
      BY <1>2, <1>0, <2>3, <2>6, TypesFrom DEF ReadEngines
  <1>3. ASSUME NEW r \in Ranks, NEW c \in rank[r].unsent, SendCall(r, c) PROVE TypeInv'
    <2>1. c \in Engines \X Kinds
      BY RankFields DEF TypeInv, CallSets
    <2>2. rank[r].unsent \ {c} \in CallSets /\ rank[r].unanswered \cup {c} \in CallSets
      BY <2>1, RankFields DEF TypeInv, CallSets
    <2>3. rank' \in [Ranks -> RankOf]
      BY <1>3, <2>2, RankSet, PCsAre DEF SendCall, TypeInv
    <2>4. (IF c[2] \in Carriers THEN NamesOf(Bucket(r)) ELSE {}) \in SUBSET Names
      <3>1. CASE c[2] \in Carriers
        <4>1. rank[r].pc = "send"
          BY <3>1 DEF SendInv, SendsOk, Carriers, Due
        <4>2. rank[r].bucket \in DOMAIN Buckets(r) /\ rank[r].pc \in Sending
          BY <4>1 DEF PhaseInv, Placed, Sending
        <4> QED
          BY <4>2, PlansOk
      <3> QED
        BY <3>1
    <2>5. [rank |-> r, kind |-> c[2],
           names |-> IF c[2] \in {"broadcast", "ipc"} THEN NamesOf(Bucket(r)) ELSE {}] \in CallOf
      BY <2>1, <2>4 DEF CallOf, Carriers
    <2>6. inbox' \in [Engines -> Seq(CallOf)]
      BY <1>3, <2>1, <2>5 DEF SendCall, TypeInv
    <2> QED
      BY <1>3, <1>0, <2>3, <2>6, TypesFrom DEF SendCall
  <1>4. ASSUME NEW r \in Ranks, LeftGroup(r) \/ AcquireLock(r) PROVE TypeInv'
    <2>1. Receivers(r) \X {"init"} \subseteq Engines \X Kinds
          /\ Receivers(r) \X {"broadcast"} \subseteq Engines \X Kinds
      BY RanksOk, <1>t DEF Kinds, Carriers
    <2>2. rank' \in [Ranks -> RankOf]
      <3>1. CASE LeftGroup(r)
        BY <3>1, <2>1, RankSet, PCsAre DEF LeftGroup, TypeInv, CallSets
      <3>2. CASE AcquireLock(r)
        BY <3>2, <2>1, RankSet, PCsAre DEF AcquireLock, TypeInv, CallSets
      <3> QED
        BY <1>4, <3>1, <3>2
    <2> QED
      BY <1>4, <1>0, <2>2, TypesFrom DEF LeftGroup, AcquireLock
  <1>5. ASSUME NEW r \in Ranks, JoinGroup(r) PROVE TypeInv'
    <2>1. rank' \in [Ranks -> RankOf] /\ inbox' \in [Engines -> Seq(CallOf)]
      BY <1>5, <1>0, <1>t, RanksOk, AnsweredTyped DEF JoinGroup, Handles
    <2> QED
      BY <1>5, <1>0, <2>1, TypesFrom DEF JoinGroup
  <1>6. ASSUME NEW r \in Ranks,
               JoinedGroup(r) \/ Finalize(r) \/ BucketSent(r) \/ BucketsDone(r) \/ WritesAwaited(r)
        PROVE  TypeInv'
    <2>1. rank' \in [Ranks -> RankOf]
      <3>1. CASE JoinedGroup(r) \/ Finalize(r) \/ BucketsDone(r)
        <4>1. \A pc \in PCs : [rank EXCEPT ![r].pc = pc] \in [Ranks -> RankOf]
          BY PcSet DEF TypeInv
        <4>2. \E pc \in PCs : rank' = [rank EXCEPT ![r].pc = pc]
          BY <3>1, PCsAre DEF JoinedGroup, Finalize, BucketsDone
        <4> QED
          BY <4>1, <4>2
      <3>2. CASE BucketSent(r)
        BY <3>2, RankSet, RankFields, PCsAre DEF BucketSent, TypeInv
      <3>3. CASE WritesAwaited(r)
        BY <3>3, PcSet, RankFields, PCsAre, CountsOk DEF WritesAwaited, TypeInv
      <3> QED
        BY <1>6, <3>1, <3>2, <3>3
    <2> QED
      BY <1>6, <1>0, <2>1, TypesFrom DEF JoinedGroup, Finalize, BucketSent, BucketsDone, WritesAwaited
  <1>7. ASSUME NEW r \in Ranks, Prepare(r) PROVE TypeInv'
    <2>1. rank' \in [Ranks -> RankOf]
      <3>1. \A pc \in PCs : [rank EXCEPT ![r].pc = pc] \in [Ranks -> RankOf]
        BY PcSet DEF TypeInv
      <3>2. \E pc \in PCs : rank' = [rank EXCEPT ![r].pc = pc]
        BY <1>7, PCsAre DEF Prepare
      <3> QED
        BY <3>1, <3>2
    <2>2. DriverTyped'
      <3>1. weight_version' \in [Ranks -> Nat]
        BY <1>7 DEF Prepare, TypeInv, DriverTyped
      <3> QED
        BY <1>7, <1>0, <3>1, LineStays DEF Prepare, TypeInv, DriverTyped
    <2>3. BuffersTyped'
      BY <1>7, <1>0, LineStays DEF Prepare, TypeInv, BuffersTyped
    <2> QED
      BY <1>7, <1>0, <2>1, <2>2, <2>3, TypesFrom DEF Prepare
  <1>8. ASSUME NEW r \in Ranks, StartBucket(r) PROVE TypeInv'
    <2>1. (IpcEngine(r) \X {"ipc"}) \cup (Receivers(r) \X {"broadcast"}) \subseteq Engines \X Kinds
      BY RanksOk, <1>t DEF Kinds, Carriers
    <2>2. [rank[r] EXCEPT !.pc = "acquire"] \in RankOf
          /\ [rank[r] EXCEPT !.pc = "send", !.unsent =
                (IpcEngine(r) \X {"ipc"}) \cup (Receivers(r) \X {"broadcast"})] \in RankOf
      BY <2>1, RankTyped, RankFields, PCsAre DEF TypeInv, CallSets
    <2>3. rank' \in [Ranks -> RankOf]
      BY <1>8, <2>1, <2>2, RankSet, RankFields, PCsAre DEF StartBucket, TypeInv, CallSets
    <2> QED
      BY <1>8, <1>0, <2>3, TypesFrom DEF StartBucket
  <1>9. ASSUME NEW r \in Ranks, Broadcast(r) PROVE TypeInv'
    <2>1. rank' \in [Ranks -> RankOf] /\ inbox' \in [Engines -> Seq(CallOf)]
      BY <1>9, <1>0, <1>t, RanksOk, AnsweredTyped DEF Broadcast, Handles
    <2>2. EnginesTyped'
      BY <1>9, <1>0, LoadedShape, TypesStay, LineStays DEF Broadcast, TypeInv, EnginesTyped
    <2> QED
      BY <1>9, <1>0, <2>1, <2>2, TypesFrom DEF Broadcast
  <1>10. ASSUME NEW r \in Ranks, StageBucket(r) PROVE TypeInv'
    <2> DEFINE there == staged[r] \cup NamesOf(Bucket(r))
    <2>1. there \subseteq Names
      <3>1. rank[r].pc \in Sending
        BY <1>10 DEF StageBucket, Sending
      <3>2. rank[r].bucket \in DOMAIN Buckets(r)
        <4>1. rank[r].bucket \in Nat /\ rank[r].bucket > 0 /\ rank[r].bucket <= Len(Buckets(r))
          BY <1>10, RankFields, CountsOk DEF StageBucket, TypeInv
        <4>2. Len(Buckets(r)) \in Nat /\ DOMAIN Buckets(r) = 1..Len(Buckets(r))
          BY <3>1, PlansOk
        <4> QED
          BY <4>1, <4>2
      <3> QED
        BY <3>1, <3>2, PlansOk DEF TypeInv, BuffersTyped
    <2>2. Ready(r, there) \subseteq there
      BY DEF Ready
    <2>3. [rank[r] EXCEPT !.pc = "load", !.names = Ready(r, there), !.turn = 1] \in RankOf
      BY <2>1, <2>2, RankTyped, RankFields, PCsAre, CountsOk DEF TypeInv
    <2>4. rank' \in [Ranks -> RankOf]
      BY <1>10, <2>3, RankSet, RankFields DEF StageBucket, TypeInv
    <2>5. BuffersTyped'
      BY <1>10, <1>0, <2>1, LineStays DEF StageBucket, TypeInv, BuffersTyped
    <2> QED
      BY <1>10, <1>0, <2>4, <2>5, TypesFrom DEF StageBucket
  <1>11. ASSUME NEW r \in Ranks, LoadAndWrite(r) PROVE TypeInv'
    <2>1. rank' \in [Ranks -> RankOf]
      <3>1. [rank[r] EXCEPT !.pc = "await"] \in RankOf
        BY RankTyped, RankFields, PCsAre DEF TypeInv
      <3> QED
        BY <1>11, <3>1, RankSet, RankFields DEF LoadAndWrite, TypeInv
    <2>2. BuffersTyped'
      BY <1>11, <1>0, LineStays DEF LoadAndWrite, TypeInv, BuffersTyped
    <2> QED
      BY <1>11, <1>0, <2>1, <2>2, TypesFrom DEF LoadAndWrite
  <1>12. ASSUME NEW r \in Ranks, TransfersWaited(r) PROVE TypeInv'
    <2>1. rank' \in [Ranks -> RankOf]
      BY <1>12, PcSet, RankFields, PCsAre DEF TransfersWaited, TypeInv
    <2>2. DriverTyped'
      <3>1. failures' \in Nat
        BY <1>12 DEF TransfersWaited, TypeInv, DriverTyped
      <3> QED
        BY <1>12, <1>0, <3>1, LineStays DEF TransfersWaited, TypeInv, DriverTyped
    <2> QED
      BY <1>12, <1>0, <2>1, <2>2, TypesFrom DEF TransfersWaited
  <1>13. ASSUME NEW e \in Engines, HandleCall(e) \/ RestartEngine(e) \/ Serve(e) PROVE TypeInv'
    <2>1. EnginesTyped'
      <3>1. CASE HandleCall(e)
        <4>1. Head(calls) \in {"pause", "flush", "begin", "announce", "end", "continue"}
          BY <3>1, CallsOk DEF HandleCall
        <4>2. EngineShape(AfterCall(e, Head(calls)))
          BY <4>1 DEF AfterCall, TypeInv, EnginesTyped, EngineShape
        <4> QED
          BY <3>1, <4>2, <1>0, LineStays, TypesStay DEF HandleCall, TypeInv, EnginesTyped
      <3>2. CASE RestartEngine(e)
        BY <3>2, <1>0, LineStays, TypesStay DEF RestartEngine, TypeInv, EnginesTyped, EngineShape, EngineInit, Names
      <3>3. CASE Serve(e)
        BY <3>3, <1>0, LineStays, TypesStay DEF Serve, TypeInv, EnginesTyped, EngineShape
      <3> QED
        BY <1>13, <3>1, <3>2, <3>3
    <2>2. DriverTyped'
      BY <1>13, <1>0, <2>1, LineStays DEF HandleCall, RestartEngine, Serve, TypeInv, DriverTyped
    <2> QED
      BY <1>13, <1>0, <2>1, <2>2, TypesFrom DEF HandleCall, RestartEngine, Serve, TypeInv
  <1>14. ASSUME NEW e \in Engines, NEW r \in Ranks,
                LeaveGroup(r, e) \/ HandleEmpty(r, e) \/ HandleTensor(r, e) PROVE TypeInv'
    <2>1. \E kind : Handled({e}) /\ Answered(r, {e}, kind) /\ inbox[e] # <<>>
      BY <1>14 DEF LeaveGroup, HandleEmpty, HandleTensor, Handles
    <2>2. rank' \in [Ranks -> RankOf] /\ inbox' \in [Engines -> Seq(CallOf)]
      BY <2>1, <1>0, AnsweredTyped
    <2>3. engine' = engine \/ engine' = [engine EXCEPT ![e] = Loaded(e)]
      BY <1>14 DEF LeaveGroup, HandleEmpty, HandleTensor
    <2>4. EnginesTyped'
      BY <2>3, <1>0, LoadedShape, TypesStay, LineStays DEF TypeInv, EnginesTyped
    <2> QED
      BY <1>14, <1>0, <2>2, <2>4, TypesFrom DEF LeaveGroup, HandleEmpty, HandleTensor
  <1>15. ASSUME NEW w \in writes, WriteDone(w) \/ WriteFails(w) PROVE TypeInv'
    <2>1. rank' \in [Ranks -> RankOf]
      BY <1>15, WriteGoes DEF TypeInv
    <2>2. EnginesTyped'
      BY <1>15, <1>0, TypesStay, LineStays DEF WriteDone, WriteFails, TypeInv, EnginesTyped, EngineShape
    <2>3. DriverTyped'
      BY <1>15, <1>0, LineStays DEF WriteDone, WriteFails, TypeInv, DriverTyped
    <2> QED
      BY <1>15, <1>0, <2>1, <2>2, <2>3, TypesFrom DEF WriteDone, WriteFails
  <1>16. CASE NextCall \/ CallUpdate \/ BarrierConnected \/ BarrierPrepared \/ BarrierSent \/ BarrierFinalized
    <2>1. rank' \in [Ranks -> RankOf]
      <3>1. \A pc \in PCs : \A p \in {"non_expert", "expert"} : [RankInit EXCEPT !.pc = pc, !.part = p] \in RankOf
        BY RankTyped, RankFields, RanksOk, <1>t DEF TypeInv
      <3>2. \A pc \in PCs : \A p \in {"non_expert", "expert"} : AllGoto(pc, p) => rank' \in [Ranks -> RankOf]
        BY <3>1 DEF AllGoto
      <3>3. CASE NextCall
        <4>1. \A pc \in PCs : [rank EXCEPT ![1].pc = pc] \in [Ranks -> RankOf]
          BY PcSet, RanksOk, <1>t DEF TypeInv
        <4>2. UNCHANGED rank \/ \E pc \in PCs : rank' = [rank EXCEPT ![1].pc = pc]
          BY <3>3, PCsAre DEF NextCall
        <4> QED
          BY <4>1, <4>2 DEF TypeInv
      <3>4. CASE CallUpdate
        BY <3>4, RankTyped, RankFields, RanksOk, PCsAre, <1>t DEF CallUpdate, TypeInv
      <3>5. CASE BarrierConnected \/ BarrierPrepared \/ BarrierSent \/ BarrierFinalized
        BY <3>2, <3>5, PCsAre DEF BarrierConnected, BarrierPrepared, BarrierSent, BarrierFinalized
      <3> QED
        BY <1>16, <3>3, <3>4, <3>5
    <2>2. DriverTyped'
      BY <1>16, <1>0, LineStays DEF NextCall, CallUpdate, BarrierConnected, BarrierPrepared, BarrierSent,
         BarrierFinalized, TypeInv, DriverTyped
    <2> QED
      BY <1>16, <1>0, <2>1, <2>2, TypesFrom DEF NextCall, CallUpdate, BarrierConnected, BarrierPrepared,
         BarrierSent, BarrierFinalized
  <1> QED
    BY Steps, <1>1, <1>2, <1>3, <1>4, <1>5, <1>6, <1>7, <1>8, <1>9, <1>10, <1>11, <1>12, <1>13,
       <1>14, <1>15, <1>16

(***************************************************************************)
(* What the steps do to the ranks.                                         *)
(***************************************************************************)
Only(r) == \A q \in Ranks : q # r => rank'[q] = rank[q]
SameBucket(r) == rank'[r].part = rank[r].part /\ rank'[r].bucket = rank[r].bucket
SameNames(r) == rank'[r].names = rank[r].names /\ rank'[r].turn = rank[r].turn
SameCalls(r) == rank'[r].unsent = rank[r].unsent /\ rank'[r].unanswered = rank[r].unanswered

\* Rank r goes on to pc, and nothing else changes.
Moves(r, pc) ==
    Only(r) /\ SameBucket(r) /\ SameNames(r) /\ SameCalls(r) /\ rank'[r].pc = pc

Advances(r) ==
    /\ Only(r) /\ SameNames(r) /\ SameCalls(r) /\ rank'[r].pc = "buckets"
    /\ rank'[r].part = rank[r].part /\ rank'[r].bucket = rank[r].bucket + 1

\* Rank r goes on to pc with the calls C to make.
Calls(r, pc, C) ==
    /\ Only(r) /\ SameBucket(r) /\ SameNames(r) /\ rank'[r].pc = pc
    /\ rank'[r].unsent = C /\ rank'[r].unanswered = rank[r].unanswered

HasAnswers(r, A) ==
    /\ Only(r) /\ SameBucket(r) /\ SameNames(r) /\ rank'[r].pc = rank[r].pc
    /\ rank'[r].unsent = rank[r].unsent /\ rank'[r].unanswered = rank[r].unanswered \ A

AllStart(pc, part) == \A r \in Ranks :
    /\ rank'[r].pc = pc /\ rank'[r].part = part /\ rank'[r].bucket = 1 /\ rank'[r].turn = 1
    /\ rank'[r].unsent = {} /\ rank'[r].unanswered = {} /\ rank'[r].names = {}

USE DEF Only, SameBucket, SameNames, SameCalls

LEMMA Changes ==
    ASSUME rank \in [Ranks -> RankOf], NEW r \in Ranks
    PROVE  /\ \A pc : rank' = [rank EXCEPT ![r].pc = pc] => Moves(r, pc)
           /\ rank' = [rank EXCEPT ![r] = NextBucket(r)] => Advances(r)
           /\ \A pc, C : rank' = [rank EXCEPT ![r].pc = pc, ![r].unsent = C] => Calls(r, pc, C)
           /\ \A pc, C : rank' = [rank EXCEPT ![r] = [rank[r] EXCEPT !.pc = pc, !.unsent = C]]
                            => Calls(r, pc, C)
           /\ \A pc : rank' = [rank EXCEPT ![r] = [rank[r] EXCEPT !.pc = pc]] => Moves(r, pc)
           /\ \A E, kind : Answered(r, E, kind) => HasAnswers(r, E \X {kind})
  <1> rank[r] \in RankOf
    OBVIOUS
  <1>1. \A pc : rank' = [rank EXCEPT ![r].pc = pc] => Moves(r, pc)
    BY DEF RankOf, Moves
  <1>2. rank' = [rank EXCEPT ![r] = NextBucket(r)] => Advances(r)
    BY DEF RankOf, Advances, NextBucket
  <1>3. \A pc, C : rank' = [rank EXCEPT ![r].pc = pc, ![r].unsent = C] => Calls(r, pc, C)
    BY DEF RankOf, Calls
  <1>4. \A pc, C : rank' = [rank EXCEPT ![r] = [rank[r] EXCEPT !.pc = pc, !.unsent = C]]
                            => Calls(r, pc, C)
    BY DEF RankOf, Calls
  <1>5. \A pc : rank' = [rank EXCEPT ![r] = [rank[r] EXCEPT !.pc = pc]] => Moves(r, pc)
    BY DEF RankOf, Moves
  <1>6. \A E, kind : Answered(r, E, kind) => HasAnswers(r, E \X {kind})
    BY DEF RankOf, Answered, HasAnswers
  <1> QED
    BY <1>1, <1>2, <1>3, <1>4, <1>5, <1>6

LEMMA AllChange ==
    ASSUME NEW pc, NEW part
    PROVE  /\ AllGoto(pc, part) => AllStart(pc, part)
           /\ rank' = [r \in Ranks |-> [RankInit EXCEPT !.pc = pc]] => AllStart(pc, "non_expert")
  <1>1. ASSUME AllGoto(pc, part), NEW r \in Ranks
        PROVE  /\ rank'[r].pc = pc /\ rank'[r].part = part /\ rank'[r].bucket = 1 /\ rank'[r].turn = 1
               /\ rank'[r].unsent = {} /\ rank'[r].unanswered = {} /\ rank'[r].names = {}
    <2>1. rank'[r] = [RankInit EXCEPT !.pc = pc, !.part = part]
      BY <1>1 DEF AllGoto
    <2>2. rank'[r].pc = pc
      BY <2>1 DEF RankInit
    <2>3. rank'[r].part = part
      BY <2>1 DEF RankInit
    <2>4. rank'[r].bucket = 1 /\ rank'[r].turn = 1
      BY <2>1 DEF RankInit
    <2>5. rank'[r].unsent = {} /\ rank'[r].unanswered = {} /\ rank'[r].names = {}
      BY <2>1 DEF RankInit
    <2> QED
      BY <2>2, <2>3, <2>4, <2>5
  <1>2. rank' = [r \in Ranks |-> [RankInit EXCEPT !.pc = pc]] => AllStart(pc, "non_expert")
    BY DEF AllStart, RankInit
  <1> QED
    BY <1>1, <1>2 DEF AllStart

\* What the steps of a rank do to it.
LEMMA RankSteps ==
    ASSUME rank \in [Ranks -> RankOf], NEW r \in Ranks
    PROVE  /\ ReadEngines(r) => rank[r].pc = "called" /\
                \/ \E pc \in {"prepare", "connected"} : Moves(r, pc)
                \/ \E pc \in {"destroy", "init"} : Calls(r, pc, Receivers(r) \X {pc})
           /\ LeftGroup(r) => rank[r].pc = "destroy" /\ AllAnswered(r)
                              /\ Calls(r, "init", Receivers(r) \X {"init"})
           /\ JoinGroup(r) => rank[r].pc = "init" /\ HasAnswers(r, Receivers(r) \X {"init"})
           /\ JoinedGroup(r) => rank[r].pc = "init" /\ AllAnswered(r) /\ Moves(r, "connected")
           /\ Prepare(r) => rank[r].pc = "prepare" /\ Moves(r, IF r = 1 THEN "preparing" ELSE "prepared")
           /\ Finalize(r) => rank[r].pc = "finalize" /\ Moves(r, IF r = 1 THEN "finalizing" ELSE "finalized")
           /\ StartBucket(r) => rank[r].pc = "buckets" /\ rank[r].bucket <= Len(Buckets(r)) /\
                \/ ~IsSource(r) /\ Advances(r)
                \/ args.transport = "broadcast" /\ IsSource(r) /\ Moves(r, "acquire")
                \/ args.transport \notin {"broadcast", "p2p"} /\ IsSource(r) /\ Calls(r, "send", Due(r))
           /\ AcquireLock(r) => rank[r].pc = "acquire" /\ Calls(r, "send", Receivers(r) \X {"broadcast"})
           /\ Broadcast(r) => rank[r].pc = "send" /\ HasAnswers(r, Receivers(r) \X {"broadcast"})
           /\ BucketSent(r) => rank[r].pc = "send" /\ AllAnswered(r) /\ Advances(r)
           /\ BucketsDone(r) => rank[r].pc = "buckets" /\ rank[r].bucket > Len(Buckets(r)) /\
                Moves(r, IF args.transport = "p2p" /\ rank[r].part = "expert" /\ IsSource(r)
                         THEN "wait_transfers" ELSE "sent")
           /\ WritesAwaited(r) => rank[r].pc = "await" /\ Only(r) /\ SameBucket(r) /\ SameCalls(r)
                /\ rank'[r].pc = "load" /\ rank'[r].names = rank[r].names
                /\ rank'[r].turn = rank[r].turn + 1
           /\ TransfersWaited(r) => rank[r].pc = "wait_transfers"
                /\ Moves(r, IF staged[r] = {} THEN "sent" ELSE "failed")
           /\ LoadAndWrite(r) => rank[r].pc = "load" /\
                \/ rank[r].turn = Len(TargetRanks(r)) /\ Advances(r)
                \/ rank[r].turn # Len(TargetRanks(r)) /\ Moves(r, "await")
  <1>1. ReadEngines(r) => rank[r].pc = "called" /\
                \/ \E pc \in {"prepare", "connected"} : Moves(r, pc)
                \/ \E pc \in {"destroy", "init"} : Calls(r, pc, Receivers(r) \X {pc})
    BY Changes DEF ReadEngines
  <1>2. /\ LeftGroup(r) => rank[r].pc = "destroy" /\ AllAnswered(r)
                              /\ Calls(r, "init", Receivers(r) \X {"init"})
        /\ JoinGroup(r) => rank[r].pc = "init" /\ HasAnswers(r, Receivers(r) \X {"init"})
        /\ JoinedGroup(r) => rank[r].pc = "init" /\ AllAnswered(r) /\ Moves(r, "connected")
    BY Changes DEF LeftGroup, JoinGroup, JoinedGroup
  <1>3. /\ Prepare(r) => rank[r].pc = "prepare" /\ Moves(r, IF r = 1 THEN "preparing" ELSE "prepared")
        /\ Finalize(r) => rank[r].pc = "finalize" /\ Moves(r, IF r = 1 THEN "finalizing" ELSE "finalized")
    BY Changes DEF Prepare, Finalize
  <1>4. StartBucket(r) => rank[r].pc = "buckets" /\ rank[r].bucket <= Len(Buckets(r)) /\
                \/ ~IsSource(r) /\ Advances(r)
                \/ args.transport = "broadcast" /\ IsSource(r) /\ Moves(r, "acquire")
                \/ args.transport \notin {"broadcast", "p2p"} /\ IsSource(r) /\ Calls(r, "send", Due(r))
    BY Changes DEF StartBucket, Due
  <1>5. /\ AcquireLock(r) => rank[r].pc = "acquire" /\ Calls(r, "send", Receivers(r) \X {"broadcast"})
        /\ Broadcast(r) => rank[r].pc = "send" /\ HasAnswers(r, Receivers(r) \X {"broadcast"})
        /\ BucketSent(r) => rank[r].pc = "send" /\ AllAnswered(r) /\ Advances(r)
    BY Changes DEF AcquireLock, Broadcast, BucketSent
  <1>6. BucketsDone(r) => rank[r].pc = "buckets" /\ rank[r].bucket > Len(Buckets(r)) /\
                Moves(r, IF args.transport = "p2p" /\ rank[r].part = "expert" /\ IsSource(r)
                         THEN "wait_transfers" ELSE "sent")
    BY Changes DEF BucketsDone
  <1>7. WritesAwaited(r) => rank[r].pc = "await" /\ Only(r) /\ SameBucket(r) /\ SameCalls(r)
                /\ rank'[r].pc = "load" /\ rank'[r].names = rank[r].names
                /\ rank'[r].turn = rank[r].turn + 1
    BY DEF WritesAwaited, RankOf
  <1>8. /\ TransfersWaited(r) => rank[r].pc = "wait_transfers"
                /\ Moves(r, IF staged[r] = {} THEN "sent" ELSE "failed")
        /\ LoadAndWrite(r) => rank[r].pc = "load" /\
                \/ rank[r].turn = Len(TargetRanks(r)) /\ Advances(r)
                \/ rank[r].turn # Len(TargetRanks(r)) /\ Moves(r, "await")
    BY Changes DEF TransfersWaited, LoadAndWrite
  <1> QED
    BY <1>1, <1>2, <1>3, <1>4, <1>5, <1>6, <1>7, <1>8

LEMMA StageSteps ==
    ASSUME rank \in [Ranks -> RankOf], NEW r \in Ranks, StageBucket(r)
    PROVE  /\ args.transport = "p2p" /\ IsSource(r) /\ rank[r].pc = "buckets"
           /\ rank[r].bucket <= Len(Buckets(r))
           /\ \/ Advances(r) /\ Ready(r, staged[r] \cup NamesOf(Bucket(r))) = {}
              \/ /\ Only(r) /\ SameBucket(r) /\ SameCalls(r) /\ rank'[r].pc = "load"
                 /\ rank'[r].names = Ready(r, staged[r] \cup NamesOf(Bucket(r)))
                 /\ rank'[r].turn = 1
  BY Changes DEF StageBucket, RankOf

\* What the other steps do to the ranks.
LEMMA OtherSteps ==
    ASSUME rank \in [Ranks -> RankOf], 1 \in Ranks
    PROVE  /\ \A r \in Ranks : \A c \in rank[r].unsent : SendCall(r, c) =>
                /\ Only(r) /\ SameBucket(r) /\ SameNames(r) /\ rank'[r].pc = rank[r].pc
                /\ rank'[r].unsent = rank[r].unsent \ {c}
                /\ rank'[r].unanswered = rank[r].unanswered \cup {c}
           /\ \A r \in Ranks, e \in Engines :
                /\ LeaveGroup(r, e) => HasAnswers(r, {e} \X {"destroy"})
                /\ HandleEmpty(r, e) => HasAnswers(r, {e} \X {"broadcast"})
                /\ HandleTensor(r, e) => HasAnswers(r, {e} \X {"ipc"})
           /\ \A e \in Engines : HandleCall(e) \/ RestartEngine(e) \/ Serve(e) => UNCHANGED rank
           /\ \A w \in writes : WriteDone(w) => UNCHANGED rank
           /\ \A w \in writes : WriteFails(w) =>
                \/ UNCHANGED rank
                \/ rank[w.rank].pc = "await" /\ (w.rank \in Ranks => Moves(w.rank, "failed"))
           /\ NextCall => UNCHANGED rank \/ Moves(1, IF rank[1].pc = "preparing" THEN "prepared" ELSE "finalized")
           /\ CallUpdate => AllStart("called", "non_expert")
           /\ BarrierConnected => AllAt("connected") /\ AllStart("prepare", "non_expert")
           /\ BarrierPrepared => AllAt("prepared") /\ AllStart("buckets", "non_expert")
           /\ BarrierSent => AllAt("sent") /\
                IF args.transport # "tensor" /\ rank[1].part = "non_expert"
                THEN AllStart("buckets", "expert") ELSE AllStart("finalize", "expert")
           /\ BarrierFinalized => AllAt("finalized") /\ AllStart("idle", "non_expert")
  <1>1. ASSUME NEW r \in Ranks, NEW c \in rank[r].unsent, SendCall(r, c)
        PROVE  /\ Only(r) /\ SameBucket(r) /\ SameNames(r) /\ rank'[r].pc = rank[r].pc
               /\ rank'[r].unsent = rank[r].unsent \ {c}
               /\ rank'[r].unanswered = rank[r].unanswered \cup {c}
    BY <1>1 DEF SendCall, RankOf
  <1>2. ASSUME NEW r \in Ranks, NEW e \in Engines
        PROVE  /\ LeaveGroup(r, e) => HasAnswers(r, {e} \X {"destroy"})
               /\ HandleEmpty(r, e) => HasAnswers(r, {e} \X {"broadcast"})
               /\ HandleTensor(r, e) => HasAnswers(r, {e} \X {"ipc"})
    BY Changes DEF LeaveGroup, HandleEmpty, HandleTensor
  <1>3. /\ \A e \in Engines : HandleCall(e) \/ RestartEngine(e) \/ Serve(e) => UNCHANGED rank
        /\ \A w \in writes : WriteDone(w) => UNCHANGED rank
    BY DEF HandleCall, RestartEngine, Serve, WriteDone
  <1>4. ASSUME NEW w \in writes, WriteFails(w), rank' # rank
        PROVE  rank[w.rank].pc = "await" /\ (w.rank \in Ranks => Moves(w.rank, "failed"))
    BY <1>4, Changes DEF WriteFails
  <1>5. NextCall => UNCHANGED rank \/ Moves(1, IF rank[1].pc = "preparing" THEN "prepared" ELSE "finalized")
    BY Changes DEF NextCall
  <1>6. CallUpdate => AllStart("called", "non_expert")
    BY AllChange DEF CallUpdate
  <1>7. /\ BarrierConnected => AllAt("connected") /\ AllStart("prepare", "non_expert")
        /\ BarrierPrepared => AllAt("prepared") /\ AllStart("buckets", "non_expert")
        /\ BarrierFinalized => AllAt("finalized") /\ AllStart("idle", "non_expert")
    BY AllChange DEF BarrierConnected, BarrierPrepared, BarrierFinalized
  <1>8. BarrierSent => AllAt("sent") /\
            IF args.transport # "tensor" /\ rank[1].part = "non_expert"
            THEN AllStart("buckets", "expert") ELSE AllStart("finalize", "expert")
    BY AllChange DEF BarrierSent
  <1> QED
    BY <1>1, <1>2, <1>3, <1>4, <1>5, <1>6, <1>7, <1>8

(***************************************************************************)
(* PhaseInv.                                                               *)
(***************************************************************************)
\* The rank stays in its phase.
Follows(q) ==
    /\ rank[q].pc = "idle" => rank'[q].pc = "idle"
    /\ rank[q].pc \in Early => rank'[q].pc \in Early
    /\ rank[q].pc \in Sending => rank'[q].pc \in Sending
    /\ rank[q].pc \in Final => rank'[q].pc \in Final

LEMMA TogetherStays ==
    ASSUME Together, line' = line, updating' = updating, \A q \in Ranks : Follows(q)
    PROVE  Together'
  BY LineStays DEF Together, InPhase, Follows

LEMMA BucketsStay ==
    ASSUME line' = line, NEW q, SameBucket(q)
    PROVE  Buckets(q)' = Buckets(q) /\ Bucket(q)' = Bucket(q)
  BY LineStays DEF Buckets, Bucket

LEMMA PlacedStays ==
    ASSUME line' = line, NEW q \in Ranks, Placed(q), rank'[q].pc = rank[q].pc, SameBucket(q),
           rank'[q].turn = rank[q].turn
    PROVE  Placed(q)'
  BY LineStays, BucketsStay DEF Placed

\* The phases are disjoint.
LEMMA Phases ==
    /\ \A pc \in Early : pc \notin Sending /\ pc \notin Final /\ pc # "idle"
    /\ \A pc \in Sending : pc \notin Early /\ pc \notin Final /\ pc # "idle"
    /\ \A pc \in Final : pc \notin Early /\ pc \notin Sending /\ pc # "idle"
  BY DEF Early, Sending, Final

\* One rank goes on within its phase.
LEMMA PhaseMove ==
    ASSUME rank \in [Ranks -> RankOf], 1 \in Ranks, PhaseInv, line' = line, updating' = updating,
           NEW r \in Ranks, Only(r), rank'[r].part = rank[r].part, Follows(r), Placed(r)'
    PROVE  PhaseInv'
  <1>1. \A q \in Ranks : Follows(q)
    BY DEF Follows
  <1>2. Together'
    BY <1>1, TogetherStays DEF PhaseInv
  <1>3. \A q \in Ranks : rank'[q].part = rank[q].part
    OBVIOUS
  <1>4. \A q \in Ranks : rank'[q].pc \in Sending => rank[q].pc \in Sending
    BY <1>1, RankFields, Phases DEF PCs, Follows
  <1>5. ASSUME NEW q \in Ranks, rank'[q].pc \in Sending
        PROVE  rank'[q].part = rank'[1].part /\ rank'[q].part \in Parts
    BY <1>3, <1>4, <1>5 DEF PhaseInv
  <1>6. \A q \in Ranks : Placed(q)'
    BY PlacedStays DEF PhaseInv
  <1> QED
    BY <1>2, <1>5, <1>6, LineStays DEF PhaseInv

\* All ranks stay where they are, or one has calls that are answered.
LEMMA PhaseStays ==
    ASSUME rank \in [Ranks -> RankOf], 1 \in Ranks, PhaseInv, line' = line, updating' = updating,
           \A q \in Ranks : rank'[q].pc = rank[q].pc /\ SameBucket(q) /\ SameNames(q)
    PROVE  PhaseInv'
  <1>1. Together'
    BY TogetherStays DEF PhaseInv, Follows
  <1>2. \A q \in Ranks : Placed(q)'
    BY PlacedStays DEF PhaseInv
  <1> QED
    BY <1>1, <1>2, LineStays DEF PhaseInv

\* All go on together: what they have is that of the start of a part.
LEMMA PhaseBarrier ==
    ASSUME 1 \in Ranks, line' = line, NEW pc, NEW part, AllStart(pc, part),
           \/ ~updating' /\ pc = "idle"
           \/ updating' /\ pc \in {"called", "prepare", "finalize"}
           \/ updating' /\ pc = "buckets" /\ part \in Parts
    PROVE  PhaseInv'
  <1>1. Together'
    BY LineStays DEF Together, InPhase, AllStart, Early, Sending, Final
  <1>2. \A q \in Ranks : Placed(q)'
    BY LineStays DEF Placed, AllStart
  <1>3. \A q \in Ranks : rank'[q].pc \in Sending => rank'[q].part = rank'[1].part /\ rank'[q].part \in Parts
    BY DEF AllStart, Sending
  <1> QED
    BY <1>1, <1>2, <1>3, LineStays DEF PhaseInv

LEMMA Updating ==
    ASSUME PhaseInv, 1 \in Ranks
    PROVE  updating <=> rank[1].pc # "idle"
  BY DEF PhaseInv, Together, InPhase, Early, Sending, Final

LEMMA PhaseStep ==
    ASSUME PlansCover, TypeInv, PhaseInv, CallsInv, [Next]_vars
    PROVE  PhaseInv'
  <1>0. line' = line
    BY LineFixed
  <1>t. /\ rank \in [Ranks -> RankOf] /\ 1 \in Ranks
        /\ \A r \in Ranks : rank[r].bucket \in Counts /\ rank[r].turn \in Counts
    BY RanksOk, RankFields DEF TypeInv, DriverTyped
  <1>1. CASE UNCHANGED vars
    BY <1>1, <1>0, <1>t, PhaseStays DEF vars
  <1>2. ASSUME NEW r \in Ranks,
               ReadEngines(r) \/ LeftGroup(r) \/ JoinedGroup(r) \/ Prepare(r) PROVE PhaseInv'
    <2>1. /\ rank[r].pc \in Early /\ rank'[r].pc \in Early /\ Only(r) /\ rank'[r].part = rank[r].part
          /\ rank'[r].pc = "preparing" => r = 1
      BY <1>2, <1>t, RankSteps DEF Moves, Calls, Early
    <2>2. Placed(r)'
      BY <2>1 DEF Placed, Early
    <2>3. updating' = updating
      BY <1>2 DEF ReadEngines, LeftGroup, JoinedGroup, Prepare
    <2> QED
      BY <2>1, <2>2, <2>3, <1>0, <1>t, PhaseMove, Phases DEF Follows
  <1>3. ASSUME NEW r \in Ranks, Finalize(r) PROVE PhaseInv'
    <2>1. /\ rank[r].pc \in Final /\ rank'[r].pc \in Final /\ Only(r) /\ rank'[r].part = rank[r].part
          /\ rank'[r].pc = "finalizing" => r = 1
      BY <1>3, <1>t, RankSteps DEF Moves, Final
    <2>2. Placed(r)'
      BY <2>1 DEF Placed, Final
    <2> QED
      BY <2>1, <2>2, <1>3, <1>0, <1>t, PhaseMove, Phases DEF Follows, Finalize
  <1>4. ASSUME NEW r \in Ranks,
               \/ StartBucket(r) \/ AcquireLock(r) \/ BucketSent(r) \/ BucketsDone(r)
               \/ StageBucket(r) \/ LoadAndWrite(r) \/ WritesAwaited(r) \/ TransfersWaited(r)
        PROVE  PhaseInv'
    <2>1. rank[r].pc \in Sending /\ rank'[r].pc \in Sending /\ Only(r) /\ rank'[r].part = rank[r].part
      BY <1>4, <1>t, RankSteps, StageSteps DEF Moves, Calls, Advances, Sending
    <2>2. rank[r].part \in Parts /\ Placed(r)
      BY <2>1 DEF PhaseInv
    <2>3. Len(Buckets(r)) \in Nat /\ DOMAIN Buckets(r) = 1..Len(Buckets(r))
      BY <2>1, PlansOk
    <2>4. rank[r].bucket \in Nat /\ rank[r].bucket > 0 /\ rank[r].turn \in Nat /\ rank[r].turn > 0
      BY <1>t, CountsOk
    <2>5. IsSource(r) /\ args.transport = "p2p" => Len(TargetRanks(r)) \in Nat \ {0}
      <3>1. IsSource(r) /\ args.transport = "p2p" => TargetRanks(r) \in Seq(Gpus) \ {<<>>}
        BY DEF PlansCover
      <3> QED
        BY <3>1
    <2>f. /\ SameBucket(r) => Buckets(r)' = Buckets(r)
          /\ args' = args /\ (IsSource(r)' <=> IsSource(r)) /\ TargetRanks(r)' = TargetRanks(r)
      BY <1>0, BucketsStay, LineStays
    <2>6. Placed(r)'
      <3>1. CASE StartBucket(r)
        <4>1. \/ rank'[r].pc = "buckets"
              \/ IsSource(r) /\ SameBucket(r) /\ rank'[r].pc \in {"acquire", "send"}
                 /\ args.transport # "p2p" /\ rank[r].bucket <= Len(Buckets(r))
                 /\ (rank'[r].pc = "acquire" => args.transport = "broadcast")
          BY <3>1, <1>t, RankSteps DEF Moves, Calls, Advances
        <4> QED
          BY <4>1, <2>3, <2>4, <2>f DEF Placed
      <3>7. CASE AcquireLock(r)
        <4>1. SameBucket(r) /\ rank[r].pc = "acquire" /\ rank'[r].pc = "send"
          BY <3>7, <1>t, RankSteps DEF Calls
        <4> QED
          BY <4>1, <2>2, <2>f DEF Placed
      <3>2. CASE BucketSent(r) \/ BucketsDone(r)
        BY <3>2, <2>2, <2>3, <2>4, <1>0, <1>t, RankSteps, BucketsStay, LineStays
        DEF Placed, Moves, Calls, Advances
      <3>3. CASE StageBucket(r)
        <4>1. /\ IsSource(r) /\ args.transport = "p2p" /\ rank[r].bucket <= Len(Buckets(r))
              /\ \/ rank'[r].pc = "buckets"
                 \/ SameBucket(r) /\ rank'[r].pc = "load" /\ rank'[r].turn = 1
          BY <3>3, <1>t, StageSteps DEF Advances
        <4> QED
          BY <4>1, <2>3, <2>4, <2>5, <2>f DEF Placed
      <3>4. CASE LoadAndWrite(r)
        <4>1. /\ rank[r].pc = "load"
              /\ \/ rank'[r].pc = "buckets"
                 \/ /\ SameBucket(r) /\ rank'[r].pc = "await" /\ rank'[r].turn = rank[r].turn
                    /\ rank[r].turn # Len(TargetRanks(r))
          BY <3>4, <1>t, RankSteps DEF Advances, Moves
        <4>2. /\ IsSource(r) /\ rank[r].bucket \in DOMAIN Buckets(r) /\ args.transport = "p2p"
              /\ rank[r].turn <= Len(TargetRanks(r))
          BY <4>1, <2>2 DEF Placed
        <4> QED
          BY <4>1, <4>2, <2>4, <2>5, <2>f DEF Placed
      <3>5. CASE WritesAwaited(r)
        <4>1. /\ rank[r].pc = "await" /\ rank'[r].pc = "load" /\ SameBucket(r)
              /\ rank'[r].turn = rank[r].turn + 1
          BY <3>5, <1>t, RankSteps
        <4>2. /\ IsSource(r) /\ rank[r].bucket \in DOMAIN Buckets(r) /\ args.transport = "p2p"
              /\ rank[r].turn < Len(TargetRanks(r))
          BY <4>1, <2>2 DEF Placed
        <4> QED
          BY <4>1, <4>2, <2>4, <2>5, <2>f DEF Placed
      <3>6. CASE TransfersWaited(r)
        BY <3>6, <2>2, <2>3, <2>4, <1>0, <1>t, RankSteps, BucketsStay, LineStays DEF Placed, Moves
      <3> QED
        BY <1>4, <3>1, <3>2, <3>3, <3>4, <3>5, <3>6, <3>7
    <2>7. updating' = updating
      BY <1>4 DEF StartBucket, AcquireLock, BucketSent, BucketsDone, StageBucket, LoadAndWrite,
         WritesAwaited, TransfersWaited
    <2> QED
      BY <2>1, <2>6, <2>7, <1>0, <1>t, PhaseMove, Phases DEF Follows
  <1>5. ASSUME NEW r \in Ranks, JoinGroup(r) \/ Broadcast(r) \/ \E c \in rank[r].unsent : SendCall(r, c)
        PROVE  PhaseInv'
    <2>1. \A q \in Ranks : rank'[q].pc = rank[q].pc /\ SameBucket(q) /\ SameNames(q)
      <3>1. CASE JoinGroup(r) \/ Broadcast(r)
        BY <3>1, <1>t, RankSteps DEF HasAnswers
      <3>2. CASE \E c \in rank[r].unsent : SendCall(r, c)
        BY <3>2, <1>t, OtherSteps
      <3> QED
        BY <1>5, <3>1, <3>2
    <2>2. updating' = updating
      BY <1>5 DEF JoinGroup, Broadcast, SendCall
    <2> QED
      BY <2>1, <2>2, <1>0, <1>t, PhaseStays
  <1>6. ASSUME NEW e \in Engines, NEW r \in Ranks,
               LeaveGroup(r, e) \/ HandleEmpty(r, e) \/ HandleTensor(r, e) PROVE PhaseInv'
    <2>1. \A q \in Ranks : rank'[q].pc = rank[q].pc /\ SameBucket(q) /\ SameNames(q)
      BY <1>6, <1>t, OtherSteps DEF HasAnswers
    <2>2. updating' = updating
      BY <1>6 DEF LeaveGroup, HandleEmpty, HandleTensor
    <2> QED
      BY <2>1, <2>2, <1>0, <1>t, PhaseStays
  <1>7. ASSUME NEW e \in Engines, HandleCall(e) \/ RestartEngine(e) \/ Serve(e) PROVE PhaseInv'
    <2>1. updating' = updating /\ rank' = rank
      BY <1>7 DEF HandleCall, RestartEngine, Serve
    <2> QED
      BY <2>1, <1>0, <1>t, PhaseStays
  <1>8. ASSUME NEW w \in writes, WriteDone(w) \/ WriteFails(w) PROVE PhaseInv'
    <2>1. updating' = updating
      BY <1>8 DEF WriteDone, WriteFails
    <2>2. CASE rank' = rank
      BY <2>1, <2>2, <1>0, <1>t, PhaseStays
    <2>3. CASE rank' # rank
      <3>1. WriteFails(w) /\ rank[w.rank].pc = "await"
        BY <2>3, <1>8, <1>t, OtherSteps
      <3>2. CASE w.rank \in Ranks
        <4>1. Moves(w.rank, "failed")
          BY <3>1, <3>2, <2>3, <1>t, OtherSteps
        <4>2. Placed(w.rank)'
          BY <4>1 DEF Moves, Placed
        <4> QED
          BY <4>1, <4>2, <3>1, <3>2, <2>1, <1>0, <1>t, PhaseMove, Phases DEF Follows, Moves, Sending
      <3>3. CASE w.rank \notin Ranks
        BY <3>3, <2>3, <3>1, <1>t DEF WriteFails
      <3> QED
        BY <3>2, <3>3
    <2> QED
      BY <2>2, <2>3
  <1>9. CASE NextCall
    <2>1. updating' = updating
      BY <1>9 DEF NextCall
    <2>2. CASE rank' = rank
      BY <2>1, <2>2, <1>0, <1>t, PhaseStays
    <2>3. CASE rank' # rank
      <3>1. rank[1].pc \in {"preparing", "finalizing"}
        BY <1>9 DEF NextCall, CallsInv
      <3>2. Moves(1, IF rank[1].pc = "preparing" THEN "prepared" ELSE "finalized")
        BY <1>9, <2>3, <1>t, OtherSteps
      <3>3. Placed(1)'
        BY <3>2 DEF Moves, Placed
      <3> QED
        BY <3>1, <3>2, <3>3, <2>1, <1>0, <1>t, PhaseMove, Phases DEF Follows, Moves, Early, Final
    <2> QED
      BY <2>2, <2>3
  <1>10. CASE CallUpdate
    BY <1>10, <1>0, <1>t, OtherSteps, PhaseBarrier DEF CallUpdate
  <1>11. CASE BarrierConnected \/ BarrierPrepared \/ BarrierSent \/ BarrierFinalized
    <2>1. updating
      BY <1>11, <1>t, Updating DEF BarrierConnected, BarrierPrepared, BarrierSent, BarrierFinalized, AllAt
    <2>2. CASE BarrierConnected
      BY <2>1, <2>2, <1>0, <1>t, OtherSteps, PhaseBarrier DEF BarrierConnected
    <2>3. CASE BarrierPrepared
      BY <2>1, <2>3, <1>0, <1>t, OtherSteps, PhaseBarrier DEF BarrierPrepared, Parts
    <2>4. CASE BarrierSent
      BY <2>1, <2>4, <1>0, <1>t, OtherSteps, PhaseBarrier DEF BarrierSent, Parts
    <2>5. CASE BarrierFinalized
      BY <2>5, <1>0, <1>t, OtherSteps, PhaseBarrier DEF BarrierFinalized
    <2> QED
      BY <1>11, <2>2, <2>3, <2>4, <2>5
  <1> QED
    BY Steps, <1>1, <1>2, <1>3, <1>4, <1>5, <1>6, <1>7, <1>8, <1>9, <1>10, <1>11

(***************************************************************************)
(* VersionInv.                                                             *)
(***************************************************************************)
\* Rank q does not go past the announcement of a version.
Abreast(q) ==
    /\ Ahead(q)' = Ahead(q)
    /\ rank'[q].pc \in Unprepared => rank[q].pc \in Unprepared

LEMMA VersionStays ==
    ASSUME VersionInv, 1 \in Ranks, line' = line, weight_version' = weight_version,
           \A q \in Ranks : Abreast(q)
    PROVE  VersionInv'
  BY LineStays DEF VersionInv, Abreast

LEMMA AbreastMove ==
    ASSUME NEW r \in Ranks, Only(r), Abreast(r)
    PROVE  \A q \in Ranks : Abreast(q)
  BY DEF Abreast, Ahead

LEMMA VersionStep ==
    ASSUME TypeInv, PhaseInv, CallsInv, VersionInv, [Next]_vars
    PROVE  VersionInv'
  <1>0. line' = line
    BY LineFixed
  <1>t. /\ rank \in [Ranks -> RankOf] /\ 1 \in Ranks /\ weight_version \in [Ranks -> Nat]
        /\ args.updates \in Nat
    BY RanksOk DEF TypeInv, DriverTyped
  <1>1. CASE UNCHANGED vars
    BY <1>1, <1>0, <1>t, VersionStays DEF vars, Abreast, Ahead
  <1>2. ASSUME NEW r \in Ranks,
               \/ ReadEngines(r) \/ LeftGroup(r) \/ JoinedGroup(r) \/ Finalize(r)
               \/ StartBucket(r) \/ AcquireLock(r) \/ BucketSent(r) \/ BucketsDone(r)
               \/ StageBucket(r) \/ LoadAndWrite(r) \/ WritesAwaited(r) \/ TransfersWaited(r)
        PROVE  VersionInv'
    <2>1. weight_version' = weight_version
      BY <1>2 DEF ReadEngines, LeftGroup, JoinedGroup, Finalize, StartBucket, AcquireLock, BucketSent,
         BucketsDone, StageBucket, LoadAndWrite, WritesAwaited, TransfersWaited
    <2>2. Only(r) /\ Abreast(r)
      <3>1. CASE ReadEngines(r) \/ LeftGroup(r) \/ JoinedGroup(r) \/ Finalize(r)
        <4>1. /\ Only(r)
              /\ \/ rank[r].pc \in Unprepared /\ rank'[r].pc \in Unprepared
                 \/ rank[r].pc \in Final /\ rank'[r].pc \in Final
          BY <3>1, <1>t, RankSteps DEF Moves, Calls, Unprepared, Final
        <4> QED
          BY <4>1 DEF Abreast, Ahead, Unprepared, Final
      <3>2. CASE \/ StartBucket(r) \/ AcquireLock(r) \/ BucketSent(r) \/ BucketsDone(r)
                 \/ StageBucket(r) \/ LoadAndWrite(r) \/ WritesAwaited(r) \/ TransfersWaited(r)
        <4>1. Only(r) /\ rank[r].pc \in Sending /\ rank'[r].pc \in Sending
          BY <3>2, <1>t, RankSteps, StageSteps DEF Moves, Calls, Advances, Sending
        <4> QED
          BY <4>1 DEF Abreast, Ahead, Unprepared, Sending
      <3> QED
        BY <1>2, <3>1, <3>2
    <2> QED
      BY <2>1, <2>2, <1>0, <1>t, AbreastMove, VersionStays
  <1>3. ASSUME NEW r \in Ranks, Prepare(r) PROVE VersionInv'
    <2>1. /\ rank[r].pc = "prepare" /\ Only(r) /\ rank'[r].pc \in {"preparing", "prepared"}
          /\ weight_version' = [weight_version EXCEPT ![r] = weight_version[r] + 1]
      BY <1>3, <1>t, RankSteps DEF Moves, Prepare
    <2>2. Ahead(r) = 0 /\ Ahead(r)' = 1 /\ \A q \in Ranks : q # r => Ahead(q)' = Ahead(q)
      BY <2>1 DEF Ahead
    <2>3. \A q \in Ranks : Ahead(q) \in Int
      BY DEF Ahead
    <2>4. \A q \in Ranks : weight_version'[q] + Ahead(1)' = weight_version'[1] + Ahead(q)'
      BY <2>1, <2>2, <2>3, <1>t DEF VersionInv
    <2>5. /\ weight_version'[1] <= args.updates
          /\ rank'[1].pc \in Unprepared => weight_version'[1] < args.updates
      <3>1. CASE r = 1
        BY <3>1, <2>1, <1>t DEF VersionInv, Unprepared
      <3>2. CASE r # 1
        BY <3>2, <2>1, <1>t DEF VersionInv, Unprepared
      <3> QED
        BY <3>1, <3>2
    <2> QED
      BY <2>4, <2>5, <1>0, LineStays DEF VersionInv
  <1>4. ASSUME NEW r \in Ranks, JoinGroup(r) \/ Broadcast(r) \/ \E c \in rank[r].unsent : SendCall(r, c)
        PROVE  VersionInv'
    <2>1. \A q \in Ranks : rank'[q].pc = rank[q].pc
      <3>1. CASE JoinGroup(r) \/ Broadcast(r)
        BY <3>1, <1>t, RankSteps DEF HasAnswers
      <3>2. CASE \E c \in rank[r].unsent : SendCall(r, c)
        BY <3>2, <1>t, OtherSteps
      <3> QED
        BY <1>4, <3>1, <3>2
    <2>2. weight_version' = weight_version
      BY <1>4 DEF JoinGroup, Broadcast, SendCall
    <2> QED
      BY <2>1, <2>2, <1>0, <1>t, VersionStays DEF Abreast, Ahead
  <1>5. ASSUME NEW e \in Engines, NEW r \in Ranks,
               LeaveGroup(r, e) \/ HandleEmpty(r, e) \/ HandleTensor(r, e) PROVE VersionInv'
    <2>1. \A q \in Ranks : rank'[q].pc = rank[q].pc
      BY <1>5, <1>t, OtherSteps DEF HasAnswers
    <2>2. weight_version' = weight_version
      BY <1>5 DEF LeaveGroup, HandleEmpty, HandleTensor
    <2> QED
      BY <2>1, <2>2, <1>0, <1>t, VersionStays DEF Abreast, Ahead
  <1>6. ASSUME NEW e \in Engines, HandleCall(e) \/ RestartEngine(e) \/ Serve(e) PROVE VersionInv'
    <2>1. weight_version' = weight_version /\ rank' = rank
      BY <1>6 DEF HandleCall, RestartEngine, Serve
    <2> QED
      BY <2>1, <1>0, <1>t, VersionStays DEF Abreast, Ahead
  <1>7. ASSUME NEW w \in writes, WriteDone(w) \/ WriteFails(w) PROVE VersionInv'
    <2>1. weight_version' = weight_version
      BY <1>7 DEF WriteDone, WriteFails
    <2>2. CASE rank' = rank
      BY <2>1, <2>2, <1>0, <1>t, VersionStays DEF Abreast, Ahead
    <2>3. CASE rank' # rank /\ w.rank \in Ranks
      <3>1. rank[w.rank].pc = "await" /\ Moves(w.rank, "failed")
        BY <2>3, <1>7, <1>t, OtherSteps
      <3> QED
        BY <3>1, <2>1, <2>3, <1>0, <1>t, AbreastMove, VersionStays DEF Moves, Abreast, Ahead, Unprepared
    <2>4. CASE w.rank \notin Ranks
      BY <2>4, <2>2, <1>7, <1>t DEF WriteDone, WriteFails
    <2> QED
      BY <2>2, <2>3, <2>4
  <1>8. CASE NextCall
    <2>1. weight_version' = weight_version
      BY <1>8 DEF NextCall
    <2>2. CASE rank' = rank
      BY <2>1, <2>2, <1>0, <1>t, VersionStays DEF Abreast, Ahead
    <2>3. CASE rank' # rank
      <3>1. /\ rank[1].pc \in {"preparing", "finalizing"}
            /\ Moves(1, IF rank[1].pc = "preparing" THEN "prepared" ELSE "finalized")
        BY <1>8, <2>3, <1>t, OtherSteps DEF NextCall, CallsInv
      <3> QED
        BY <3>1, <2>1, <1>0, <1>t, AbreastMove, VersionStays DEF Moves, Abreast, Ahead, Unprepared
    <2> QED
      BY <2>2, <2>3
  <1>9. CASE CallUpdate
    <2>1. AllStart("called", "non_expert") /\ weight_version[1] < args.updates
          /\ weight_version' = weight_version /\ ~updating
      BY <1>9, <1>t, OtherSteps DEF CallUpdate
    <2>2. \A q \in Ranks : Ahead(q) = 0 /\ Ahead(q)' = 0
      BY <2>1 DEF Ahead, AllStart, PhaseInv, Together, InPhase
    <2> QED
      BY <2>1, <2>2, <1>0, <1>t, LineStays DEF VersionInv
  <1>10. CASE BarrierConnected
    <2>1. AllAt("connected") /\ AllStart("prepare", "non_expert") /\ weight_version' = weight_version
      BY <1>10, <1>t, OtherSteps DEF BarrierConnected
    <2> QED
      BY <2>1, <1>0, <1>t, VersionStays DEF Abreast, Ahead, AllAt, AllStart, Unprepared
  <1>11. CASE BarrierPrepared
    <2>1. AllAt("prepared") /\ AllStart("buckets", "non_expert") /\ weight_version' = weight_version
      BY <1>11, <1>t, OtherSteps DEF BarrierPrepared
    <2>2. \A q \in Ranks : Ahead(q) = 1 /\ Ahead(q)' = 0
      BY <2>1 DEF Ahead, AllStart, AllAt
    <2>3. rank'[1].pc = "buckets"
      BY <2>1, <1>t DEF AllStart
    <2>4. \A q \in Ranks : weight_version[q] = weight_version[1]
      BY <2>2, <1>t DEF VersionInv
    <2> QED
      BY <2>1, <2>2, <2>3, <2>4, <1>0, <1>t, LineStays DEF VersionInv, Unprepared
  <1>12. CASE BarrierSent \/ BarrierFinalized
    <2>1. \/ AllAt("sent") /\ \E pc \in {"buckets", "finalize"}, part \in {"expert"} : AllStart(pc, part)
          \/ AllAt("finalized") /\ AllStart("idle", "non_expert")
      BY <1>12, <1>t, OtherSteps
    <2>2. weight_version' = weight_version
      BY <1>12 DEF BarrierSent, BarrierFinalized
    <2> QED
      BY <2>1, <2>2, <1>0, <1>t, VersionStays DEF Abreast, Ahead, AllAt, AllStart, Unprepared
  <1> QED
    BY Steps, <1>1, <1>2, <1>3, <1>4, <1>5, <1>6, <1>7, <1>8, <1>9, <1>10, <1>11, <1>12

(***************************************************************************)
(* SendInv and InboxInv.                                                   *)
(***************************************************************************)
LEMMA SendsStay ==
    ASSUME line' = line, NEW q \in Ranks, SendsOk(q), rank'[q].pc = rank[q].pc, SameCalls(q)
    PROVE  SendsOk(q)'
  BY LineStays DEF SendsOk

LEMMA SendsEnd ==
    ASSUME NEW q \in Ranks, rank'[q].unsent = {}, rank'[q].unanswered = {}
    PROVE  SendsOk(q)'
  BY DEF SendsOk

LEMMA SendsMove ==
    ASSUME line' = line, SendInv, NEW r \in Ranks, Only(r), SendsOk(r)'
    PROVE  SendInv'
  BY SendsStay, LineStays DEF SendInv

LEMMA SendsAnswered ==
    ASSUME line' = line, SendInv, NEW r \in Ranks, NEW A, HasAnswers(r, A)
    PROVE  SendInv'
  <1>1. SendsOk(r)'
    BY LineStays DEF SendsOk, SendInv, HasAnswers
  <1> QED
    BY <1>1, SendsMove DEF HasAnswers

LEMMA SendsStart ==
    ASSUME line' = line, NEW pc, NEW part, AllStart(pc, part)
    PROVE  SendInv'
  BY SendsEnd, LineStays DEF SendInv, AllStart

LEMMA SendStep ==
    ASSUME TypeInv, CallsInv, SendInv, [Next]_vars
    PROVE  SendInv'
  <1>0. line' = line
    BY LineFixed
  <1>t. rank \in [Ranks -> RankOf] /\ 1 \in Ranks
    BY RanksOk DEF TypeInv, DriverTyped
  <1>1. CASE rank' = rank
    BY <1>1, <1>0, SendsStay, LineStays DEF SendInv
  <1>2. ASSUME NEW r \in Ranks,
               \/ JoinedGroup(r) \/ Prepare(r) \/ Finalize(r) \/ BucketSent(r) \/ BucketsDone(r)
               \/ StageBucket(r) \/ LoadAndWrite(r) \/ WritesAwaited(r) \/ TransfersWaited(r)
        PROVE  SendInv'
    <2>1. Only(r) /\ SameCalls(r)
          /\ (AllAnswered(r) \/ rank[r].pc \notin {"destroy", "init", "send"})
      BY <1>2, <1>t, RankSteps, StageSteps DEF Moves, Advances
    <2>2. rank'[r].unsent = {} /\ rank'[r].unanswered = {}
      BY <2>1 DEF SendInv, SendsOk, AllAnswered
    <2> QED
      BY <2>1, <2>2, <1>0, SendsEnd, SendsMove
  <1>3. ASSUME NEW r \in Ranks, ReadEngines(r) \/ LeftGroup(r) PROVE SendInv'
    <2>1. rank[r].unsent = {} /\ rank[r].unanswered = {} /\ Only(r) /\ rank'[r].unanswered = {}
      BY <1>3, <1>t, RankSteps DEF Moves, Calls, SendInv, SendsOk, AllAnswered
    <2>2. \/ rank'[r].unsent = {}
          \/ \E pc \in {"destroy", "init"} : rank'[r].pc = pc /\ rank'[r].unsent = Receivers(r) \X {pc}
      BY <1>3, <2>1, <1>t, RankSteps DEF Moves, Calls
    <2>3. SendsOk(r)'
      BY <2>1, <2>2 DEF SendsOk
    <2> QED
      BY <2>1, <2>3, <1>0, SendsMove
  <1>4. ASSUME NEW r \in Ranks, StartBucket(r) \/ AcquireLock(r) PROVE SendInv'
    <2>1. rank[r].unsent = {} /\ rank[r].unanswered = {} /\ Only(r) /\ rank'[r].unanswered = {}
      BY <1>4, <1>t, RankSteps DEF Moves, Calls, Advances, SendInv, SendsOk
    <2>2. \/ rank'[r].unsent = {}
          \/ rank'[r].pc = "send" /\ rank'[r].unsent \subseteq Due(r)
      BY <1>4, <2>1, <1>t, RankSteps DEF Moves, Calls, Advances, Due
    <2>3. SendsOk(r)'
      BY <2>1, <2>2, <1>0, LineStays DEF SendsOk
    <2> QED
      BY <2>1, <2>3, <1>0, SendsMove
  <1>5. ASSUME NEW r \in Ranks, JoinGroup(r) \/ Broadcast(r) PROVE SendInv'
    BY <1>5, <1>0, <1>t, RankSteps, SendsAnswered
  <1>6. ASSUME NEW r \in Ranks, NEW c \in rank[r].unsent, SendCall(r, c) PROVE SendInv'
    <2>1. /\ Only(r) /\ rank'[r].pc = rank[r].pc
          /\ rank'[r].unsent = rank[r].unsent \ {c}
          /\ rank'[r].unanswered = rank[r].unanswered \cup {c}
      BY <1>6, <1>t, OtherSteps
    <2>2. SendsOk(r)'
      BY <2>1, <1>0, LineStays DEF SendsOk, SendInv
    <2> QED
      BY <2>1, <2>2, <1>0, SendsMove
  <1>7. ASSUME NEW e \in Engines, NEW r \in Ranks,
               LeaveGroup(r, e) \/ HandleEmpty(r, e) \/ HandleTensor(r, e) PROVE SendInv'
    BY <1>7, <1>0, <1>t, OtherSteps, SendsAnswered
  <1>8. ASSUME NEW w \in writes, WriteDone(w) \/ WriteFails(w) PROVE SendInv'
    <2>1. rank' # rank => rank[w.rank].pc = "await" /\ (w.rank \in Ranks => Moves(w.rank, "failed"))
      BY <1>8, <1>t, OtherSteps
    <2>2. CASE w.rank \in Ranks /\ rank' # rank
      <3>1. rank'[w.rank].unsent = {} /\ rank'[w.rank].unanswered = {} /\ Only(w.rank)
        BY <2>1, <2>2 DEF Moves, SendInv, SendsOk
      <3> QED
        BY <3>1, <2>2, <1>0, SendsEnd, SendsMove
    <2>3. CASE w.rank \notin Ranks
      BY <2>3, <1>1, <1>8, <1>t DEF WriteDone, WriteFails
    <2> QED
      BY <2>2, <2>3, <1>1
  <1>9. CASE NextCall
    <2>1. CASE rank' # rank
      <3>1. /\ rank[1].pc \in {"preparing", "finalizing"} /\ Only(1) /\ SameCalls(1)
        BY <1>9, <2>1, <1>t, OtherSteps DEF NextCall, CallsInv, Moves
      <3>2. rank'[1].unsent = {} /\ rank'[1].unanswered = {}
        BY <3>1, <1>t DEF SendInv, SendsOk
      <3> QED
        BY <3>1, <3>2, <1>0, <1>t, SendsEnd, SendsMove
    <2> QED
      BY <2>1, <1>1
  <1>10. CASE CallUpdate \/ BarrierConnected \/ BarrierPrepared \/ BarrierSent \/ BarrierFinalized
    <2>1. \E pc, part : AllStart(pc, part)
      BY <1>10, <1>t, OtherSteps
    <2> QED
      BY <2>1, <1>0, SendsStart
  <1>11. ASSUME NEW e \in Engines, HandleCall(e) \/ RestartEngine(e) \/ Serve(e) PROVE SendInv'
    BY <1>11, <1>1, <1>t, OtherSteps
  <1> QED
    BY Steps, <1>1, <1>2, <1>3, <1>4, <1>5, <1>6, <1>7, <1>8, <1>9, <1>10, <1>11 DEF vars

\* A rank that waits for an answer goes on waiting, with its bucket.
Waits(q) == rank[q].pc = "send" /\ rank[q].unanswered # {} =>
    /\ rank'[q].pc = "send" /\ SameBucket(q)
    /\ \A a \in rank[q].unanswered : a \in rank'[q].unanswered

LEMMA CallTyped ==
    ASSUME TypeInv, NEW e \in Engines
    PROVE  /\ inbox[e] \in Seq(CallOf) /\ Len(inbox[e]) \in Nat
           /\ \A i \in 1..Len(inbox[e]) :
                inbox[e][i] \in CallOf /\ inbox[e][i].rank \in Ranks /\ inbox[e][i].kind \in Kinds
  <1>1. inbox[e] \in Seq(CallOf)
    BY DEF TypeInv
  <1>2. \A i \in 1..Len(inbox[e]) : inbox[e][i] \in CallOf
    BY <1>1
  <1> QED
    BY <1>1, <1>2 DEF CallOf

LEMMA InboxStays ==
    ASSUME TypeInv, InboxInv, line' = line, inbox' = inbox, \A q \in Ranks : Waits(q)
    PROVE  InboxInv'
  <1>1. ASSUME NEW e \in Engines, NEW i \in 1..Len(inbox[e]), inbox[e][i].kind \in Carriers
        PROVE  Expected(e, inbox[e][i])' /\ Unique(inbox[e], i)
    <2>1. Expected(e, inbox[e][i]) /\ Unique(inbox[e], i)
      BY <1>1 DEF InboxInv
    <2>2. inbox[e][i].rank \in Ranks
      BY CallTyped
    <2>3. Waits(inbox[e][i].rank) /\ Bucket(inbox[e][i].rank)' = Bucket(inbox[e][i].rank)
      BY <2>1, <2>2, BucketsStay DEF Expected, Waits
    <2> QED
      BY <2>1, <2>2, <2>3 DEF Expected, Waits
  <1> QED
    BY <1>1, LineStays DEF InboxInv, Unique

\* The call is expected after the step as well, where buckets stay.
StillExpected(e, call) ==
    /\ rank'[call.rank].pc = "send"
    /\ <<e, call.kind>> \in rank'[call.rank].unanswered
    /\ call.names = NamesOf(Bucket(call.rank))

LEMMA InboxFrom ==
    ASSUME TypeInv', line' = line, \A q \in Ranks : Bucket(q)' = Bucket(q),
           \A e \in Engines : \A i \in 1..Len(inbox'[e]) : inbox'[e][i].kind \in Carriers =>
                StillExpected(e, inbox'[e][i]) /\ Unique(inbox'[e], i)
    PROVE  InboxInv'
  <1>1. ASSUME NEW e \in Engines, NEW i \in 1..Len(inbox'[e]), inbox'[e][i].kind \in Carriers
        PROVE  Expected(e, inbox[e][i])' /\ Unique(inbox'[e], i)
    <2>1. StillExpected(e, inbox'[e][i]) /\ Unique(inbox'[e], i)
      BY <1>1
    <2>2. inbox' \in [Engines -> Seq(CallOf)']
      BY LineStays DEF TypeInv
    <2>3. inbox'[e] \in Seq(CallOf')
      BY <2>2
    <2>4. inbox'[e][i] \in CallOf'
      BY <2>3
    <2>5. inbox'[e][i].rank \in Ranks
      BY <2>4, LineStays DEF CallOf
    <2>6. Bucket(inbox[e][i].rank)' = Bucket(inbox'[e][i].rank)
      BY <2>5
    <2> QED
      BY <2>1, <2>6 DEF StillExpected, Expected
  <1> QED
    BY <1>1, LineStays DEF InboxInv, Unique

\* Engines answer the calls they have handled.
LEMMA InboxHandled ==
    ASSUME TypeInv, TypeInv', InboxInv, line' = line, NEW r \in Ranks,
           NEW E, E \subseteq Engines, NEW kind,
           \A e \in E : Handles(e, r, kind), Handled(E), HasAnswers(r, E \X {kind})
    PROVE  InboxInv'
  <1>0. \A q \in Ranks : Bucket(q)' = Bucket(q)
    BY BucketsStay DEF HasAnswers
  <1>1. ASSUME NEW e \in Engines, NEW call, call.rank \in Ranks, Expected(e, call),
               <<e, call.kind>> \notin E \X {kind} \/ call.rank # r
        PROVE  StillExpected(e, call)
    BY <1>1 DEF HasAnswers, Expected, StillExpected
  <1>2. ASSUME NEW e \in Engines, e \notin E, NEW i \in 1..Len(inbox'[e]),
               inbox'[e][i].kind \in Carriers
        PROVE  StillExpected(e, inbox'[e][i]) /\ Unique(inbox'[e], i)
    <2>1. inbox'[e] = inbox[e]
      BY <1>2 DEF Handled
    <2>2. Expected(e, inbox[e][i]) /\ Unique(inbox[e], i) /\ inbox[e][i].rank \in Ranks
      BY <1>2, <2>1, CallTyped DEF InboxInv
    <2>3. <<e, inbox[e][i].kind>> \notin E \X {kind}
      BY <1>2
    <2> QED
      BY <1>1, <2>1, <2>2, <2>3
  <1>3. ASSUME NEW e \in E, NEW i \in 1..Len(inbox'[e]), inbox'[e][i].kind \in Carriers
        PROVE  StillExpected(e, inbox'[e][i]) /\ Unique(inbox'[e], i)
    <2>1. e \in Engines /\ inbox[e] # <<>> /\ inbox'[e] = Tail(inbox[e])
          /\ inbox[e][1].rank = r /\ inbox[e][1].kind = kind
      BY DEF Handled, Handles
    <2>2. Len(inbox[e]) \in Nat \ {0} /\ Len(inbox'[e]) = Len(inbox[e]) - 1
          /\ \A j \in 1..Len(inbox'[e]) : inbox'[e][j] = inbox[e][j + 1] /\ j + 1 \in 1..Len(inbox[e])
      BY <2>1, CallTyped
    <2>3. /\ Expected(e, inbox[e][i + 1]) /\ inbox[e][i + 1].rank \in Ranks
          /\ \A j \in 1..Len(inbox[e]) : SameCall(inbox[e][i + 1], inbox[e][j]) => j = i + 1
      BY <1>3, <2>1, <2>2, CallTyped DEF InboxInv, Unique
    <2>4. 1 \in 1..Len(inbox[e]) /\ i + 1 # 1
      BY <2>2
    <2>5. inbox[e][i + 1].rank # r \/ inbox[e][i + 1].kind # kind
      BY <2>1, <2>3, <2>4 DEF SameCall
    <2>6. StillExpected(e, inbox[e][i + 1])
      BY <1>1, <2>1, <2>3, <2>5
    <2>7. ASSUME NEW j \in 1..Len(inbox'[e]), SameCall(inbox'[e][i], inbox'[e][j]) PROVE j = i
      BY <2>2, <2>3, <2>7
    <2> QED
      BY <2>2, <2>6, <2>7 DEF Unique
  <1> QED
    BY <1>0, <1>2, <1>3, InboxFrom

\* A call goes into the inbox of its engine.
LEMMA InboxSent ==
    ASSUME TypeInv, TypeInv', SendInv, InboxInv, line' = line, NEW r \in Ranks,
           NEW c \in rank[r].unsent, SendCall(r, c)
    PROVE  InboxInv'
  <1> DEFINE call == [rank |-> r, kind |-> c[2],
                      names |-> IF c[2] \in {"broadcast", "ipc"} THEN NamesOf(Bucket(r)) ELSE {}]
             e == c[1]
             n == Len(inbox[e])
  <1>t. /\ rank \in [Ranks -> RankOf] /\ 1 \in Ranks /\ c \in Engines \X Kinds
        /\ inbox \in [Engines -> Seq(CallOf)]
    BY RanksOk, RankFields DEF TypeInv, DriverTyped, CallSets
  <1>1. /\ Only(r) /\ SameBucket(r) /\ rank'[r].pc = rank[r].pc
        /\ rank'[r].unanswered = rank[r].unanswered \cup {c} /\ c \notin rank[r].unanswered
    BY <1>t, OtherSteps DEF SendInv, SendsOk
  <1>2. /\ inbox'[e] = Append(inbox[e], call)
        /\ \A f \in Engines : f # e => inbox'[f] = inbox[f]
    BY <1>t DEF SendCall
  <1>3. \A q \in Ranks : Bucket(q)' = Bucket(q)
    BY <1>1, BucketsStay
  <1>4. \A f \in Engines : \A x : x.rank \in Ranks /\ Expected(f, x) => StillExpected(f, x)
    BY <1>1 DEF Expected, StillExpected
  <1>5. ASSUME NEW f \in Engines, f # e, NEW i \in 1..Len(inbox'[f]), inbox'[f][i].kind \in Carriers
        PROVE  StillExpected(f, inbox'[f][i]) /\ Unique(inbox'[f], i)
    <2>1. inbox'[f] = inbox[f]
      BY <1>2, <1>5
    <2>2. Expected(f, inbox[f][i]) /\ Unique(inbox[f], i) /\ inbox[f][i].rank \in Ranks
      BY <1>5, <2>1, CallTyped DEF InboxInv
    <2> QED
      BY <1>4, <2>1, <2>2
  <1>6. e \in Engines /\ n \in Nat /\ Len(inbox'[e]) = n + 1 /\ inbox'[e][n + 1] = call
        /\ \A i \in 1..n : inbox'[e][i] = inbox[e][i]
    <2>1. e \in Engines /\ inbox[e] \in Seq(CallOf)
      BY <1>t, CallTyped
    <2> HIDE DEF call, e
    <2> QED
      BY <1>2, <2>1
  <1>7. call.kind \in Carriers => \A i \in 1..n : ~SameCall(inbox[e][i], call)
    <2>1. SUFFICES ASSUME call.kind \in Carriers, NEW i \in 1..n, SameCall(inbox[e][i], call) PROVE FALSE
      OBVIOUS
    <2>2. inbox[e][i].kind = c[2] /\ inbox[e][i].rank = r
      BY <2>1 DEF SameCall
    <2>3. <<e, c[2]>> \in rank[r].unanswered
      BY <2>1, <2>2, <1>6 DEF InboxInv, Expected
    <2>4. c = <<c[1], c[2]>>
      BY <1>t
    <2> QED
      BY <2>3, <2>4, <1>1
  <1>8. call.kind \in Carriers => StillExpected(e, call)
    <2>1. SUFFICES ASSUME call.kind \in Carriers PROVE StillExpected(e, call)
      OBVIOUS
    <2>2. rank[r].pc = "send"
      BY <2>1 DEF SendInv, SendsOk, Carriers
    <2>3. c = <<c[1], c[2]>> /\ r \in Ranks
      BY <1>t
    <2>4. call.names = NamesOf(Bucket(r))
      BY <2>1 DEF Carriers
    <2>5. /\ rank'[r].pc = "send" /\ <<e, call.kind>> \in rank'[r].unanswered /\ call.rank = r
      BY <2>2, <2>3, <1>1
    <2> HIDE DEF call
    <2> QED
      BY <2>4, <2>5 DEF StillExpected
  <1>9. ASSUME NEW i \in 1..(n + 1), inbox'[e][i].kind \in Carriers
        PROVE  StillExpected(e, inbox'[e][i]) /\ Unique(inbox'[e], i)
    <2> HIDE DEF call
    <2>1. CASE i = n + 1
      <3>1. inbox'[e][i] = call
        BY <2>1, <1>6
      <3>2. \A j \in 1..n : ~SameCall(call, inbox[e][j])
        BY <1>7, <1>9, <3>1 DEF SameCall
      <3> QED
        BY <3>1, <3>2, <2>1, <1>6, <1>8, <1>9 DEF Unique
    <2>2. CASE i \in 1..n
      <3>1. inbox'[e][i] = inbox[e][i] /\ inbox[e][i].rank \in Ranks
        BY <2>2, <1>6, CallTyped
      <3>2. Expected(e, inbox[e][i]) /\ Unique(inbox[e], i)
        BY <2>2, <3>1, <1>6, <1>9 DEF InboxInv
      <3>3. ~SameCall(inbox[e][i], call)
        BY <2>2, <3>1, <1>7, <1>9 DEF SameCall
      <3>4. StillExpected(e, inbox[e][i])
        BY <3>1, <3>2, <1>4, <1>6
      <3> QED
        BY <3>1, <3>2, <3>3, <3>4, <1>6, SMTT(30) DEF Unique
    <2> QED
      BY <2>1, <2>2, <1>6
  <1>10. \A i \in 1..Len(inbox'[e]) : inbox'[e][i].kind \in Carriers =>
                StillExpected(e, inbox'[e][i]) /\ Unique(inbox'[e], i)
    BY <1>6, <1>9
  <1> QED
    BY <1>3, <1>5, <1>10, InboxFrom

LEMMA InboxStep ==
    ASSUME TypeInv, TypeInv', PhaseInv, CallsInv, SendInv, InboxInv, [Next]_vars
    PROVE  InboxInv'
  <1>0. line' = line
    BY LineFixed
  <1>t. rank \in [Ranks -> RankOf] /\ 1 \in Ranks /\ line \in DOMAIN Configurations
    BY RanksOk DEF TypeInv, DriverTyped
  <1>1. CASE UNCHANGED vars
    BY <1>1, <1>0, InboxStays DEF vars, Waits
  <1>2. ASSUME NEW r \in Ranks,
               \/ ReadEngines(r) \/ LeftGroup(r) \/ JoinedGroup(r) \/ Prepare(r) \/ Finalize(r)
               \/ StartBucket(r) \/ AcquireLock(r) \/ BucketSent(r) \/ BucketsDone(r)
               \/ StageBucket(r) \/ LoadAndWrite(r) \/ WritesAwaited(r) \/ TransfersWaited(r)
        PROVE  InboxInv'
    <2>1. Only(r) /\ (rank[r].pc # "send" \/ AllAnswered(r))
      BY <1>2, <1>t, RankSteps, StageSteps DEF Moves, Calls, Advances
    <2>2. \A q \in Ranks : Waits(q)
      BY <2>1 DEF Waits, AllAnswered
    <2>3. inbox' = inbox
      BY <1>2 DEF ReadEngines, LeftGroup, JoinedGroup, Prepare, Finalize, StartBucket, AcquireLock,
         BucketSent, BucketsDone, StageBucket, LoadAndWrite, WritesAwaited, TransfersWaited
    <2> QED
      BY <2>2, <2>3, <1>0, InboxStays
  <1>3. ASSUME NEW r \in Ranks, NEW c \in rank[r].unsent, SendCall(r, c) PROVE InboxInv'
    BY <1>3, <1>0, InboxSent
  <1>4. ASSUME NEW r \in Ranks, JoinGroup(r) \/ Broadcast(r) PROVE InboxInv'
    <2>1. \E kind : /\ \A e \in Receivers(r) : Handles(e, r, kind)
                    /\ Handled(Receivers(r)) /\ HasAnswers(r, Receivers(r) \X {kind})
      BY <1>4, <1>t, RankSteps DEF JoinGroup, Broadcast
    <2> QED
      BY <2>1, <1>0, <1>t, RanksOk, InboxHandled
  <1>5. ASSUME NEW e \in Engines, NEW r \in Ranks,
               LeaveGroup(r, e) \/ HandleEmpty(r, e) \/ HandleTensor(r, e) PROVE InboxInv'
    <2>1. \E kind : Handles(e, r, kind) /\ Handled({e}) /\ HasAnswers(r, {e} \X {kind})
      BY <1>5, <1>t, OtherSteps DEF LeaveGroup, HandleEmpty, HandleTensor
    <2> QED
      BY <2>1, <1>0, InboxHandled
  <1>6. ASSUME NEW e \in Engines, HandleCall(e) \/ RestartEngine(e) \/ Serve(e) PROVE InboxInv'
    BY <1>6, <1>0, InboxStays DEF HandleCall, RestartEngine, Serve, Waits
  <1>7. ASSUME NEW w \in writes, WriteDone(w) \/ WriteFails(w) PROVE InboxInv'
    <2>1. rank' # rank => rank[w.rank].pc = "await" /\ (w.rank \in Ranks => Moves(w.rank, "failed"))
      BY <1>7, <1>t, OtherSteps
    <2>2. w.rank \notin Ranks => rank' = rank
      BY <1>7, <1>t DEF WriteDone, WriteFails
    <2>3. \A q \in Ranks : Waits(q)
      BY <2>1, <2>2 DEF Waits, Moves
    <2>4. inbox' = inbox
      BY <1>7 DEF WriteDone, WriteFails
    <2> QED
      BY <2>3, <2>4, <1>0, InboxStays
  <1>8. CASE NextCall
    <2>1. rank' # rank => rank[1].pc # "send" /\ Only(1)
      BY <1>8, <1>t, OtherSteps DEF NextCall, CallsInv, Moves
    <2>2. \A q \in Ranks : Waits(q)
      BY <2>1 DEF Waits
    <2>3. inbox' = inbox
      BY <1>8 DEF NextCall
    <2> QED
      BY <2>2, <2>3, <1>0, InboxStays
  <1>9. CASE CallUpdate \/ BarrierConnected \/ BarrierPrepared \/ BarrierSent \/ BarrierFinalized
    <2>1. \A q \in Ranks : rank[q].pc # "send"
      BY <1>9 DEF CallUpdate, BarrierConnected, BarrierPrepared, BarrierSent, BarrierFinalized, AllAt,
         PhaseInv, Together, InPhase
    <2>2. inbox' = inbox
      BY <1>9 DEF CallUpdate, BarrierConnected, BarrierPrepared, BarrierSent, BarrierFinalized
    <2> QED
      BY <2>1, <2>2, <1>0, InboxStays DEF Waits
  <1> QED
    BY Steps, <1>1, <1>2, <1>3, <1>4, <1>5, <1>6, <1>7, <1>8, <1>9

(***************************************************************************)
(* CallsInv.                                                               *)
(***************************************************************************)
\* Rank 1 neither starts to call the engines nor has done.
KeepsCalling == rank[1].pc \in {"preparing", "finalizing"} \/ rank'[1].pc \in {"preparing", "finalizing"}
                    => rank'[1].pc = rank[1].pc

LEMMA CallsStay ==
    ASSUME CallsInv, line' = line, UNCHANGED callVars, KeepsCalling
    PROVE  CallsInv'
  BY LineStays DEF CallsInv, KeepsCalling

LEMMA LenOfOne ==
    ASSUME NEW a
    PROVE  ~(Len(<<a>>) > 1)
  OBVIOUS

LEMMA LenOfMore ==
    ASSUME NEW a, NEW b, NEW c
    PROVE  Len(<<a, b>>) > 1 /\ Len(<<a, b, c>>) > 1
  OBVIOUS

LEMMA TailOfTwo ==
    ASSUME NEW a, NEW b
    PROVE  Tail(<<a, b>>) = <<b>>
  OBVIOUS

LEMMA TailOfThree ==
    ASSUME NEW a, NEW b, NEW c
    PROVE  Tail(<<a, b, c>>) = <<b, c>>
  OBVIOUS

LEMMA FinalizeCallsOk ==
    /\ args.transport = "p2p" => FinalizeCalls = <<"announce", "end", "continue">>
    /\ args.transport # "p2p" => FinalizeCalls = <<"end", "continue">>
  BY DEF FinalizeCalls

LEMMA CallsStep ==
    ASSUME TypeInv, PhaseInv, CallsInv, [Next]_vars
    PROVE  CallsInv'
  <1>0. line' = line
    BY LineFixed
  <1>t. rank \in [Ranks -> RankOf] /\ 1 \in Ranks /\ line \in DOMAIN Configurations
    BY RanksOk DEF TypeInv, DriverTyped
  <1>1. CASE UNCHANGED vars
    BY <1>1, <1>0, CallsStay DEF vars, KeepsCalling
  <1>2. ASSUME NEW r \in Ranks,
               \/ ReadEngines(r) \/ LeftGroup(r) \/ JoinGroup(r) \/ JoinedGroup(r)
               \/ StartBucket(r) \/ AcquireLock(r) \/ Broadcast(r) \/ BucketSent(r) \/ BucketsDone(r)
               \/ StageBucket(r) \/ LoadAndWrite(r) \/ WritesAwaited(r) \/ TransfersWaited(r)
               \/ \E c \in rank[r].unsent : SendCall(r, c)
        PROVE  CallsInv'
    <2>1. KeepsCalling
      <3> DEFINE Calling == {"preparing", "finalizing"}
                 Keeps == /\ Only(r)
                          /\ \/ rank'[r].pc = rank[r].pc
                             \/ rank[r].pc \notin Calling /\ rank'[r].pc \notin Calling
      <3>1. ASSUME ReadEngines(r) \/ LeftGroup(r) \/ JoinGroup(r) \/ JoinedGroup(r)
            PROVE  Keeps
        <4>1. /\ ReadEngines(r) => Keeps
              /\ LeftGroup(r) => Keeps
          BY <1>t, RankSteps DEF Moves, Calls
        <4>2. /\ JoinGroup(r) => Keeps
              /\ JoinedGroup(r) => Keeps
          BY <1>t, RankSteps DEF Moves, HasAnswers
        <4> QED
          BY <3>1, <4>1, <4>2
      <3>2. ASSUME StartBucket(r) \/ AcquireLock(r) \/ Broadcast(r) \/ BucketSent(r) \/ BucketsDone(r)
            PROVE  Keeps
        <4>1. StartBucket(r) => Keeps
          BY <1>t, RankSteps DEF Moves, Calls, Advances
        <4>2. /\ AcquireLock(r) => Keeps
              /\ Broadcast(r) => Keeps
          BY <1>t, RankSteps DEF Calls, HasAnswers
        <4>3. BucketSent(r) => Keeps
          BY <1>t, RankSteps DEF Advances
        <4>4. BucketsDone(r) => Keeps
          BY <1>t, RankSteps DEF Moves
        <4> QED
          BY <3>2, <4>1, <4>2, <4>3, <4>4
      <3>3. ASSUME StageBucket(r) \/ LoadAndWrite(r) \/ WritesAwaited(r) \/ TransfersWaited(r)
            PROVE  Keeps
        <4>1. StageBucket(r) => Keeps
          BY <1>t, StageSteps DEF Advances
        <4>2. LoadAndWrite(r) => Keeps
          BY <1>t, RankSteps DEF Moves, Advances
        <4>3. WritesAwaited(r) => Keeps
          BY <1>t, RankSteps
        <4>4. TransfersWaited(r) => Keeps
          BY <1>t, RankSteps DEF Moves
        <4> QED
          BY <3>3, <4>1, <4>2, <4>3, <4>4
      <3>4. ASSUME \E c \in rank[r].unsent : SendCall(r, c)
            PROVE  Keeps
        <4>1. PICK c \in rank[r].unsent : SendCall(r, c)
          BY <3>4
        <4>2. Only(r) /\ rank'[r].pc = rank[r].pc
          BY <4>1, <1>t, OtherSteps
        <4> QED
          BY <4>2
      <3>5. Keeps
        <4> HIDE DEF Keeps
        <4> QED
          BY <1>2, <3>1, <3>2, <3>3, <3>4
      <3>6. CASE r # 1
        BY <3>5, <3>6, <1>t DEF KeepsCalling
      <3>7. CASE r = 1
        BY <3>5, <3>7 DEF KeepsCalling
      <3> QED
        BY <3>6, <3>7
    <2>2. UNCHANGED callVars
      BY <1>2 DEF ReadEngines, LeftGroup, JoinGroup, JoinedGroup, StartBucket, AcquireLock, Broadcast,
         BucketSent, BucketsDone, StageBucket, LoadAndWrite, WritesAwaited, TransfersWaited, SendCall
    <2> QED
      BY <2>1, <2>2, <1>0, CallsStay
  <1>3. ASSUME NEW r \in Ranks, Prepare(r) \/ Finalize(r), r # 1 PROVE CallsInv'
    <2>1. rank'[1] = rank[1]
      BY <1>3, <1>t, RankSteps DEF Moves
    <2>2. UNCHANGED callVars
      BY <1>3 DEF Prepare, Finalize
    <2> QED
      BY <2>1, <2>2, <1>0, CallsStay DEF KeepsCalling
  <1>4. CASE Prepare(1)
    <2>1. rank'[1].pc = "preparing"
      BY <1>4, <1>t, RankSteps DEF Moves
    <2>2. calls' = PrepareCalls /\ waiting' = Audience(Head(PrepareCalls))
      BY <1>4 DEF Prepare, StartCalls
    <2>3. IF args.transport # "tensor" /\ args.in_place THEN calls' = <<"pause", "begin">>
          ELSE calls' = <<"pause", "flush", "begin">>
      BY <2>2 DEF PrepareCalls
    <2> QED
      BY <2>1, <2>2, <2>3, <1>0, LineStays DEF CallsInv
  <1>5. CASE Finalize(1)
    <2>1. rank'[1].pc = "finalizing"
      BY <1>5, <1>t, RankSteps DEF Moves
    <2>2. calls' = FinalizeCalls /\ waiting' = Audience(Head(FinalizeCalls))
      BY <1>5 DEF Finalize, StartCalls
    <2> QED
      BY <2>1, <2>2, <1>0, LineStays, FinalizeCallsOk DEF CallsInv
  <1>6. ASSUME NEW e \in Engines, HandleCall(e) PROVE CallsInv'
    <2>1. waiting' = waiting \ {e} /\ UNCHANGED <<calls, rank>> /\ waiting # {}
      BY <1>6 DEF HandleCall
    <2>2. rank[1].pc \in {"preparing", "finalizing"}
      BY <2>1, CallsOk
    <2> QED
      BY <2>1, <2>2, <1>0, LineStays DEF CallsInv
  <1>7. ASSUME NEW e \in Engines,
               \/ RestartEngine(e) \/ Serve(e)
               \/ \E r \in Ranks : LeaveGroup(r, e) \/ HandleEmpty(r, e) \/ HandleTensor(r, e)
        PROVE  CallsInv'
    <2>1. rank'[1].pc = rank[1].pc
      BY <1>7, <1>t, OtherSteps DEF HasAnswers
    <2>2. UNCHANGED callVars
      BY <1>7 DEF RestartEngine, Serve, LeaveGroup, HandleEmpty, HandleTensor
    <2> QED
      BY <2>1, <2>2, <1>0, CallsStay DEF KeepsCalling
  <1>8. ASSUME NEW w \in writes, WriteDone(w) \/ WriteFails(w) PROVE CallsInv'
    <2>1. rank' # rank => rank[w.rank].pc = "await" /\ (w.rank \in Ranks => Moves(w.rank, "failed"))
      BY <1>8, <1>t, OtherSteps
    <2>2. w.rank \notin Ranks => rank' = rank
      BY <1>8, <1>t DEF WriteDone, WriteFails
    <2>3. KeepsCalling
      BY <2>1, <2>2, <1>t DEF KeepsCalling, Moves
    <2>4. UNCHANGED callVars
      BY <1>8 DEF WriteDone, WriteFails
    <2> QED
      BY <2>3, <2>4, <1>0, CallsStay
  <1>9. CASE NextCall
    <2>1. /\ calls # <<>> /\ calls' = Tail(calls) /\ rank[1].pc \in {"preparing", "finalizing"}
          /\ waiting = {}
      BY <1>9 DEF NextCall, CallsInv
    <2>2. CASE Len(calls) > 1
      <3>1. rank' = rank /\ waiting' = Audience(calls[2])
        BY <1>9, <2>2 DEF NextCall
      <3>2. calls \in {<<"pause", "begin">>, <<"pause", "flush", "begin">>, <<"flush", "begin">>,
                       <<"end", "continue">>, <<"announce", "end", "continue">>}
        BY <2>1, <2>2 DEF CallsInv
      <3>6. /\ calls = <<"pause", "begin">> => calls' = <<"begin">>
            /\ calls = <<"flush", "begin">> => calls' = <<"begin">>
            /\ calls = <<"end", "continue">> => calls' = <<"continue">>
        BY <2>1, TailOfTwo
      <3>7. /\ calls = <<"pause", "flush", "begin">> => calls' = <<"flush", "begin">>
            /\ calls = <<"announce", "end", "continue">> => calls' = <<"end", "continue">>
        BY <2>1, TailOfThree
      <3>8. calls # <<"begin">> /\ calls # <<"continue">>
        BY <2>2, LenOfOne
      <3>3. calls' # <<>> /\ Head(calls') = calls[2]
        BY <3>2, <3>6, <3>7
      <3>4. rank[1].pc = "preparing" =>
              IF args.transport # "tensor" /\ args.in_place
              THEN calls' \in {<<"pause", "begin">>, <<"begin">>}
              ELSE calls' \in {<<"pause", "flush", "begin">>, <<"flush", "begin">>, <<"begin">>}
        BY <3>6, <3>7, <3>8 DEF CallsInv
      <3>5. rank[1].pc = "finalizing" => calls' \in {<<"end", "continue">>, <<"continue">>}
        BY <3>6, <3>7, <3>8 DEF CallsInv
      <3> QED
        <4>1. args' = args /\ rank'[1].pc = rank[1].pc
          BY <3>1, <1>0, LineStays
        <4>2. (waiting \subseteq Audience(Head(calls)))'
          BY <3>1, <3>3, <1>0, LineStays
        <4> QED
          BY <2>1, <3>4, <3>5, <4>1, <4>2 DEF CallsInv
    <2>3. CASE ~(Len(calls) > 1)
      <3>1. calls' = <<>> /\ waiting' = {}
        BY <1>9, <2>1, <2>3 DEF NextCall, CallsInv
      <3>2. rank'[1].pc \in {"prepared", "finalized"}
        <4>1. \A pc : rank' = [rank EXCEPT ![1].pc = pc] => rank'[1].pc = pc
          BY <1>t, Changes DEF Moves
        <4>2. rank[1].pc = "preparing" => rank' = [rank EXCEPT ![1].pc = "prepared"]
          BY <1>9, <2>3 DEF NextCall
        <4>3. rank[1].pc # "preparing" => rank' = [rank EXCEPT ![1].pc = "finalized"]
          BY <1>9, <2>3 DEF NextCall
        <4> QED
          BY <4>1, <4>2, <4>3
      <3> QED
        BY <3>1, <3>2 DEF CallsInv
    <2> QED
      BY <2>2, <2>3
  <1>10. CASE CallUpdate \/ BarrierConnected \/ BarrierPrepared \/ BarrierSent \/ BarrierFinalized
    <2>1. rank[1].pc \notin {"preparing", "finalizing"}
      BY <1>10, <1>t DEF CallUpdate, BarrierConnected, BarrierPrepared, BarrierSent, BarrierFinalized, AllAt,
         PhaseInv, Together, InPhase
    <2>2. rank'[1].pc \notin {"preparing", "finalizing"}
      BY <1>10, <1>t, OtherSteps DEF AllStart
    <2>3. UNCHANGED callVars
      BY <1>10 DEF CallUpdate, BarrierConnected, BarrierPrepared, BarrierSent, BarrierFinalized
    <2> QED
      BY <2>1, <2>2, <2>3, <1>0, CallsStay DEF KeepsCalling
  <1> QED
    BY Steps, <1>1, <1>2, <1>3, <1>4, <1>5, <1>6, <1>7, <1>8, <1>9, <1>10

(***************************************************************************)
(* EngineInv.                                                              *)
(***************************************************************************)
\* What has failed has failed.
LEMMA IntactGoes ==
    ASSUME TypeInv, [Next]_vars, Intact'
    PROVE  Intact
  <1>0. line' = line
    BY LineFixed
  <1>t. registry \in [Ranks -> {"none", "current", "stale"}] /\ failures \in Nat
    BY DEF TypeInv, BuffersTyped, DriverTyped
  <1> SUFFICES /\ failures' >= failures
               /\ \A r \in Ranks : registry[r] = "stale" => registry'[r] = "stale"
    BY <1>0, <1>t, LineStays DEF Intact
  <1>1. ASSUME NEW r \in Ranks, ReadEngines(r) \/ Prepare(r)
        PROVE  failures' = failures /\ \A q \in Ranks : registry[q] = "stale" => registry'[q] = "stale"
    BY <1>1, <1>t DEF ReadEngines, Prepare
  <1>2. ASSUME NEW r \in Ranks, TransfersWaited(r)
        PROVE  failures' >= failures /\ registry' = registry
    BY <1>2, <1>t DEF TransfersWaited
  <1>3. ASSUME NEW w \in writes, WriteDone(w) \/ WriteFails(w)
        PROVE  failures' >= failures /\ registry' = registry
    BY <1>3, <1>t DEF WriteDone, WriteFails
  <1>4. ASSUME NEW r \in Ranks,
               \/ LeftGroup(r) \/ JoinGroup(r) \/ JoinedGroup(r) \/ Finalize(r)
               \/ StartBucket(r) \/ AcquireLock(r) \/ Broadcast(r) \/ BucketSent(r) \/ BucketsDone(r)
               \/ StageBucket(r) \/ LoadAndWrite(r) \/ WritesAwaited(r)
               \/ \E c \in rank[r].unsent : SendCall(r, c)
        PROVE  failures' = failures /\ registry' = registry
    BY <1>4 DEF LeftGroup, JoinGroup, JoinedGroup, Finalize, StartBucket, AcquireLock, Broadcast,
       BucketSent, BucketsDone, StageBucket, LoadAndWrite, WritesAwaited, SendCall
  <1>5. ASSUME \/ \E e \in Engines :
                    \/ HandleCall(e) \/ RestartEngine(e) \/ Serve(e)
                    \/ \E r \in Ranks : LeaveGroup(r, e) \/ HandleEmpty(r, e) \/ HandleTensor(r, e)
               \/ NextCall \/ CallUpdate
               \/ BarrierConnected \/ BarrierPrepared \/ BarrierSent \/ BarrierFinalized
        PROVE  failures' = failures /\ registry' = registry
    BY <1>5 DEF HandleCall, RestartEngine, Serve, LeaveGroup, HandleEmpty, HandleTensor, NextCall,
       CallUpdate, BarrierConnected, BarrierPrepared, BarrierSent, BarrierFinalized
  <1> QED
    BY Steps, <1>t, <1>1, <1>2, <1>3, <1>4, <1>5 DEF vars

\* The engine is where it was between the calls of rank 1.
SameStage(e) ==
    /\ IsPaused(e)' <=> IsPaused(e)
    /\ IsFlushed(e)' <=> IsFlushed(e)
    /\ IsOpen(e)' <=> IsOpen(e)

LEMMA StageStays ==
    ASSUME UNCHANGED callVars,
           \/ rank'[1].pc = rank[1].pc
           \/ rank[1].pc \in Quiet /\ rank'[1].pc \in Quiet
           \/ rank[1].pc \in Held /\ rank'[1].pc \in Held
    PROVE  \A e : SameStage(e)
  <1>1. \A pc \in Quiet : pc \notin Held /\ pc # "preparing" /\ pc # "finalizing"
    BY DEF Quiet, Held, Sending
  <1> QED
    BY <1>1 DEF SameStage, IsPaused, IsFlushed, IsOpen, Suspended

LEMMA FlushedIsPaused ==
    ASSUME NEW e, IsFlushed(e)
    PROVE  IsPaused(e)
  BY DEF IsFlushed, IsPaused

\* The engine keeps what EngineInv is about.
SameEngine(e) ==
    /\ engine'[e].paused = engine[e].paused /\ engine'[e].session = engine[e].session
    /\ engine'[e].cached = engine[e].cached /\ engine'[e].announced = engine[e].announced

LEMMA EngineStays ==
    ASSUME line' = line, Intact' => Intact, NEW e \in Engines, EngineOk(e), SameStage(e), SameEngine(e)
    PROVE  EngineOk(e)'
  BY LineStays DEF EngineOk, SameStage, SameEngine

\* Rank 1 is in the phase of the others.
LEMMA SendingHolds ==
    ASSUME PhaseInv, 1 \in Ranks, NEW r \in Ranks, rank[r].pc \in Sending
    PROVE  rank[1].pc \in Sending /\ rank[1].pc \in Held /\ updating /\ InPhase(Sending)
  BY Phases DEF PhaseInv, Together, InPhase, Held

\* An engine loads while it is suspended.
LEMMA LoadedOk ==
    ASSUME TypeInv, line' = line, NEW e \in Engines, EngineOk(e), rank[1].pc \in Held,
           SameStage(e), engine'[e] = Loaded(e)
    PROVE  EngineOk(e)'
  <1>1. EngineShape(engine[e])
    BY DEF TypeInv, EnginesTyped
  <1>2. /\ engine'[e].paused = engine[e].paused /\ engine'[e].session = engine[e].session
        /\ engine'[e].cached = engine[e].cached
    BY <1>1 DEF Loaded, EngineShape
  <1>3. IsFlushed(e)
    BY DEF IsFlushed, Suspended
  <1> QED
    BY <1>2, <1>3, LineStays DEF EngineOk, SameStage

\* An engine that is not paused has the weights it has announced.
LEMMA AwakeHolds ==
    ASSUME TypeInv, PhaseInv, CallsInv, EngineInv, WeightsInv, Intact, NEW e \in Paused,
           ~engine[e].paused
    PROVE  Holds(e, engine[e].announced) /\ rank[1].pc \notin Held
  <1>1. 1 \in Ranks /\ e \in Engines
    BY RanksOk DEF TypeInv, DriverTyped
  <1>2. ~IsPaused(e)
    BY <1>1 DEF EngineInv, EngineOk
  <1>3. rank[1].pc \notin Held
    BY <1>2 DEF IsPaused, Suspended
  <1>4. CASE rank[1].pc \in {"idle"} \cup Early
    BY <1>1, <1>3, <1>4 DEF WeightsInv, WeightsOk
  <1>5. CASE rank[1].pc \in Final
    <2>1. IsAnnounced(e)
      BY <1>2, <1>3, <1>5 DEF IsPaused, IsAnnounced, Final, Held
    <2> QED
      BY <1>1, <1>3, <1>5, <2>1 DEF WeightsInv, WeightsOk
  <1> QED
    BY <1>1, <1>3, <1>4, <1>5 DEF PhaseInv, Together, InPhase, Held

\* An engine handles the call of rank 1.
LEMMA CalledOk ==
    ASSUME TypeInv, line' = line, Intact' => Intact, CallsInv, NEW e \in Engines, EngineOk(e),
           HandleCall(e)
    PROVE  EngineOk(e)'
  <1>1. /\ e \in waiting /\ waiting' = waiting \ {e} /\ calls' = calls /\ rank' = rank
        /\ engine' = [engine EXCEPT ![e] = AfterCall(e, Head(calls))]
    BY DEF HandleCall
  <1>2. /\ rank[1].pc \in {"preparing", "finalizing"} /\ waiting \subseteq Audience(Head(calls))
        /\ Head(calls) \in {"pause", "flush", "begin", "announce", "end", "continue"}
        /\ rank[1].pc = "preparing" => Head(calls) \in {"pause", "flush", "begin"}
        /\ rank[1].pc = "finalizing" => Head(calls) \in {"announce", "end", "continue"}
    BY <1>1, CallsOk
  <1>3. EngineShape(engine[e]) /\ engine'[e] = AfterCall(e, Head(calls))
    BY <1>1 DEF TypeInv, EnginesTyped
  <1>4. ~Suspended
    BY <1>2 DEF Suspended, Held, Sending
  <1> USE LineStays
  <1>5. CASE Head(calls) = "pause"
    <2>1. e \in Paused /\ rank[1].pc = "preparing"
      BY <1>1, <1>2, <1>5 DEF Audience
    <2>2. /\ engine'[e].paused = TRUE /\ engine'[e].session = engine[e].session
          /\ engine'[e].cached = engine[e].cached /\ engine'[e].announced = engine[e].announced
      BY <1>3, <1>5 DEF AfterCall, EngineShape
    <2>3. IsPaused(e)' /\ ~IsFlushed(e)' /\ ~IsOpen(e)' /\ ~IsOpen(e)
      BY <1>1, <1>4, <1>5, <2>1 DEF IsPaused, IsFlushed, IsOpen, Suspended
    <2> QED
      BY <2>1, <2>2, <2>3 DEF EngineOk
  <1>6. CASE Head(calls) = "flush"
    <2>1. e \in Paused /\ rank[1].pc = "preparing"
      BY <1>1, <1>2, <1>6 DEF Audience
    <2>2. /\ engine'[e].paused = engine[e].paused /\ engine'[e].session = engine[e].session
          /\ engine'[e].cached = {} /\ engine'[e].announced = engine[e].announced
      BY <1>3, <1>6 DEF AfterCall, EngineShape
    <2>3. IsPaused(e)' /\ IsPaused(e) /\ ~IsOpen(e)' /\ ~IsOpen(e)
      BY <1>1, <1>4, <1>6, <2>1 DEF IsPaused, IsOpen, Suspended
    <2> QED
      BY <2>1, <2>2, <2>3 DEF EngineOk
  <1>7. CASE Head(calls) = "begin"
    <2>1. rank[1].pc = "preparing"
      BY <1>2, <1>7
    <2>2. /\ engine'[e].paused = engine[e].paused /\ engine'[e].session = TRUE
          /\ engine'[e].cached = engine[e].cached /\ engine'[e].announced = engine[e].announced
      BY <1>3, <1>7 DEF AfterCall, EngineShape
    <2>3. IsPaused(e)' /\ IsPaused(e) /\ IsFlushed(e)' /\ IsFlushed(e) /\ IsOpen(e)'
      BY <1>1, <1>4, <1>7, <2>1 DEF IsPaused, IsFlushed, IsOpen, Suspended
    <2> QED
      BY <2>2, <2>3 DEF EngineOk
  <1>8. CASE Head(calls) = "announce"
    <2>1. rank[1].pc = "finalizing"
      BY <1>2, <1>8
    <2>2. /\ engine'[e].paused = engine[e].paused /\ engine'[e].session = engine[e].session
          /\ engine'[e].cached = engine[e].cached
      BY <1>3, <1>8 DEF AfterCall, EngineShape
    <2>3. IsPaused(e)' /\ IsPaused(e) /\ IsFlushed(e)' /\ IsFlushed(e) /\ IsOpen(e)' /\ IsOpen(e)
      BY <1>1, <1>4, <1>8, <2>1 DEF IsPaused, IsFlushed, IsOpen, Suspended
    <2> QED
      BY <2>2, <2>3 DEF EngineOk
  <1>9. CASE Head(calls) = "end"
    <2>1. rank[1].pc = "finalizing"
      BY <1>2, <1>9
    <2>2. /\ engine'[e].paused = engine[e].paused /\ engine'[e].session = FALSE
          /\ engine'[e].cached = engine[e].cached /\ engine'[e].announced = engine[e].announced
      BY <1>3, <1>9 DEF AfterCall, EngineShape
    <2>3. IsPaused(e)' /\ IsPaused(e) /\ IsFlushed(e)' /\ IsFlushed(e) /\ ~IsOpen(e)'
      BY <1>1, <1>4, <1>9, <2>1 DEF IsPaused, IsFlushed, IsOpen, Suspended
    <2> QED
      BY <2>2, <2>3 DEF EngineOk
  <1>10. CASE Head(calls) = "continue"
    <2>1. e \in Paused /\ rank[1].pc = "finalizing"
      BY <1>1, <1>2, <1>10 DEF Audience
    <2>2. /\ engine'[e].paused = FALSE /\ engine'[e].session = engine[e].session
          /\ engine'[e].cached = engine[e].cached /\ engine'[e].announced = engine[e].announced
      BY <1>3, <1>10 DEF AfterCall, EngineShape
    <2>3. ~IsPaused(e)' /\ ~IsFlushed(e)' /\ ~IsOpen(e)' /\ ~IsOpen(e)
      BY <1>1, <1>4, <1>10, <2>1 DEF IsPaused, IsFlushed, IsOpen, Suspended
    <2> QED
      BY <2>1, <2>2, <2>3 DEF EngineOk
  <1> QED
    BY <1>2, <1>5, <1>6, <1>7, <1>8, <1>9, <1>10

\* An engine handles the parameters of a rank that sends its bucket.
LEMMA CarrierHandled ==
    ASSUME TypeInv, InboxInv, NEW e \in Engines, NEW r, NEW kind \in Carriers, Handles(e, r, kind)
    PROVE  /\ r \in Ranks /\ rank[r].pc = "send" /\ <<e, kind>> \in rank[r].unanswered
           /\ Head(inbox[e]).rank = r /\ Head(inbox[e]).names = NamesOf(Bucket(r))
  <1>1. inbox[e] # <<>> /\ Head(inbox[e]).rank = r /\ Head(inbox[e]).kind = kind
    BY DEF Handles
  <1>2. 1 \in 1..Len(inbox[e]) /\ Head(inbox[e]) = inbox[e][1]
    BY <1>1, CallTyped
  <1> QED
    BY <1>1, <1>2, CallTyped DEF InboxInv, Expected

\* The engines that load in a step, and the rank whose bucket they load.
Loads(r, E) == E \subseteq Engines /\ \E kind \in Carriers :
    /\ \A e \in E : Handles(e, r, kind)
    /\ \A e \in Engines : engine'[e] = IF e \in E THEN Loaded(e) ELSE engine[e]
    /\ HasAnswers(r, E \X {kind}) /\ Handled(E)
    /\ UNCHANGED <<line, weight_version, updating, new, restarts, callVars, p2pVars>>

LEMMA LoadSteps ==
    ASSUME TypeInv, NEW r \in Ranks
    PROVE  /\ Broadcast(r) => rank[r].pc = "send" /\ Loads(r, Receivers(r))
           /\ \A e \in Engines : HandleEmpty(r, e) \/ HandleTensor(r, e) => Loads(r, {e})
  <1>t. /\ rank \in [Ranks -> RankOf] /\ 1 \in Ranks /\ Receivers(r) \subseteq Engines
        /\ DOMAIN engine = Engines /\ line \in DOMAIN Configurations
    BY RanksOk DEF TypeInv, DriverTyped, EnginesTyped
  <1>1. Broadcast(r) => rank[r].pc = "send" /\ Loads(r, Receivers(r))
    BY <1>t, RankSteps DEF Broadcast, Loads, Carriers
  <1>2. ASSUME NEW e \in Engines, HandleEmpty(r, e) PROVE Loads(r, {e})
    <2>1. \A f \in Engines : engine'[f] = IF f \in {e} THEN Loaded(f) ELSE engine[f]
      BY <1>2, <1>t DEF HandleEmpty
    <2>2. HasAnswers(r, {e} \X {"broadcast"})
      BY <1>2, <1>t, OtherSteps
    <2> QED
      BY <1>2, <2>1, <2>2 DEF HandleEmpty, Loads, Carriers
  <1>3. ASSUME NEW e \in Engines, HandleTensor(r, e) PROVE Loads(r, {e})
    <2>1. \A f \in Engines : engine'[f] = IF f \in {e} THEN Loaded(f) ELSE engine[f]
      BY <1>3, <1>t DEF HandleTensor
    <2>2. HasAnswers(r, {e} \X {"ipc"})
      BY <1>3, <1>t, OtherSteps
    <2> QED
      BY <1>3, <2>1, <2>2 DEF HandleTensor, Loads, Carriers
  <1> QED
    BY <1>1, <1>2, <1>3

\* Rank 1 starts its calls, or goes on to the next one.
LEMMA StartedOk ==
    ASSUME TypeInv, line' = line, Intact' => Intact, engine' = engine, NEW e \in Engines, EngineOk(e),
           Prepare(1) \/ Finalize(1)
    PROVE  EngineOk(e)'
  <1>t. rank \in [Ranks -> RankOf] /\ 1 \in Ranks
    BY RanksOk DEF TypeInv, DriverTyped
  <1> USE LineStays
  <1>1. CASE Prepare(1)
    <2>1. rank[1].pc = "prepare" /\ rank'[1].pc = "preparing"
      BY <1>1, <1>t, RankSteps DEF Moves
    <2>2. Head(calls') = "pause" /\ waiting' = Paused
      BY <1>1 DEF Prepare, StartCalls, PrepareCalls, Audience
    <2>3. ~IsPaused(e) /\ ~IsOpen(e) /\ ~IsOpen(e)' /\ ~IsFlushed(e)'
      BY <2>1, <2>2 DEF IsPaused, IsFlushed, IsOpen, Suspended, Held, Sending
    <2>4. ~(e \in Paused /\ IsPaused(e)')
      BY <2>1, <2>2 DEF IsPaused, Suspended, Held, Sending
    <2> QED
      BY <2>3, <2>4 DEF EngineOk
  <1>2. CASE Finalize(1)
    <2>1. rank[1].pc = "finalize" /\ rank'[1].pc = "finalizing"
      BY <1>2, <1>t, RankSteps DEF Moves
    <2>2. \/ Head(calls') = "announce"
          \/ Head(calls') = "end" /\ waiting' = Engines
      BY <1>2 DEF Finalize, StartCalls, FinalizeCalls, Audience
    <2>3. IsPaused(e) /\ IsOpen(e) /\ IsFlushed(e)
      BY <2>1 DEF IsPaused, IsFlushed, IsOpen, Suspended, Held
    <2>4. IsPaused(e)' /\ IsOpen(e)' /\ IsFlushed(e)'
      BY <2>1, <2>2 DEF IsPaused, IsFlushed, IsOpen
    <2> QED
      BY <2>3, <2>4 DEF EngineOk
  <1> QED
    BY <1>1, <1>2

LEMMA NextCallSteps ==
    ASSUME TypeInv, CallsInv, NextCall
    PROVE  /\ waiting = {} /\ engine' = engine
           /\ \/ /\ rank[1].pc = "preparing" /\ rank'[1].pc = "preparing"
                 /\ \/ Head(calls) = "pause" /\ Head(calls') = "flush"
                    \/ Head(calls) = "pause" /\ Head(calls') = "begin"
                            /\ args.transport # "tensor" /\ args.in_place
                    \/ Head(calls) = "flush" /\ Head(calls') = "begin"
                 /\ waiting' = Audience(Head(calls'))
              \/ rank[1].pc = "preparing" /\ rank'[1].pc = "prepared" /\ Head(calls) = "begin"
              \/ /\ rank[1].pc = "finalizing" /\ rank'[1].pc = "finalizing"
                 /\ \/ Head(calls) = "announce" /\ Head(calls') = "end"
                    \/ Head(calls) = "end" /\ Head(calls') = "continue"
                 /\ waiting' = Audience(Head(calls'))
              \/ rank[1].pc = "finalizing" /\ rank'[1].pc = "finalized" /\ Head(calls) = "continue"
  <1>t. rank \in [Ranks -> RankOf] /\ 1 \in Ranks
    BY RanksOk DEF TypeInv, DriverTyped
  <1>1. /\ calls # <<>> /\ calls' = Tail(calls) /\ rank[1].pc \in {"preparing", "finalizing"}
        /\ waiting = {} /\ engine' = engine
    BY DEF NextCall, CallsInv
  <1>2. CASE Len(calls) > 1
    <2>1. rank' = rank /\ waiting' = Audience(calls[2])
      BY <1>2 DEF NextCall
    <2>2. calls # <<"begin">> /\ calls # <<"continue">>
      BY <1>2, LenOfOne
    <2>3. /\ calls = <<"pause", "begin">> => calls' = <<"begin">>
          /\ calls = <<"flush", "begin">> => calls' = <<"begin">>
          /\ calls = <<"end", "continue">> => calls' = <<"continue">>
      BY <1>1, TailOfTwo
    <2>4. /\ calls = <<"pause", "flush", "begin">> => calls' = <<"flush", "begin">>
          /\ calls = <<"announce", "end", "continue">> => calls' = <<"end", "continue">>
      BY <1>1, TailOfThree
    <2>5. CASE rank[1].pc = "preparing"
      <3>1. \/ calls = <<"pause", "begin">> /\ args.transport # "tensor" /\ args.in_place
            \/ calls = <<"pause", "flush", "begin">> \/ calls = <<"flush", "begin">>
        BY <2>2, <2>5 DEF CallsInv
      <3>2. \/ Head(calls) = "pause" /\ Head(calls') = "flush"
            \/ Head(calls) = "pause" /\ Head(calls') = "begin"
                    /\ args.transport # "tensor" /\ args.in_place
            \/ Head(calls) = "flush" /\ Head(calls') = "begin"
        BY <2>3, <2>4, <3>1
      <3>3. Head(calls') = calls[2]
        BY <2>3, <2>4, <3>1
      <3> QED
        BY <1>1, <2>1, <2>5, <3>2, <3>3
    <2>6. CASE rank[1].pc = "finalizing"
      <3>1. calls = <<"end", "continue">> \/ calls = <<"announce", "end", "continue">>
        BY <2>2, <2>6 DEF CallsInv
      <3>2. \/ Head(calls) = "announce" /\ Head(calls') = "end"
            \/ Head(calls) = "end" /\ Head(calls') = "continue"
        BY <2>3, <2>4, <3>1
      <3>3. Head(calls') = calls[2]
        BY <2>3, <2>4, <3>1
      <3> QED
        BY <1>1, <2>1, <2>6, <3>2, <3>3
    <2> QED
      BY <1>1, <2>5, <2>6
  <1>3. CASE ~(Len(calls) > 1)
    <2>1. calls = <<"begin">> \/ calls = <<"continue">>
      <3>1. /\ calls \notin {<<"pause", "begin">>, <<"flush", "begin">>, <<"end", "continue">>}
            /\ calls \notin {<<"pause", "flush", "begin">>, <<"announce", "end", "continue">>}
        BY <1>3, LenOfMore
      <3>2. CASE rank[1].pc = "preparing"
        BY <1>1, <3>1, <3>2 DEF CallsInv
      <3>3. CASE rank[1].pc = "finalizing"
        BY <1>1, <3>1, <3>3 DEF CallsInv
      <3> QED
        BY <1>1, <3>2, <3>3
    <2>2. /\ rank[1].pc = "preparing" => Head(calls) = "begin"
          /\ rank[1].pc = "finalizing" => Head(calls) = "continue"
      BY <1>1, <2>1 DEF CallsInv
    <2>3. rank'[1].pc = IF rank[1].pc = "preparing" THEN "prepared" ELSE "finalized"
      <3>1. \A pc : rank' = [rank EXCEPT ![1].pc = pc] => rank'[1].pc = pc
        BY <1>t, Changes DEF Moves
      <3>2. rank[1].pc = "preparing" => rank' = [rank EXCEPT ![1].pc = "prepared"]
        BY <1>3 DEF NextCall
      <3>3. rank[1].pc # "preparing" => rank' = [rank EXCEPT ![1].pc = "finalized"]
        BY <1>3 DEF NextCall
      <3> QED
        BY <3>1, <3>2, <3>3
    <2> QED
      BY <1>1, <2>2, <2>3
  <1> QED
    BY <1>2, <1>3

LEMMA NextCallOk ==
    ASSUME TypeInv, CallsInv, line' = line, Intact' => Intact, NEW e \in Engines, EngineOk(e), NextCall
    PROVE  EngineOk(e)'
  <1> USE LineStays
  <1>0. waiting = {} /\ engine' = engine
    BY NextCallSteps
  <1>s. rank[1].pc \in {"preparing", "finalizing"} => ~Suspended
    BY DEF Suspended, Held, Sending
  <1>1. CASE rank[1].pc = "preparing" /\ rank'[1].pc = "preparing"
    <2>1. /\ IsPaused(e) /\ ~IsOpen(e) /\ IsPaused(e)' /\ ~IsOpen(e)'
      BY <1>0, <1>1, <1>s, NextCallSteps DEF IsPaused, IsOpen, Suspended, Audience
    <2>2. e \in Paused /\ ~args.in_place /\ IsFlushed(e)' => IsFlushed(e)
      BY <1>0, <1>1, NextCallSteps DEF IsFlushed, Suspended, Audience, Held, Sending
    <2> QED
      BY <1>0, <2>1, <2>2 DEF EngineOk
  <1>2. CASE rank[1].pc = "preparing" /\ rank'[1].pc = "prepared"
    <2>1. IsPaused(e) /\ IsOpen(e) /\ IsFlushed(e)
      BY <1>0, <1>2, NextCallSteps DEF IsPaused, IsOpen, IsFlushed
    <2>2. IsPaused(e)' /\ IsOpen(e)' /\ IsFlushed(e)'
      BY <1>2 DEF IsPaused, IsOpen, IsFlushed, Suspended, Held
    <2> QED
      BY <1>0, <2>1, <2>2 DEF EngineOk
  <1>3. CASE rank[1].pc = "finalizing" /\ rank'[1].pc = "finalizing"
    <2>1. IsPaused(e) /\ IsFlushed(e) /\ (IsOpen(e)' <=> IsOpen(e))
      BY <1>0, <1>3, <1>s, NextCallSteps DEF IsPaused, IsOpen, IsFlushed, Suspended, Audience
    <2>2. e \in Paused => IsPaused(e)'
      BY <1>0, <1>3, NextCallSteps DEF IsPaused, Suspended, Audience
    <2> QED
      BY <1>0, <2>1, <2>2 DEF EngineOk
  <1>4. CASE rank[1].pc = "finalizing" /\ rank'[1].pc = "finalized"
    <2>1. ~IsPaused(e) /\ ~IsOpen(e) /\ ~IsFlushed(e)
      BY <1>0, <1>4, <1>s, NextCallSteps DEF IsPaused, IsOpen, IsFlushed
    <2>2. ~IsPaused(e)' /\ ~IsOpen(e)' /\ ~IsFlushed(e)'
      BY <1>4 DEF IsPaused, IsOpen, IsFlushed, Suspended, Held, Sending
    <2> QED
      BY <1>0, <2>1, <2>2 DEF EngineOk
  <1> QED
    BY <1>1, <1>2, <1>3, <1>4, NextCallSteps

LEMMA EngineInvStep ==
    ASSUME TypeInv, PhaseInv, CallsInv, InboxInv, EngineInv, WeightsInv, [Next]_vars
    PROVE  EngineInv'
  <1>0. line' = line /\ (Intact' => Intact)
    BY LineFixed, IntactGoes
  <1>t. /\ rank \in [Ranks -> RankOf] /\ 1 \in Ranks /\ line \in DOMAIN Configurations
        /\ DOMAIN engine = Engines /\ \A e \in Engines : EngineOk(e) /\ EngineShape(engine[e])
    BY RanksOk DEF TypeInv, DriverTyped, EnginesTyped, EngineInv
  <1> SUFFICES ASSUME NEW e \in Engines PROVE EngineOk(e)'
    BY <1>0, LineStays DEF EngineInv
  <1>1. ASSUME \A f : SameStage(f), SameEngine(e) PROVE EngineOk(e)'
    BY <1>0, <1>1, <1>t, EngineStays
  <1>2. CASE UNCHANGED vars
    BY <1>1, <1>2, StageStays DEF vars, SameEngine
  <1>3. ASSUME NEW r \in Ranks,
               \/ ReadEngines(r) \/ LeftGroup(r) \/ JoinGroup(r) \/ JoinedGroup(r)
               \/ StartBucket(r) \/ AcquireLock(r) \/ BucketSent(r) \/ BucketsDone(r)
               \/ StageBucket(r) \/ LoadAndWrite(r) \/ WritesAwaited(r) \/ TransfersWaited(r)
               \/ \E c \in rank[r].unsent : SendCall(r, c)
        PROVE  EngineOk(e)'
    <2>1. /\ Only(r)
          /\ \/ rank'[r].pc = rank[r].pc
             \/ rank[r].pc \in Quiet /\ rank'[r].pc \in Quiet
             \/ rank[r].pc \in Held /\ rank'[r].pc \in Held
      <3>1. CASE ReadEngines(r) \/ LeftGroup(r) \/ JoinGroup(r) \/ JoinedGroup(r)
        BY <3>1, <1>t, RankSteps DEF Moves, Calls, HasAnswers, Quiet
      <3>2. CASE StartBucket(r) \/ AcquireLock(r) \/ BucketSent(r) \/ BucketsDone(r) \/ StageBucket(r)
        BY <3>2, <1>t, RankSteps, StageSteps DEF Moves, Calls, Advances, Held, Sending
      <3>3. CASE LoadAndWrite(r) \/ WritesAwaited(r) \/ TransfersWaited(r)
        BY <3>3, <1>t, RankSteps DEF Moves, Advances, Held, Sending
      <3>4. CASE \E c \in rank[r].unsent : SendCall(r, c)
        BY <3>4, <1>t, OtherSteps
      <3> QED
        BY <1>3, <3>1, <3>2, <3>3, <3>4
    <2>2. \/ rank'[1].pc = rank[1].pc
          \/ rank[1].pc \in Quiet /\ rank'[1].pc \in Quiet
          \/ rank[1].pc \in Held /\ rank'[1].pc \in Held
      BY <2>1, <1>t
    <2>3. UNCHANGED callVars /\ engine' = engine
      BY <1>3 DEF ReadEngines, LeftGroup, JoinGroup, JoinedGroup, StartBucket, AcquireLock,
         BucketSent, BucketsDone, StageBucket, LoadAndWrite, WritesAwaited, TransfersWaited, SendCall
    <2> QED
      BY <2>2, <2>3, <1>1, StageStays DEF SameEngine
  <1>4. ASSUME NEW r \in Ranks, Prepare(r) \/ Finalize(r), r # 1 PROVE EngineOk(e)'
    <2>1. rank'[1] = rank[1]
      BY <1>4, <1>t, RankSteps DEF Moves
    <2>2. UNCHANGED callVars /\ engine' = engine
      BY <1>4 DEF Prepare, Finalize
    <2> QED
      BY <2>1, <2>2, <1>1, StageStays DEF SameEngine
  <1>5. CASE Prepare(1) \/ Finalize(1)
    BY <1>5, <1>0, <1>t, StartedOk DEF Prepare, Finalize
  <1>6. CASE NextCall
    BY <1>6, <1>0, <1>t, NextCallOk
  <1>7. ASSUME NEW f \in Engines, HandleCall(f) PROVE EngineOk(e)'
    <2>1. CASE f = e
      BY <1>7, <2>1, <1>0, <1>t, CalledOk
    <2>2. CASE f # e
      <3>1. SameEngine(e)
        BY <1>7, <2>2, <1>t DEF HandleCall, SameEngine
      <3>2. calls' = calls /\ rank' = rank /\ (e \in waiting' <=> e \in waiting)
        BY <1>7, <2>2 DEF HandleCall
      <3>3. SameStage(e)
        BY <3>2 DEF SameStage, IsPaused, IsFlushed, IsOpen, Suspended
      <3> QED
        BY <3>1, <3>3, <1>0, <1>t, EngineStays
    <2> QED
      BY <2>1, <2>2
  <1>8. ASSUME NEW r \in Ranks, NEW E, Loads(r, E), r \in Ranks, rank[r].pc = "send" PROVE EngineOk(e)'
    <2>1. rank[1].pc \in Held
      BY <1>8, <1>t, SendingHolds DEF Sending
    <2>2. SameStage(e)
      BY <1>8, <1>t, StageStays DEF Loads, HasAnswers
    <2>3. engine'[e] = IF e \in E THEN Loaded(e) ELSE engine[e]
      BY <1>8 DEF Loads
    <2>4. CASE e \in E
      BY <2>1, <2>2, <2>3, <2>4, <1>0, <1>t, LoadedOk
    <2>5. CASE e \notin E
      BY <2>2, <2>3, <2>5, <1>0, <1>t, EngineStays DEF SameEngine
    <2> QED
      BY <2>4, <2>5
  <1>9. ASSUME NEW r \in Ranks, Broadcast(r) PROVE EngineOk(e)'
    BY <1>8, <1>9, LoadSteps
  <1>10. ASSUME NEW f \in Engines, NEW r \in Ranks, HandleEmpty(r, f) \/ HandleTensor(r, f)
         PROVE  EngineOk(e)'
    <2>1. rank[r].pc = "send"
      BY <1>10, CarrierHandled DEF HandleEmpty, HandleTensor, Carriers
    <2> QED
      BY <2>1, <1>8, <1>10, LoadSteps
  <1>11. ASSUME NEW f \in Engines, NEW r \in Ranks, LeaveGroup(r, f) PROVE EngineOk(e)'
    <2>1. rank'[1].pc = rank[1].pc
      BY <1>11, <1>t, OtherSteps DEF HasAnswers
    <2> QED
      BY <2>1, <1>1, <1>11, StageStays DEF SameEngine, LeaveGroup
  <1>12. ASSUME NEW w \in writes, WriteDone(w) \/ WriteFails(w) PROVE EngineOk(e)'
    <2>1. SameEngine(e)
      BY <1>12, <1>t DEF WriteDone, WriteFails, SameEngine, EngineShape
    <2>2. UNCHANGED callVars
      BY <1>12 DEF WriteDone, WriteFails
    <2>3. rank' # rank => rank[w.rank].pc = "await" /\ (w.rank \in Ranks => Moves(w.rank, "failed"))
      BY <1>12, <1>t, OtherSteps
    <2>4. w.rank \notin Ranks => rank' = rank
      BY <1>12, <1>t DEF WriteDone, WriteFails
    <2>5. rank'[1].pc = rank[1].pc \/ (rank[1].pc \in Held /\ rank'[1].pc \in Held)
      BY <2>3, <2>4, <1>t DEF Moves, Held, Sending
    <2> QED
      BY <2>1, <2>2, <2>5, <1>1, StageStays
  <1>13. ASSUME NEW f \in Engines, RestartEngine(f) PROVE EngineOk(e)'
    <2>1. rank[1].pc = "idle" /\ rank' = rank /\ UNCHANGED callVars
      BY <1>13, <1>t, Updating DEF RestartEngine
    <2>2. CASE e = f
      <3>1. /\ ~engine'[e].paused /\ ~engine'[e].session /\ engine'[e].cached = {}
        BY <1>13, <2>2, <1>t DEF RestartEngine, EngineInit
      <3>2. ~IsPaused(e)' /\ ~IsOpen(e)'
        BY <2>1 DEF IsPaused, IsOpen, Suspended, Held, Sending
      <3> QED
        BY <3>1, <3>2 DEF EngineOk
    <2>3. CASE e # f
      BY <2>1, <2>3, <1>1, <1>13, <1>t, StageStays DEF SameEngine, RestartEngine
    <2> QED
      BY <2>2, <2>3
  <1>14. ASSUME NEW f \in Engines, Serve(f) PROVE EngineOk(e)'
    <2>1. rank' = rank /\ UNCHANGED <<calls, waiting, failures, registry>>
      BY <1>14 DEF Serve
    <2>2. SameStage(e)
      BY <2>1, StageStays
    <2>3. CASE e # f
      BY <1>1, <1>14, <2>1, <2>3, <1>t, StageStays DEF SameEngine, Serve
    <2>4. CASE e = f
      <3> DEFINE versions == {engine[e].weights[x][1] : x \in DOMAIN engine[e].weights}
      <3>1. /\ engine'[e].paused = engine[e].paused /\ engine'[e].session = engine[e].session
            /\ engine'[e].announced = engine[e].announced
            /\ engine'[e].cached = engine[e].cached \cup versions /\ ~engine[e].paused
        BY <1>14, <2>4, <1>t DEF Serve, EngineShape
      <3>2. e \in Paused => ~IsFlushed(e)
        BY <3>1, <1>t, FlushedIsPaused DEF EngineOk
      <3>3. e \in Paused /\ Intact => versions \subseteq {engine[e].announced}
        <4>1. e \in Paused /\ Intact => Holds(e, engine[e].announced)
          BY <3>1, AwakeHolds
        <4> QED
          BY <4>1 DEF Holds
      <3> HIDE DEF versions
      <3> QED
        BY <3>1, <3>2, <3>3, <2>2, <1>0, <1>t, LineStays DEF EngineOk, SameStage
    <2> QED
      BY <2>3, <2>4
  <1>15. CASE CallUpdate \/ BarrierConnected \/ BarrierPrepared \/ BarrierSent \/ BarrierFinalized
    <2>1. \/ rank[1].pc \in Quiet /\ rank'[1].pc \in Quiet
          \/ rank[1].pc \in Held /\ rank'[1].pc \in Held
      <3>1. CASE CallUpdate
        <4>1. rank[1].pc = "idle"
          BY <3>1, <1>t, Updating DEF CallUpdate
        <4> QED
          BY <4>1, <3>1, <1>t, OtherSteps DEF AllStart, Quiet
      <3>2. CASE BarrierConnected \/ BarrierPrepared \/ BarrierSent \/ BarrierFinalized
        BY <3>2, <1>t, OtherSteps DEF AllStart, AllAt, Quiet, Held, Sending
      <3> QED
        BY <1>15, <3>1, <3>2
    <2>2. UNCHANGED callVars /\ engine' = engine
      BY <1>15 DEF CallUpdate, BarrierConnected, BarrierPrepared, BarrierSent, BarrierFinalized
    <2> QED
      BY <2>1, <2>2, <1>1, StageStays DEF SameEngine
  <1> QED
    BY Steps, <1>2, <1>3, <1>4, <1>5, <1>6, <1>7, <1>9, <1>10, <1>11, <1>12, <1>13, <1>14, <1>15

(***************************************************************************)
(* DeliveryInv.                                                            *)
(***************************************************************************)
\* What DeliveredTo says of the names after the step.
NowDelivered(e, names) ==
    /\ engine'[e].announced = weight_version'[1]
    /\ Intact' => \A x \in Gpus \X Names :
           x[2] \in names => engine'[e].weights[x] = <<weight_version'[1], x[1]>>

NowPast(r, part, k) ==
    \/ part = "non_expert" /\ rank'[r].part = "expert"
    \/ part = rank'[r].part /\ k < rank'[r].bucket

\* A step takes nothing away from what is delivered.
KeepsDelivered == \A e \in Engines : \A names : DeliveredTo(e, names) => NowDelivered(e, names)

SameWeights(e) == engine'[e].weights = engine[e].weights /\ engine'[e].announced = engine[e].announced

LEMMA DeliveredStays ==
    ASSUME Intact' => Intact, weight_version'[1] = weight_version[1],
           \A e \in Engines : SameWeights(e)
    PROVE  KeepsDelivered
  BY DEF KeepsDelivered, DeliveredTo, NowDelivered, SameWeights

LEMMA DeliveredLoads ==
    ASSUME TypeInv, Intact' => Intact, weight_version' = weight_version, NEW e \in Engines,
           engine'[e] = Loaded(e), weight_version[Head(inbox[e]).rank] = weight_version[1]
    PROVE  /\ \A names : DeliveredTo(e, names) => NowDelivered(e, names)
           /\ NowDelivered(e, Head(inbox[e]).names)
  <1> DEFINE call == Head(inbox[e])
  <1>1. EngineShape(engine[e])
    BY DEF TypeInv, EnginesTyped
  <1>2. engine'[e].announced = weight_version'[1]
    BY <1>1 DEF Loaded, EngineShape
  <1>3. \A x \in Gpus \X Names : engine'[e].weights[x] =
            IF x[2] \in call.names THEN <<weight_version[1], x[1]>> ELSE engine[e].weights[x]
    BY <1>1 DEF Loaded, EngineShape
  <1> HIDE DEF call
  <1>4. NowDelivered(e, call.names)
    BY <1>2, <1>3 DEF NowDelivered
  <1>5. \A names : DeliveredTo(e, names) => NowDelivered(e, names)
    BY <1>2, <1>3 DEF DeliveredTo, NowDelivered
  <1> QED
    BY <1>4, <1>5 DEF call

LEMMA DeliveryFrom ==
    ASSUME line' = line, NEW r \in Ranks,
           rank'[r].pc \in Sending /\ IsSource(r) =>
                /\ \A part \in Parts : \A k \in DOMAIN Planned(r, part) : NowPast(r, part, k) =>
                        \A e \in Sent(r) : NowDelivered(e, NamesOf(Planned(r, part)[k]))
                /\ rank'[r].pc = "send" => /\ SameBucket(r)
                                           /\ \A c \in Due(r) : \/ c \in rank'[r].unsent \cup rank'[r].unanswered
                                                                \/ NowDelivered(c[1], NamesOf(Bucket(r)))
    PROVE  DeliveryOk(r)'
  <1>1. /\ \A part : Planned(r, part)' = Planned(r, part)
        /\ Parts' = Parts /\ Sent(r)' = Sent(r) /\ Due(r)' = Due(r) /\ (IsSource(r)' <=> IsSource(r))
        /\ Gpus' = Gpus /\ Names' = Names
    BY LineStays
  <1>2. SameBucket(r) => Bucket(r)' = Bucket(r)
    BY BucketsStay
  <1>3. \A part, k : Past(r, part, k)' <=> NowPast(r, part, k)
    BY DEF Past, NowPast
  <1>4. ASSUME rank'[r].pc \in Sending, IsSource(r), NEW part \in Parts, NEW k \in DOMAIN Planned(r, part),
               NowPast(r, part, k), NEW e \in Sent(r)
        PROVE  DeliveredTo(e, NamesOf(Planned(r, part)[k]))'
    <2>1. NowDelivered(e, NamesOf(Planned(r, part)[k]))
      BY <1>4
    <2> QED
      BY <2>1, <1>1 DEF DeliveredTo, NowDelivered
  <1>5. ASSUME rank'[r].pc = "send", rank'[r].pc \in Sending, IsSource(r), NEW c \in Due(r)
        PROVE  c \in rank'[r].unsent \cup rank'[r].unanswered \/ DeliveredTo(c[1], NamesOf(Bucket(r)))'
    <2>1. SameBucket(r) /\ (c \in rank'[r].unsent \cup rank'[r].unanswered \/ NowDelivered(c[1], NamesOf(Bucket(r))))
      BY <1>5
    <2> QED
      BY <2>1, <1>1, <1>2 DEF DeliveredTo, NowDelivered
  <1> QED
    BY <1>1, <1>3, <1>4, <1>5 DEF DeliveryOk

LEMMA SentOk ==
    ASSUME TypeInv, NEW r \in Ranks
    PROVE  /\ Sent(r) \subseteq Engines
           /\ \A c \in Due(r) : c[1] \in Sent(r)
           /\ \A e \in Sent(r) : \E c \in Due(r) : c[1] = e
  <1>1. Sent(r) \subseteq Engines
    BY RanksOk DEF Sent, TypeInv, DriverTyped
  <1>2. \A c \in Due(r) : c[1] \in Sent(r)
    BY DEF Due, Sent
  <1>3. ASSUME NEW e \in Sent(r) PROVE \E c \in Due(r) : c[1] = e
    <2>1. <<e, "ipc">> \in Due(r) \/ <<e, "broadcast">> \in Due(r)
      BY <1>3 DEF Sent, Due
    <2> QED
      BY <2>1
  <1> QED
    BY <1>1, <1>2, <1>3

\* The rank stays where it is, and what it has delivered stays.
LEMMA DeliveryStays ==
    ASSUME TypeInv, line' = line, KeepsDelivered, NEW r \in Ranks, DeliveryOk(r), SameBucket(r),
           rank'[r].pc \in Sending => rank[r].pc \in Sending,
           rank'[r].pc = "send" =>
                /\ rank[r].pc = "send"
                /\ \A c \in Due(r) : c \in rank[r].unsent \cup rank[r].unanswered =>
                        \/ c \in rank'[r].unsent \cup rank'[r].unanswered
                        \/ NowDelivered(c[1], NamesOf(Bucket(r)))
    PROVE  DeliveryOk(r)'
  <1>1. ASSUME rank'[r].pc \in Sending, IsSource(r), NEW part \in Parts, NEW k \in DOMAIN Planned(r, part),
               NowPast(r, part, k), NEW e \in Sent(r)
        PROVE  NowDelivered(e, NamesOf(Planned(r, part)[k]))
    <2>1. Past(r, part, k)
      BY <1>1 DEF NowPast, Past
    <2>2. DeliveredTo(e, NamesOf(Planned(r, part)[k])) /\ e \in Engines
      BY <1>1, <2>1, SentOk DEF DeliveryOk
    <2> QED
      BY <2>2 DEF KeepsDelivered
  <1>2. ASSUME rank'[r].pc = "send", rank'[r].pc \in Sending, IsSource(r), NEW c \in Due(r)
        PROVE  \/ c \in rank'[r].unsent \cup rank'[r].unanswered
               \/ NowDelivered(c[1], NamesOf(Bucket(r)))
    <2>1. c \in rank[r].unsent \cup rank[r].unanswered \/ DeliveredTo(c[1], NamesOf(Bucket(r)))
      BY <1>2 DEF DeliveryOk
    <2>2. c[1] \in Engines
      BY SentOk
    <2> QED
      BY <1>2, <2>1, <2>2 DEF KeepsDelivered
  <1> QED
    BY <1>1, <1>2, DeliveryFrom

\* Where one rank does not send, none does.
LEMMA NoneSends ==
    ASSUME line' = line, PhaseInv', 1 \in Ranks, NEW q \in Ranks, rank'[q].pc \notin Sending
    PROVE  \A r \in Ranks : rank'[r].pc \notin Sending
  BY LineStays, Phases DEF PhaseInv, Together, InPhase

LEMMA SameVersions ==
    ASSUME TypeInv, PhaseInv, VersionInv, NEW r \in Ranks, rank[r].pc \in Sending
    PROVE  weight_version[r] = weight_version[1]
  <1>1. rank[1].pc \in Sending /\ weight_version[1] \in Nat /\ weight_version[r] \in Nat
    BY RanksOk, SendingHolds DEF TypeInv, DriverTyped
  <1>2. Ahead(r) = 0 /\ Ahead(1) = 0
    BY <1>1 DEF Ahead, Sending
  <1> QED
    BY <1>1, <1>2 DEF VersionInv

\* A rank that has sent all its buckets has them behind it.
LEMMA AllPast ==
    ASSUME PlansCover, TypeInv, PhaseInv, NEW r \in Ranks, rank[r].pc = "sent",
           NEW part \in Parts, part = rank[r].part, NEW k \in DOMAIN Planned(r, part)
    PROVE  Past(r, part, k)
  <1>1. rank[r].bucket > Len(Buckets(r)) /\ Buckets(r) = Planned(r, part)
    BY DEF PhaseInv, Placed, Buckets
  <1>2. Len(Planned(r, part)) \in Nat /\ DOMAIN Planned(r, part) = 1..Len(Planned(r, part))
    BY PlansOk
  <1>3. rank[r].bucket \in Nat
    BY RankFields, CountsOk DEF TypeInv
  <1> QED
    BY <1>1, <1>2, <1>3 DEF Past

LEMMA DeliveryStep ==
    ASSUME PlansCover, TypeInv, PhaseInv, PhaseInv', VersionInv, SendInv, CallsInv, InboxInv,
           DeliveryInv, args.transport # "p2p", writes = {}, [Next]_vars
    PROVE  DeliveryInv'
  <1>0. line' = line /\ (Intact' => Intact)
    BY LineFixed, IntactGoes
  <1>t. /\ rank \in [Ranks -> RankOf] /\ 1 \in Ranks /\ line \in DOMAIN Configurations
        /\ DOMAIN engine = Engines /\ \A r \in Ranks : DeliveryOk(r)
    BY RanksOk DEF TypeInv, DriverTyped, EnginesTyped, DeliveryInv
  <1> SUFFICES ASSUME NEW r \in Ranks PROVE DeliveryOk(r)'
    BY <1>0, LineStays DEF DeliveryInv
  <1>1. ASSUME NEW q \in Ranks, rank'[q].pc \notin Sending PROVE DeliveryOk(r)'
    BY <1>0, <1>1, <1>t, NoneSends DEF DeliveryOk
  <1>2. ASSUME engine' = engine, weight_version' = weight_version PROVE KeepsDelivered
    BY <1>0, <1>2, DeliveredStays DEF SameWeights
  <1>3. ASSUME KeepsDelivered, rank'[r] = rank[r] PROVE DeliveryOk(r)'
    BY <1>0, <1>3, <1>t, DeliveryStays
  <1>4. CASE UNCHANGED vars
    BY <1>2, <1>3, <1>4 DEF vars
  <1>5. ASSUME NEW q \in Ranks,
               ReadEngines(q) \/ LeftGroup(q) \/ JoinGroup(q) \/ JoinedGroup(q) \/ Prepare(q) \/ Finalize(q)
        PROVE  DeliveryOk(r)'
    <2>1. rank'[q].pc \notin Sending
      BY <1>5, <1>t, RankSteps DEF Moves, Calls, HasAnswers, Sending
    <2> QED
      BY <2>1, <1>1
  <1>6. ASSUME NEW q \in Ranks, NEW c \in rank[q].unsent, SendCall(q, c) PROVE DeliveryOk(r)'
    <2>1. /\ Only(q) /\ SameBucket(q) /\ rank'[q].pc = rank[q].pc
          /\ rank'[q].unsent = rank[q].unsent \ {c}
          /\ rank'[q].unanswered = rank[q].unanswered \cup {c}
      BY <1>6, <1>t, OtherSteps
    <2>2. KeepsDelivered
      BY <1>2, <1>6 DEF SendCall
    <2>3. CASE q = r
      BY <2>1, <2>2, <2>3, <1>0, <1>t, DeliveryStays
    <2>4. CASE q # r
      BY <2>1, <2>2, <2>4, <1>3
    <2> QED
      BY <2>3, <2>4
  <1>7. ASSUME NEW q \in Ranks, StartBucket(q) \/ AcquireLock(q) \/ BucketsDone(q) PROVE DeliveryOk(r)'
    <2>1. KeepsDelivered
      BY <1>2, <1>7 DEF StartBucket, AcquireLock, BucketsDone
    <2>2. CASE q # r
      <3>1. Only(q)
        BY <1>7, <1>t, RankSteps DEF Moves, Calls, Advances
      <3> QED
        BY <2>1, <2>2, <3>1, <1>3
    <2>3. CASE q = r /\ ~IsSource(r)
      BY <2>3, <1>0, LineStays DEF DeliveryOk
    <2>4. CASE q = r /\ IsSource(r)
      <3>1. /\ rank[r].pc \in Sending /\ SameBucket(r)
            /\ \/ rank'[r].pc \in Sending \ {"send"}
               \/ rank'[r].pc = "send" /\ rank'[r].unsent = Due(r)
        <4>1. CASE StartBucket(r)
          BY <2>4, <4>1, <1>t, RankSteps DEF Moves, Calls, Sending
        <4>2. CASE AcquireLock(r)
          <5>1. rank[r].pc = "acquire" /\ Calls(r, "send", Receivers(r) \X {"broadcast"})
            BY <4>2, <1>t, RankSteps
          <5>2. args.transport = "broadcast"
            BY <5>1 DEF PhaseInv, Placed
          <5>3. Receivers(r) \X {"broadcast"} = Due(r)
            BY <5>2 DEF Due, IpcEngine
          <5> QED
            BY <5>1, <5>3 DEF Calls, Sending
        <4>3. CASE BucketsDone(r)
          BY <4>3, <1>t, RankSteps DEF Moves, Sending
        <4> QED
          BY <1>7, <2>4, <4>1, <4>2, <4>3
      <3>2. ASSUME NEW part \in Parts, NEW k \in DOMAIN Planned(r, part),
                   NowPast(r, part, k), NEW e \in Sent(r)
            PROVE  NowDelivered(e, NamesOf(Planned(r, part)[k]))
        <4>1. Past(r, part, k)
          BY <3>1, <3>2 DEF NowPast, Past
        <4>2. DeliveredTo(e, NamesOf(Planned(r, part)[k])) /\ e \in Engines
          BY <2>4, <3>1, <3>2, <4>1, <1>t, SentOk DEF DeliveryOk
        <4> QED
          BY <4>2, <2>1 DEF KeepsDelivered
      <3> QED
        BY <3>1, <3>2, <1>0, DeliveryFrom
    <2> QED
      BY <2>2, <2>3, <2>4
  <1>8. ASSUME NEW q \in Ranks, BucketSent(q) PROVE DeliveryOk(r)'
    <2>1. KeepsDelivered
      BY <1>2, <1>8 DEF BucketSent
    <2>2. rank[q].pc = "send" /\ AllAnswered(q) /\ Advances(q)
      BY <1>8, <1>t, RankSteps
    <2>3. CASE q # r
      BY <2>1, <2>2, <2>3, <1>3 DEF Advances
    <2>4. CASE q = r
      <3>1. rank[r].bucket \in Nat /\ rank'[r].part = rank[r].part /\ rank'[r].bucket = rank[r].bucket + 1
            /\ rank'[r].pc = "buckets"
        BY <2>2, <2>4, <1>t, RankFields, CountsOk DEF Advances
      <3>2. ASSUME IsSource(r), NEW part \in Parts, NEW k \in DOMAIN Planned(r, part),
                   NowPast(r, part, k), NEW e \in Sent(r)
            PROVE  NowDelivered(e, NamesOf(Planned(r, part)[k]))
        <4>1. e \in Engines
          BY SentOk
        <4>2. CASE Past(r, part, k)
          <5>1. DeliveredTo(e, NamesOf(Planned(r, part)[k]))
            BY <2>2, <2>4, <3>2, <4>2, <1>t DEF DeliveryOk, Sending
          <5> QED
            BY <5>1, <4>1, <2>1 DEF KeepsDelivered
        <4>3. CASE ~Past(r, part, k)
          <5>1. k \in Nat
            BY PlansOk
          <5>2. part = rank[r].part /\ k = rank[r].bucket
            BY <3>1, <3>2, <4>3, <5>1 DEF Past, NowPast
          <5>3. Bucket(r) = Planned(r, part)[k]
            BY <5>2 DEF Bucket, Buckets
          <5>4. \A c \in Due(r) : DeliveredTo(c[1], NamesOf(Bucket(r)))
            BY <2>2, <2>4, <3>2, <1>t DEF DeliveryOk, AllAnswered, Sending
          <5>5. DeliveredTo(e, NamesOf(Planned(r, part)[k]))
            BY <5>3, <5>4, SentOk
          <5> QED
            BY <5>5, <4>1, <2>1 DEF KeepsDelivered
        <4> QED
          BY <4>2, <4>3
      <3> QED
        BY <3>1, <3>2, <1>0, DeliveryFrom
    <2> QED
      BY <2>3, <2>4
  <1>9. ASSUME NEW q \in Ranks,
               StageBucket(q) \/ LoadAndWrite(q) \/ WritesAwaited(q) \/ TransfersWaited(q)
        PROVE  FALSE
    BY <1>9 DEF StageBucket, LoadAndWrite, WritesAwaited, TransfersWaited, PhaseInv, Placed
  <1>10. ASSUME NEW q \in Ranks, NEW E, Loads(q, E) PROVE DeliveryOk(r)'
    <2>1. PICK kind \in Carriers :
            /\ E \subseteq Engines /\ \A e \in E : Handles(e, q, kind)
            /\ \A e \in Engines : engine'[e] = IF e \in E THEN Loaded(e) ELSE engine[e]
            /\ HasAnswers(q, E \X {kind}) /\ weight_version' = weight_version
      BY <1>10 DEF Loads
    <2>2. \A e \in E : /\ rank[q].pc = "send" /\ Head(inbox[e]).rank = q
                       /\ Head(inbox[e]).names = NamesOf(Bucket(q))
      BY <2>1, CarrierHandled
    <2>3. \A e \in E : weight_version[Head(inbox[e]).rank] = weight_version[1]
      BY <2>2, SameVersions DEF Sending
    <2>4. ASSUME NEW e \in E
          PROVE  /\ \A names : DeliveredTo(e, names) => NowDelivered(e, names)
                 /\ NowDelivered(e, NamesOf(Bucket(q)))
      BY <2>1, <2>2, <2>3, <2>4, <1>0, DeliveredLoads
    <2>5. KeepsDelivered
      <3>1. ASSUME NEW e \in Engines, e \notin E, NEW names, DeliveredTo(e, names)
            PROVE  NowDelivered(e, names)
        BY <2>1, <3>1, <1>0 DEF DeliveredTo, NowDelivered
      <3> QED
        BY <2>4, <3>1 DEF KeepsDelivered
    <2>6. CASE q # r
      BY <2>1, <2>5, <2>6, <1>3 DEF HasAnswers
    <2>7. CASE q = r
      <3>1. /\ SameBucket(r) /\ rank'[r].pc = rank[r].pc /\ rank'[r].unsent = rank[r].unsent
            /\ rank'[r].unanswered = rank[r].unanswered \ (E \X {kind})
        BY <2>1, <2>7 DEF HasAnswers
      <3>2. \A c \in E \X {kind} : NowDelivered(c[1], NamesOf(Bucket(r)))
        BY <2>4, <2>7
      <3> QED
        BY <3>1, <3>2, <2>5, <1>0, <1>t, DeliveryStays
    <2> QED
      BY <2>6, <2>7
  <1>11. ASSUME NEW q \in Ranks, Broadcast(q) PROVE DeliveryOk(r)'
    BY <1>10, <1>11, LoadSteps
  <1>12. ASSUME NEW f \in Engines, NEW q \in Ranks, HandleEmpty(q, f) \/ HandleTensor(q, f)
         PROVE  DeliveryOk(r)'
    BY <1>10, <1>12, LoadSteps
  <1>13. ASSUME NEW f \in Engines, NEW q \in Ranks, LeaveGroup(q, f) PROVE DeliveryOk(r)'
    <2>1. HasAnswers(q, {f} \X {"destroy"})
      BY <1>13, <1>t, OtherSteps
    <2>2. KeepsDelivered
      BY <1>2, <1>13 DEF LeaveGroup
    <2>3. CASE q # r
      BY <2>1, <2>2, <2>3, <1>3 DEF HasAnswers
    <2>4. CASE q = r
      <3>1. \A c \in Due(r) : c \notin {f} \X {"destroy"}
        BY DEF Due
      <3> QED
        BY <2>1, <2>2, <2>4, <3>1, <1>0, <1>t, DeliveryStays DEF HasAnswers
    <2> QED
      BY <2>3, <2>4
  <1>14. ASSUME NEW f \in Engines, HandleCall(f) PROVE DeliveryOk(r)'
    <2>1. rank' = rank /\ rank[1].pc \notin Sending
      BY <1>14, CallsOk DEF HandleCall, Sending
    <2> QED
      BY <2>1, <1>1, <1>t
  <1>15. ASSUME NEW f \in Engines, RestartEngine(f) PROVE DeliveryOk(r)'
    <2>1. rank' = rank /\ rank[1].pc \notin Sending
      BY <1>15, <1>t, Updating DEF RestartEngine, Sending
    <2> QED
      BY <2>1, <1>1, <1>t
  <1>16. ASSUME NEW f \in Engines, Serve(f) PROVE DeliveryOk(r)'
    <2>1. \A e \in Engines : SameWeights(e)
      <3>1. EngineShape(engine[f])
        BY DEF TypeInv, EnginesTyped
      <3> QED
        BY <3>1, <1>16, <1>t DEF Serve, SameWeights, EngineShape
    <2>2. KeepsDelivered
      BY <2>1, <1>0, <1>16, DeliveredStays DEF Serve
    <2> QED
      BY <2>2, <1>3, <1>16 DEF Serve
  <1>17. CASE NextCall
    <2>1. rank'[1].pc \notin Sending
      BY <1>17, NextCallSteps DEF Sending
    <2> QED
      BY <2>1, <1>1, <1>t
  <1>18. CASE CallUpdate \/ BarrierConnected \/ BarrierFinalized
    <2>1. rank'[1].pc \notin Sending
      BY <1>18, <1>t, OtherSteps DEF AllStart, Sending
    <2> QED
      BY <2>1, <1>1, <1>t
  <1>19. CASE BarrierPrepared
    <2>1. rank'[r].pc = "buckets" /\ rank'[r].part = "non_expert" /\ rank'[r].bucket = 1
      BY <1>19, <1>t, OtherSteps DEF AllStart
    <2>2. ASSUME NEW part \in Parts, NEW k \in DOMAIN Planned(r, part) PROVE ~NowPast(r, part, k)
      <3>1. k \in 1..Len(Planned(r, part)) /\ Len(Planned(r, part)) \in Nat
        BY PlansOk
      <3> QED
        BY <2>1, <3>1 DEF NowPast
    <2> QED
      BY <2>1, <2>2, <1>0, DeliveryFrom
  <1>20. CASE BarrierSent
    <2>1. CASE rank'[1].pc \notin Sending
      BY <2>1, <1>1, <1>t
    <2>2. CASE rank'[1].pc \in Sending
      <3>1. /\ AllAt("sent") /\ AllStart("buckets", "expert") /\ rank[1].part = "non_expert"
        <4>1. AllStart("finalize", "expert") => rank'[1].pc \notin Sending
          BY <1>t DEF AllStart, Sending
        <4> QED
          BY <1>20, <2>2, <4>1, <1>t, OtherSteps
      <3>2. /\ rank[r].pc = "sent" /\ rank[r].pc \in Sending /\ rank[r].part = "non_expert"
            /\ rank'[r].pc = "buckets" /\ rank'[r].part = "expert" /\ rank'[r].bucket = 1
        BY <3>1 DEF AllAt, AllStart, PhaseInv, Sending
      <3>3. KeepsDelivered
        BY <1>2, <1>20 DEF BarrierSent
      <3>4. ASSUME IsSource(r), NEW part \in Parts, NEW k \in DOMAIN Planned(r, part),
                   NowPast(r, part, k), NEW e \in Sent(r)
            PROVE  NowDelivered(e, NamesOf(Planned(r, part)[k]))
        <4>1. k \in 1..Len(Planned(r, part)) /\ Len(Planned(r, part)) \in Nat
          BY PlansOk
        <4>2. part = "non_expert"
          BY <3>2, <3>4, <4>1 DEF NowPast
        <4>3. Past(r, part, k)
          BY <3>2, <4>2, AllPast
        <4>4. DeliveredTo(e, NamesOf(Planned(r, part)[k])) /\ e \in Engines
          BY <3>2, <3>4, <4>3, <1>t, SentOk DEF DeliveryOk
        <4> QED
          BY <4>4, <3>3 DEF KeepsDelivered
      <3> QED
        BY <3>2, <3>4, <1>0, DeliveryFrom
    <2> QED
      BY <2>1, <2>2
  <1> QED
    BY Steps, <1>4, <1>5, <1>6, <1>7, <1>8, <1>9, <1>11, <1>12, <1>13, <1>14, <1>15, <1>16, <1>17,
       <1>18, <1>19, <1>20

(***************************************************************************)
(* TransferInv.                                                            *)
(***************************************************************************)
LEMMA WritesNone ==
    ASSUME PhaseInv, args.transport # "p2p", writes = {}, [Next]_vars
    PROVE  writes' = {}
  <1>1. ASSUME NEW r \in Ranks, LoadAndWrite(r) PROVE FALSE
    BY <1>1 DEF LoadAndWrite, PhaseInv, Placed
  <1>2. ASSUME NEW r \in Ranks,
               \/ ReadEngines(r) \/ LeftGroup(r) \/ JoinGroup(r) \/ JoinedGroup(r) \/ Prepare(r)
               \/ Finalize(r) \/ StartBucket(r) \/ AcquireLock(r) \/ Broadcast(r) \/ BucketSent(r)
               \/ BucketsDone(r) \/ StageBucket(r) \/ WritesAwaited(r) \/ TransfersWaited(r)
               \/ \E c \in rank[r].unsent : SendCall(r, c)
        PROVE  writes' = writes
    BY <1>2 DEF ReadEngines, LeftGroup, JoinGroup, JoinedGroup, Prepare, Finalize, StartBucket,
       AcquireLock, Broadcast, BucketSent, BucketsDone, StageBucket, WritesAwaited, TransfersWaited, SendCall
  <1>3. ASSUME \/ \E e \in Engines :
                    \/ HandleCall(e) \/ RestartEngine(e) \/ Serve(e)
                    \/ \E r \in Ranks : LeaveGroup(r, e) \/ HandleEmpty(r, e) \/ HandleTensor(r, e)
               \/ NextCall \/ CallUpdate
               \/ BarrierConnected \/ BarrierPrepared \/ BarrierSent \/ BarrierFinalized
        PROVE  writes' = writes
    BY <1>3 DEF HandleCall, RestartEngine, Serve, LeaveGroup, HandleEmpty, HandleTensor, NextCall,
       CallUpdate, BarrierConnected, BarrierPrepared, BarrierSent, BarrierFinalized
  <1> QED
    BY Steps, <1>1, <1>2, <1>3 DEF vars

LEMMA BegunStays ==
    ASSUME line' = line, NEW r \in Ranks, SameBucket(r), Loading(r)' <=> Loading(r)
    PROVE  \A n : Begun(r, n)' <=> Begun(r, n)
  <1>1. /\ Parts' = Parts /\ \A part : Planned(r, part)' = Planned(r, part)
    BY LineStays
  <1>2. \A part, k : Past(r, part, k)' <=> Past(r, part, k)
    BY DEF Past
  <1>3. \A part, k, n : Carries(r, part, k, n)' <=> Carries(r, part, k, n)
    BY <1>1 DEF Carries
  <1> QED
    BY <1>1, <1>2, <1>3 DEF Begun

\* Nothing that the transfers of rank r depend on changes.
LEMMA SourceStays ==
    ASSUME line' = line, NEW r \in Ranks, SourceSound(r), rank'[r].pc = rank[r].pc, SameBucket(r),
           SameNames(r), staged'[r] = staged[r],
           \A w \in writes' : w.rank = r => w \in writes,
           \A n \in Names : \A t \in Targets(r) :
                /\ Arrived(r, n, t) => Arrived(r, n, t)'
                /\ InFlight(r, n, t) => InFlight(r, n, t)' \/ Arrived(r, n, t)'
    PROVE  SourceSound(r)'
  <1>1. /\ Names' = Names /\ Targets(r)' = Targets(r) /\ TargetRanks(r)' = TargetRanks(r)
        /\ Params(r)' = Params(r)
    BY LineStays
  <1>2. Loading(r)' <=> Loading(r)
    BY DEF Loading
  <1>3. \A n : Begun(r, n)' <=> Begun(r, n)
    BY <1>2, BegunStays
  <1>4. \A n, t : ToDo(r, n, t)' <=> ToDo(r, n, t)
    BY <1>1, <1>2 DEF ToDo
  <1>5. ASSUME rank[r].pc \in Sending, NEW n \in Names, Begun(r, n), n \notin staged[r], NEW t \in Targets(r)
        PROVE  InFlight(r, n, t)' \/ Arrived(r, n, t)' \/ ToDo(r, n, t)'
    BY <1>4, <1>5 DEF SourceSound
  <1> QED
    BY <1>1, <1>2, <1>3, <1>5 DEF SourceSound

LEMMA WriteStays ==
    ASSUME line' = line, NEW w, WriteSound(w), rank'[w.rank].pc = rank[w.rank].pc, SameBucket(w.rank),
           SameNames(w.rank), staged'[w.rank] = staged[w.rank], pinned'[w.rank] = pinned[w.rank],
           weight_version'[w.rank] = weight_version[w.rank]
    PROVE  WriteSound(w)'
  <1>1. /\ Ranks' = Ranks /\ Names' = Names /\ Targets(w.rank)' = Targets(w.rank)
        /\ TargetRanks(w.rank)' = TargetRanks(w.rank) /\ (IsSource(w.rank)' <=> IsSource(w.rank))
    BY LineStays
  <1>2. Loading(w.rank)' <=> Loading(w.rank)
    BY DEF Loading
  <1>3. w.rank \in Ranks /\ \A n : Begun(w.rank, n)' <=> Begun(w.rank, n)
    BY <1>2, BegunStays DEF WriteSound
  <1>4. Turn(w.rank)' = Turn(w.rank)
    BY <1>1 DEF Turn
  <1> QED
    BY <1>1, <1>2, <1>3, <1>4 DEF WriteSound

\* Neither the weights nor the versions change, and writes are only added.
LEMMA FlightStays ==
    ASSUME TypeInv, PlansCover, args.transport = "p2p", line' = line, NEW r \in Ranks, IsSource(r),
           weight_version'[r] = weight_version[r],
           \A e \in Engines : engine'[e].weights = engine[e].weights,
           \A w \in writes : w \in writes'
    PROVE  \A n \in Names : \A t \in Targets(r) :
                /\ Arrived(r, n, t) => Arrived(r, n, t)'
                /\ InFlight(r, n, t) => InFlight(r, n, t)'
  <1>1. \A t \in Targets(r) : t[1] \in Engines
    BY DEF PlansCover
  <1> QED
    BY <1>1 DEF Arrived, InFlight

\* Rank r alone goes on.
LEMMA TransferMove ==
    ASSUME TypeInv, PlansCover, args.transport = "p2p", line' = line, TransfersSound,
           NEW r \in Ranks, Only(r), weight_version' = weight_version,
           \A e \in Engines : engine'[e].weights = engine[e].weights,
           \A q \in Ranks : q # r => staged'[q] = staged[q] /\ pinned'[q] = pinned[q],
           \A w \in writes : w \in writes',
           \A w \in writes' : w.rank # r => w \in writes,
           IsSource(r) => SourceSound(r)',
           \A w \in writes' : w.rank = r => WriteSound(w)'
    PROVE  TransfersSound'
  <1>1. ASSUME NEW q \in Ranks, IsSource(q), q # r PROVE SourceSound(q)'
    <2>1. SourceSound(q)
      BY <1>1 DEF TransfersSound
    <2>2. \A n \in Names : \A t \in Targets(q) :
                /\ Arrived(q, n, t) => Arrived(q, n, t)'
                /\ InFlight(q, n, t) => InFlight(q, n, t)'
      BY <1>1, FlightStays
    <2>3. \A w \in writes' : w.rank = q => w \in writes
      BY <1>1
    <2> QED
      BY <1>1, <2>1, <2>2, <2>3, SourceStays
  <1>2. ASSUME NEW w \in writes', w.rank # r PROVE WriteSound(w)'
    <2>1. w \in writes /\ WriteSound(w)
      BY <1>2 DEF TransfersSound
    <2>2. w.rank \in Ranks
      BY <2>1 DEF WriteSound
    <2> QED
      BY <1>2, <2>1, <2>2, WriteStays
  <1> QED
    BY <1>1, <1>2, LineStays DEF TransfersSound

LEMMA TransferKeep ==
    ASSUME TypeInv, PlansCover, args.transport = "p2p", line' = line, TransfersSound,
           \A q \in Ranks : rank'[q].pc = rank[q].pc /\ SameBucket(q) /\ SameNames(q),
           weight_version' = weight_version,
           \A e \in Engines : engine'[e].weights = engine[e].weights,
           staged' = staged, pinned' = pinned, writes' = writes
    PROVE  TransfersSound'
  <1>1. ASSUME NEW q \in Ranks, IsSource(q) PROVE SourceSound(q)'
    <2>1. SourceSound(q)
      BY <1>1 DEF TransfersSound
    <2>2. \A n \in Names : \A t \in Targets(q) :
                /\ Arrived(q, n, t) => Arrived(q, n, t)'
                /\ InFlight(q, n, t) => InFlight(q, n, t)'
      BY <1>1, FlightStays
    <2> QED
      BY <2>1, <2>2, SourceStays
  <1>2. ASSUME NEW w \in writes PROVE WriteSound(w)'
    <2>1. WriteSound(w)
      BY DEF TransfersSound
    <2>2. w.rank \in Ranks
      BY <2>1 DEF WriteSound
    <2> QED
      BY <2>1, <2>2, WriteStays
  <1> QED
    BY <1>1, <1>2, LineStays DEF TransfersSound

\* Where one rank does not send, nothing is under way.
LEMMA NoWrites ==
    ASSUME PhaseInv, TransfersSound, 1 \in Ranks, NEW r \in Ranks, rank[r].pc \notin Sending
    PROVE  writes = {} /\ \A q \in Ranks : rank[q].pc \notin Sending /\ (IsSource(q) => staged[q] = {})
  <1>1. \A q \in Ranks : rank[q].pc \notin Sending
    BY Phases DEF PhaseInv, Together, InPhase
  <1> QED
    BY <1>1 DEF TransfersSound, SourceSound, WriteSound

LEMMA QuietTransfers ==
    ASSUME line' = line, PhaseInv, PhaseInv', TransfersSound, 1 \in Ranks,
           NEW r \in Ranks, rank[r].pc \notin Sending, rank'[r].pc \notin Sending,
           staged' = staged, writes' = writes
    PROVE  TransfersSound'
  <1>1. writes = {} /\ \A q \in Ranks : IsSource(q) => staged[q] = {}
    BY NoWrites
  <1>2. \A q \in Ranks : rank'[q].pc \notin Sending
    BY NoneSends
  <1>3. ASSUME NEW q \in Ranks, IsSource(q) PROVE SourceSound(q)'
    <2>1. ~Loading(q)' /\ rank'[q].pc # "sent"
      BY <1>2 DEF Loading, Sending
    <2> QED
      BY <1>1, <1>2, <1>3, <2>1 DEF SourceSound
  <1> QED
    BY <1>1, <1>3, LineStays DEF TransfersSound

\* A source goes on from the end of its buckets.
LEMMA SourceMoves ==
    ASSUME TypeInv, PlansCover, args.transport = "p2p", line' = line, TransfersSound,
           NEW r \in Ranks, Only(r), SameBucket(r), rank[r].pc \in Sending, rank'[r].pc \in Sending,
           ~Loading(r), ~Loading(r)',
           weight_version' = weight_version, engine' = engine,
           staged' = staged, pinned' = pinned, writes' = writes,
           IsSource(r) /\ rank'[r].pc = "sent" /\ rank[r].part = "expert" =>
                staged[r] = {} /\ \A w \in writes : w.rank # r
    PROVE  TransfersSound'
  <1>1. \A n : Begun(r, n)' <=> Begun(r, n)
    BY BegunStays
  <1>2. /\ Names' = Names /\ Targets(r)' = Targets(r) /\ Ranks' = Ranks /\ (IsSource(r)' <=> IsSource(r))
    BY LineStays
  <1>3. ASSUME IsSource(r) PROVE SourceSound(r)'
    <2>1. SourceSound(r)
      BY <1>3 DEF TransfersSound
    <2>2. ASSUME NEW n \in Names, Begun(r, n), n \notin staged[r], NEW t \in Targets(r)
          PROVE  InFlight(r, n, t)' \/ Arrived(r, n, t)'
      <3>1. InFlight(r, n, t) \/ Arrived(r, n, t)
        BY <2>1, <2>2 DEF SourceSound, ToDo
      <3> QED
        BY <3>1, <1>3, <2>2, FlightStays
    <2> QED
      BY <1>1, <1>2, <1>3, <2>1, <2>2 DEF SourceSound
  <1>4. ASSUME NEW w \in writes, w.rank = r PROVE WriteSound(w)'
    <2>1. WriteSound(w)
      BY DEF TransfersSound
    <2> QED
      BY <1>1, <1>2, <1>4, <2>1 DEF WriteSound
  <1> QED
    BY <1>3, <1>4, TransferMove

\* A source comes to a bucket: its names are in no bucket before.
LEMMA BegunNext ==
    ASSUME TypeInv, PhaseInv, PlansCover, args.transport = "p2p", line' = line,
           NEW r \in Ranks, IsSource(r), rank[r].pc = "buckets", rank[r].bucket <= Len(Buckets(r)),
           rank'[r].part = rank[r].part,
           \/ rank'[r].pc = "buckets" /\ rank'[r].bucket = rank[r].bucket + 1
           \/ rank'[r].pc = "load" /\ rank'[r].bucket = rank[r].bucket
    PROVE  \A n : /\ Begun(r, n)' <=> Begun(r, n) \/ n \in NamesOf(Bucket(r))
                  /\ Begun(r, n) => n \notin NamesOf(Bucket(r))
  <1> DEFINE p == rank[r].part
             b == rank[r].bucket
  <1>1. p \in Parts /\ Buckets(r) = Planned(r, p) /\ b \in Nat /\ b > 0
    BY RankFields, CountsOk DEF PhaseInv, Sending, Buckets, TypeInv
  <1>2. b \in DOMAIN Planned(r, p) /\ Bucket(r) = Planned(r, p)[b]
    BY <1>1, PlansOk DEF Bucket
  <1>3. \A q \in Parts : \A k \in DOMAIN Planned(r, q) : k \in Nat
    BY PlansOk
  <1>4. \A n : Carries(r, p, b, n) <=> n \in NamesOf(Bucket(r))
    BY <1>1, <1>2, PlansOk DEF Carries
  <1>5. Parts' = Parts /\ (\A q : Planned(r, q)' = Planned(r, q))
        /\ \A q, k, n : Carries(r, q, k, n)' <=> Carries(r, q, k, n)
    BY LineStays DEF Carries
  <1>6. \A q \in Parts : \A k \in DOMAIN Planned(r, q) :
            (Past(r, q, k)' \/ (Loading(r)' /\ q = rank'[r].part /\ k = rank'[r].bucket))
                <=> (Past(r, q, k) \/ (q = p /\ k = b))
    <2>1. ASSUME NEW q \in Parts, NEW k \in DOMAIN Planned(r, q)
          PROVE  (Past(r, q, k)' \/ (Loading(r)' /\ q = rank'[r].part /\ k = rank'[r].bucket))
                    <=> (Past(r, q, k) \/ (q = p /\ k = b))
      <3>1. CASE rank'[r].pc = "buckets" /\ rank'[r].bucket = b + 1
        BY <1>1, <1>3, <3>1 DEF Past, Loading
      <3>2. CASE rank'[r].pc = "load" /\ rank'[r].bucket = b
        BY <1>1, <1>3, <3>2 DEF Past, Loading
      <3> QED
        BY <3>1, <3>2
    <2> QED
      BY <2>1
  <1>7. ASSUME NEW n PROVE Begun(r, n)' <=> Begun(r, n) \/ n \in NamesOf(Bucket(r))
    <2>1. Begun(r, n)' <=> \E q \in Parts : \E k \in DOMAIN Planned(r, q) :
            Carries(r, q, k, n) /\ (Past(r, q, k) \/ (q = p /\ k = b))
      BY <1>5, <1>6 DEF Begun
    <2>2. Begun(r, n) <=> \E q \in Parts : \E k \in DOMAIN Planned(r, q) :
            Carries(r, q, k, n) /\ Past(r, q, k)
      BY DEF Begun, Loading
    <2> QED
      BY <2>1, <2>2, <1>1, <1>2, <1>4
  <1>8. ASSUME NEW n, Begun(r, n) PROVE n \notin NamesOf(Bucket(r))
    <2>1. PICK q \in Parts : \E k \in DOMAIN Planned(r, q) : Carries(r, q, k, n) /\ Past(r, q, k)
      BY <1>8 DEF Begun, Loading
    <2>2. PICK k \in DOMAIN Planned(r, q) : Carries(r, q, k, n) /\ Past(r, q, k)
      BY <2>1
    <2>3. ~(q = p /\ k = b)
      BY <2>2, <1>1, <1>3 DEF Past
    <2>4. n \in NamesOf(Planned(r, q)[k])
      BY <2>2 DEF Carries
    <2>5. NamesOf(Planned(r, q)[k]) \cap NamesOf(Planned(r, p)[b]) = {}
      BY <2>3, <1>1, <1>2 DEF PlansCover
    <2> QED
      BY <2>4, <2>5, <1>2
  <1> QED
    BY <1>7, <1>8

\* _get_transfer_ready_params gives parameters of the rank that are there.
LEMMA ReadyOk ==
    ASSUME NEW r, NEW there
    PROVE  Ready(r, there) \subseteq there /\ Ready(r, there) \subseteq NamesOf(ToSet(Params(r)))
  <1>1. Ready(r, there) \subseteq there
    BY DEF Ready
  <1>2. ASSUME NEW n \in Ready(r, there) PROVE n \in NamesOf(ToSet(Params(r)))
    <2>1. PICK p \in Bucket(r) : n \in Whole(r, p)
      BY <1>2 DEF Ready
    <2> QED
      BY <2>1 DEF Whole, NamesOf
  <1> QED
    BY <1>1, <1>2

LEMMA StageOk ==
    ASSUME TypeInv, PhaseInv, PlansCover, line' = line, TransfersSound, NEW r \in Ranks, StageBucket(r)
    PROVE  TransfersSound'
  <1> DEFINE names == NamesOf(Bucket(r))
             there == staged[r] \cup names
             ready == Ready(r, there)
  <1>t. rank \in [Ranks -> RankOf] /\ staged \in [Ranks -> SUBSET Names]
    BY DEF TypeInv, BuffersTyped
  <1>1. /\ args.transport = "p2p" /\ IsSource(r) /\ rank[r].pc = "buckets"
        /\ rank[r].bucket <= Len(Buckets(r)) /\ Only(r) /\ rank'[r].part = rank[r].part
    BY <1>t, StageSteps DEF Advances
  <1>2. /\ staged' = [staged EXCEPT ![r] = there \ ready] /\ weight_version' = weight_version
        /\ engine' = engine /\ pinned' = pinned /\ writes' = writes
    BY DEF StageBucket
  <1>3. \/ ready = {} /\ rank'[r].pc = "buckets" /\ rank'[r].bucket = rank[r].bucket + 1
        \/ /\ rank'[r].pc = "load" /\ rank'[r].bucket = rank[r].bucket
           /\ rank'[r].names = ready /\ rank'[r].turn = 1
    BY <1>t, StageSteps DEF Advances
  <1>4. ready \subseteq there /\ ready \subseteq NamesOf(ToSet(Params(r)))
    BY ReadyOk
  <1>5. \A n : /\ Begun(r, n)' <=> Begun(r, n) \/ n \in names
               /\ Begun(r, n) => n \notin names
    BY <1>1, <1>3, BegunNext
  <1>6. SourceSound(r)
    BY <1>1 DEF TransfersSound
  <1>7. staged'[r] = there \ ready
    BY <1>2, <1>t
  <1> HIDE DEF names, there, ready
  <1>8. /\ Names' = Names /\ Targets(r)' = Targets(r) /\ TargetRanks(r)' = TargetRanks(r) /\ Ranks' = Ranks
        /\ Params(r)' = Params(r) /\ (IsSource(r)' <=> IsSource(r))
    BY LineStays
  <1>9. ASSUME NEW n \in Names, Begun(r, n), n \notin staged[r]
        PROVE  n \notin there /\ n \notin ready
    BY <1>4, <1>5, <1>9 DEF there
  <1>10. ASSUME NEW n \in Names, Begun(r, n)', n \notin staged'[r], NEW t \in Targets(r)
         PROVE  InFlight(r, n, t)' \/ Arrived(r, n, t)' \/ ToDo(r, n, t)'
    <2>1. CASE n \in ready
      <3>1. rank'[r].pc = "load" /\ rank'[r].names = ready /\ rank'[r].turn = 1
        BY <1>3, <2>1
      <3>2. t[2] \in ToSet(TargetRanks(r)) /\ TargetRanks(r) \in Seq(Gpus)
        BY <1>1 DEF PlansCover
      <3>3. PICK k \in DOMAIN TargetRanks(r) : TargetRanks(r)[k] = t[2]
        BY <3>2 DEF ToSet
      <3>4. k >= 1
        BY <3>2, <3>3
      <3> QED
        BY <2>1, <3>1, <3>3, <3>4, <1>8 DEF ToDo, Loading
    <2>2. CASE n \notin ready
      <3>1. n \notin there
        BY <1>7, <1>10, <2>2
      <3>2. Begun(r, n) /\ n \notin staged[r]
        BY <3>1, <1>5, <1>10 DEF there
      <3>3. InFlight(r, n, t) \/ Arrived(r, n, t)
        BY <3>2, <1>1, <1>6, <1>10 DEF SourceSound, ToDo, Loading, Sending
      <3> QED
        BY <3>3, <1>1, <1>2, <1>10, FlightStays
    <2> QED
      BY <2>1, <2>2
  <1>11. SourceSound(r)'
    <2>1. rank'[r].pc \in Sending /\ rank'[r].pc # "sent"
      BY <1>3 DEF Sending
    <2>2. \A n \in staged'[r] : Begun(r, n)'
      BY <1>5, <1>6, <1>7 DEF SourceSound, there
    <2>3. Loading(r)' => /\ rank'[r].names \subseteq NamesOf(ToSet(Params(r)))
                         /\ \A n \in rank'[r].names : Begun(r, n)' /\ n \notin staged'[r]
      <3>1. \A n \in ready : Begun(r, n)'
        BY <1>4, <1>5, <1>6 DEF SourceSound, there
      <3> QED
        BY <3>1, <1>3, <1>4, <1>7 DEF Loading
    <2> QED
      BY <2>1, <2>2, <2>3, <1>8, <1>10 DEF SourceSound
  <1>12. ASSUME NEW w \in writes, w.rank = r PROVE WriteSound(w)'
    <2>1. WriteSound(w)
      BY DEF TransfersSound
    <2>2. \A n \in w.names : n \in Names /\ n \notin ready /\ n \notin staged'[r] /\ Begun(r, n)'
      BY <2>1, <1>5, <1>7, <1>9, <1>12 DEF WriteSound
    <2>3. rank'[r].pc \in Sending /\ (Loading(r)' => rank'[r].names = ready)
      BY <1>3 DEF Sending, Loading
    <2> QED
      BY <2>1, <2>2, <2>3, <1>2, <1>8, <1>12 DEF WriteSound
  <1> QED
    BY <1>1, <1>2, <1>11, <1>12, <1>t, TransferMove

LEMMA LoadOk ==
    ASSUME TypeInv, PhaseInv, PlansCover, line' = line, TransfersSound, NEW r \in Ranks, IsSource(r),
           LoadAndWrite(r)
    PROVE  TransfersSound'
  <1> DEFINE names == rank[r].names
             turn == rank[r].turn
             last == Len(TargetRanks(r))
             added == {[rank |-> r, target |-> t, names |-> names] : t \in {u \in Targets(r) : u[2] = Turn(r)}}
  <1>t. /\ rank \in [Ranks -> RankOf] /\ turn \in Nat /\ names \subseteq Names
        /\ DOMAIN pinned = Ranks /\ DOMAIN pinned[r] = NamesOf(ToSet(Params(r)))
        /\ rank[r].bucket \in Nat
    BY RankFields, CountsOk DEF TypeInv, BuffersTyped
  <1>1. args.transport = "p2p" /\ rank[r].pc = "load" /\ turn <= last /\ TargetRanks(r) \in Seq(Gpus)
    BY DEF LoadAndWrite, PhaseInv, Placed, PlansCover
  <1>2. /\ pinned' = [pinned EXCEPT ![r] = [n \in DOMAIN pinned[r] |->
                IF n \in names THEN <<weight_version[r], Turn(r)>> ELSE pinned[r][n]]]
        /\ writes' = writes \cup added
        /\ weight_version' = weight_version /\ engine' = engine /\ staged' = staged
    BY DEF LoadAndWrite
  <1>3. /\ Only(r) /\ rank'[r].part = rank[r].part /\ SameNames(r)
        /\ \/ turn = last /\ rank'[r].pc = "buckets" /\ rank'[r].bucket = rank[r].bucket + 1
           \/ turn # last /\ rank'[r].pc = "await" /\ rank'[r].bucket = rank[r].bucket
    BY <1>t, RankSteps DEF Advances, Moves
  <1>4. SourceSound(r) /\ Loading(r) /\ last \in Nat
    BY <1>1 DEF TransfersSound, Loading
  <1>5. names \subseteq NamesOf(ToSet(Params(r))) /\ \A n \in names : Begun(r, n) /\ n \notin staged[r]
    BY <1>4 DEF SourceSound
  <1>6. /\ Names' = Names /\ Targets(r)' = Targets(r) /\ TargetRanks(r)' = TargetRanks(r) /\ Ranks' = Ranks
        /\ Params(r)' = Params(r) /\ (IsSource(r)' <=> IsSource(r))
        /\ Parts' = Parts /\ (\A q : Planned(r, q)' = Planned(r, q))
    BY LineStays
  <1>7. ASSUME NEW n PROVE Begun(r, n)' <=> Begun(r, n)
    <2>1. \A q \in Parts : \A k \in DOMAIN Planned(r, q) : k \in Nat
      BY PlansOk
    <2>2. \A q, k : Carries(r, q, k, n)' <=> Carries(r, q, k, n)
      BY <1>6 DEF Carries
    <2>3. ASSUME NEW q \in Parts, NEW k \in DOMAIN Planned(r, q)
          PROVE  (Past(r, q, k)' \/ (Loading(r)' /\ q = rank'[r].part /\ k = rank'[r].bucket))
                    <=> (Past(r, q, k) \/ (Loading(r) /\ q = rank[r].part /\ k = rank[r].bucket))
      <3>1. k \in Nat
        BY <2>1
      <3>2. CASE rank'[r].pc = "buckets" /\ rank'[r].bucket = rank[r].bucket + 1
        BY <1>3, <1>4, <1>t, <3>1, <3>2 DEF Past, Loading
      <3>3. CASE rank'[r].pc = "await" /\ rank'[r].bucket = rank[r].bucket
        BY <1>3, <1>4, <3>3 DEF Past, Loading
      <3> QED
        BY <1>3, <3>2, <3>3
    <2> QED
      BY <2>2, <2>3, <1>6 DEF Begun
  <1>8. ASSUME NEW n \in Names, Begun(r, n), n \notin staged[r], NEW t \in Targets(r)
        PROVE  InFlight(r, n, t)' \/ Arrived(r, n, t)' \/ ToDo(r, n, t)'
    <2>1. CASE InFlight(r, n, t) \/ Arrived(r, n, t)
      BY <2>1, <1>1, <1>2, FlightStays
    <2>2. CASE ToDo(r, n, t)
      <3>1. n \in names
        BY <2>2 DEF ToDo
      <3>2. PICK k \in DOMAIN TargetRanks(r) : TargetRanks(r)[k] = t[2] /\ k >= turn
        BY <2>2, <1>1 DEF ToDo
      <3>3. CASE k = turn
        <4>1. t[2] = Turn(r)
          BY <3>2, <3>3 DEF Turn
        <4>2. [rank |-> r, target |-> t, names |-> names] \in writes'
          BY <4>1, <1>2
        <4> QED
          BY <4>2, <3>1 DEF InFlight
      <3>4. CASE k # turn
        <4>1. k \in Nat /\ k <= last
          BY <1>1, <3>2
        <4>2. k > turn /\ turn # last
          BY <4>1, <3>2, <3>4, <1>1, <1>4, <1>t
        <4>3. rank'[r].pc = "await" /\ rank'[r].names = names /\ rank'[r].turn = turn
          BY <4>2, <1>3
        <4> QED
          BY <4>2, <4>3, <3>1, <3>2, <1>6 DEF ToDo, Loading
      <3> QED
        BY <3>3, <3>4
    <2> QED
      BY <2>1, <2>2, <1>1, <1>4, <1>8 DEF SourceSound, Sending
  <1>9. rank'[r].pc \in Sending /\ rank'[r].pc # "sent" /\ rank'[r].names = names
    BY <1>3 DEF Sending
  <1>10. SourceSound(r)'
    BY <1>2, <1>4, <1>5, <1>6, <1>7, <1>8, <1>9 DEF SourceSound
  <1>11. Turn(r)' = Turn(r)
    BY <1>3, <1>6 DEF Turn
  <1>12. ASSUME NEW w \in writes', w.rank = r PROVE WriteSound(w)'
    <2>1. CASE w \in writes
      <3>1. WriteSound(w)
        BY <2>1 DEF TransfersSound
      <3>2. \A n \in w.names : n \notin names
        BY <3>1, <1>1, <1>4, <1>12 DEF WriteSound
      <3>3. \A n \in w.names : pinned'[r][n] = <<weight_version[r], w.target[2]>>
        <4>1. ASSUME NEW n \in w.names PROVE pinned'[r][n] = <<weight_version[r], w.target[2]>>
          <5>1. n \in DOMAIN pinned[r] => pinned'[r][n] = pinned[r][n]
            BY <3>2, <1>2, <1>t
          <5>2. n \in DOMAIN pinned[r]
            BY <3>1, <1>12, <1>t DEF WriteSound
          <5> QED
            BY <5>1, <5>2, <3>1, <1>12 DEF WriteSound
        <4> QED
          BY <4>1
      <3> QED
        BY <3>1, <3>2, <3>3, <1>2, <1>6, <1>7, <1>9, <1>12 DEF WriteSound
    <2>2. CASE w \notin writes
      <3>1. PICK t \in Targets(r) : t[2] = Turn(r) /\ w = [rank |-> r, target |-> t, names |-> names]
        BY <2>2, <1>2
      <3>2. w.rank = r /\ w.target = t /\ w.names = names
        BY <3>1
      <3>3. \A n \in names : pinned'[r][n] = <<weight_version[r], t[2]>>
        BY <3>1, <1>2, <1>5, <1>t
      <3>4. Loading(r)' => rank'[r].pc = "await"
        BY <1>3 DEF Loading
      <3> QED
        BY <3>1, <3>2, <3>3, <3>4, <1>2, <1>5, <1>6, <1>7, <1>9, <1>11, <1>t DEF WriteSound
    <2> QED
      BY <2>1, <2>2
  <1>13. \A w \in writes' : w.rank # r => w \in writes
    BY <1>2
  <1> QED
    BY <1>1, <1>2, <1>3, <1>10, <1>12, <1>13, <1>t, TransferMove

\* The writes to one rank of engines are there before the next one's begin.
LEMMA AwaitOk ==
    ASSUME TypeInv, PhaseInv, PlansCover, line' = line, TransfersSound, NEW r \in Ranks, IsSource(r),
           WritesAwaited(r)
    PROVE  TransfersSound'
  <1>t. rank \in [Ranks -> RankOf] /\ rank[r].turn \in Nat
    BY RankFields, CountsOk DEF TypeInv
  <1>1. /\ rank[r].pc = "await" /\ Awaited(r) = {} /\ Only(r) /\ SameBucket(r)
        /\ rank'[r].pc = "load" /\ rank'[r].names = rank[r].names /\ rank'[r].turn = rank[r].turn + 1
    BY <1>t, RankSteps DEF WritesAwaited
  <1>2. UNCHANGED <<weight_version, engine, staged, pinned, writes>>
    BY DEF WritesAwaited
  <1>3. args.transport = "p2p" /\ TargetRanks(r) \in Seq(Gpus)
    BY <1>1 DEF PhaseInv, Placed, PlansCover
  <1>4. Loading(r) /\ Loading(r)' /\ \A n : Begun(r, n)' <=> Begun(r, n)
    BY <1>1, BegunStays DEF Loading
  <1>5. /\ Names' = Names /\ Targets(r)' = Targets(r) /\ TargetRanks(r)' = TargetRanks(r) /\ Ranks' = Ranks
        /\ Params(r)' = Params(r) /\ (IsSource(r)' <=> IsSource(r))
    BY LineStays
  <1>6. \A n, t : ToDo(r, n, t) => ToDo(r, n, t)'
    <2>1. \A k \in DOMAIN TargetRanks(r) : k \in Nat
      BY <1>3
    <2> QED
      BY <2>1, <1>1, <1>4, <1>5, <1>t DEF ToDo
  <1>7. SourceSound(r)
    BY DEF TransfersSound
  <1>8. ASSUME NEW n \in Names, Begun(r, n), n \notin staged[r], NEW t \in Targets(r)
        PROVE  InFlight(r, n, t)' \/ Arrived(r, n, t)' \/ ToDo(r, n, t)'
    <2>1. InFlight(r, n, t) \/ Arrived(r, n, t) \/ ToDo(r, n, t)
      BY <1>1, <1>7, <1>8 DEF SourceSound, Sending
    <2> QED
      BY <2>1, <1>2, <1>3, <1>6, <1>8, FlightStays
  <1>9. SourceSound(r)'
    <2>1. rank'[r].pc \in Sending /\ rank'[r].pc # "sent"
      BY <1>1 DEF Sending
    <2> QED
      BY <2>1, <1>1, <1>2, <1>4, <1>5, <1>7, <1>8 DEF SourceSound
  <1>10. ASSUME NEW w \in writes, w.rank = r PROVE WriteSound(w)'
    <2>1. WriteSound(w)
      BY DEF TransfersSound
    <2>2. w \notin Awaited(r)
      BY <1>1
    <2>3. \A n \in w.names : n \notin rank[r].names
      BY <2>1, <2>2, <1>4, <1>10 DEF WriteSound, Awaited
    <2>4. rank'[r].pc \in Sending
      BY <1>1 DEF Sending
    <2> QED
      BY <2>1, <2>3, <2>4, <1>1, <1>2, <1>4, <1>5, <1>10 DEF WriteSound
  <1> QED
    BY <1>1, <1>2, <1>3, <1>9, <1>10, TransferMove

\* A write brings what the rank has loaded for that rank of the engines.
LEMMA WriteOk ==
    ASSUME TypeInv, PhaseInv, PlansCover, VersionInv, args.transport = "p2p", line' = line,
           TransfersSound, NEW w \in writes, WriteDone(w)
    PROVE  TransfersSound'
  <1> DEFINE q == w.rank
             target == w.target
  <1>1. WriteSound(w)
    BY DEF TransfersSound
  <1>2. q \in Ranks /\ IsSource(q) /\ target \in Targets(q) /\ rank[q].pc \in Sending
    BY <1>1 DEF WriteSound
  <1>3. TargetRanks(q) \in Seq(Gpus) /\ target[1] \in Engines /\ target[2] \in Gpus
    <2>1. TargetRanks(q) \in Seq(Gpus) /\ target \in Engines \X ToSet(TargetRanks(q))
      BY <1>2 DEF PlansCover
    <2>2. ToSet(TargetRanks(q)) \subseteq Gpus
      BY <2>1 DEF ToSet
    <2> QED
      BY <2>1, <2>2
  <1>4. /\ writes' = writes \ {w} /\ UNCHANGED <<weight_version, rank, staged, pinned>>
        /\ engine' = [engine EXCEPT ![target[1]].weights = [x \in DOMAIN engine[target[1]].weights |->
                IF x[1] = target[2] /\ x[2] \in w.names
                THEN pinned[q][x[2]] ELSE engine[target[1]].weights[x]]]
    BY DEF WriteDone
  <1>t. DOMAIN engine = Engines /\ \A e \in Engines : EngineShape(engine[e])
    BY DEF TypeInv, EnginesTyped
  <1>5. weight_version[q] = weight_version[1]
    BY <1>2, SameVersions
  <1>6. \A n \in w.names : pinned[q][n] = <<weight_version[1], target[2]>>
    BY <1>1, <1>5 DEF WriteSound
  <1>7. \A e \in Engines : \A x \in Gpus \X Names :
            engine'[e].weights[x] = IF e = target[1] /\ x[1] = target[2] /\ x[2] \in w.names
                                    THEN pinned[q][x[2]] ELSE engine[e].weights[x]
    <2>1. \A e \in Engines : e # target[1] => engine'[e] = engine[e]
      BY <1>4, <1>t
    <2>2. engine'[target[1]].weights = [x \in Gpus \X Names |->
                IF x[1] = target[2] /\ x[2] \in w.names
                THEN pinned[q][x[2]] ELSE engine[target[1]].weights[x]]
      BY <1>3, <1>4, <1>t DEF EngineShape
    <2> QED
      BY <2>1, <2>2
  <1> HIDE DEF q, target
  <1>8. ASSUME NEW r \in Ranks, IsSource(r), rank[r].pc \in Sending, NEW n \in Names, NEW t \in Targets(r)
        PROVE  /\ Arrived(r, n, t) => Arrived(r, n, t)'
               /\ r = q /\ t = target /\ n \in w.names => Arrived(r, n, t)'
    <2>1. t[1] \in Engines /\ t[2] \in Gpus
      <3>1. TargetRanks(r) \in Seq(Gpus) /\ t \in Engines \X ToSet(TargetRanks(r))
        BY <1>8 DEF PlansCover
      <3>2. ToSet(TargetRanks(r)) \subseteq Gpus
        BY <3>1 DEF ToSet
      <3> QED
        BY <3>1, <3>2
    <2>2. weight_version[r] = weight_version[1]
      BY <1>8, SameVersions
    <2>3. engine'[t[1]].weights[<<t[2], n>>] =
            IF t[1] = target[1] /\ t[2] = target[2] /\ n \in w.names
            THEN <<weight_version[1], t[2]>> ELSE engine[t[1]].weights[<<t[2], n>>]
      <3>1. <<t[2], n>> \in Gpus \X Names /\ <<t[2], n>>[1] = t[2] /\ <<t[2], n>>[2] = n
        BY <2>1, <1>8
      <3> QED
        BY <3>1, <2>1, <1>6, <1>7
    <2> QED
      BY <2>2, <2>3, <1>4 DEF Arrived
  <1>9. ASSUME NEW r \in Ranks, IsSource(r) PROVE SourceSound(r)'
    <2>1. SourceSound(r)
      BY <1>9 DEF TransfersSound
    <2>2. CASE rank[r].pc \notin Sending
      <3>1. staged[r] = {} /\ ~Loading(r)
        BY <2>1, <2>2 DEF SourceSound, Loading, Sending
      <3>2. ~Loading(r)' /\ staged'[r] = {} /\ rank'[r].pc \notin Sending /\ rank'[r].pc # "sent"
        BY <3>1, <2>2, <1>4 DEF Loading, Sending
      <3> QED
        BY <3>2 DEF SourceSound
    <2>3. CASE rank[r].pc \in Sending
      <3>1. ASSUME NEW n \in Names, NEW t \in Targets(r), InFlight(r, n, t)
            PROVE  InFlight(r, n, t)' \/ Arrived(r, n, t)'
        <4>1. PICK v \in writes : v.rank = r /\ v.target = t /\ n \in v.names
          BY <3>1 DEF InFlight
        <4>2. CASE v = w
          BY <4>1, <4>2, <3>1, <2>3, <1>8, <1>9 DEF q, target
        <4>3. CASE v # w
          BY <4>1, <4>3, <1>4 DEF InFlight
        <4> QED
          BY <4>2, <4>3
      <3>2. \A n \in Names : \A t \in Targets(r) :
                /\ Arrived(r, n, t) => Arrived(r, n, t)'
                /\ InFlight(r, n, t) => InFlight(r, n, t)' \/ Arrived(r, n, t)'
        BY <3>1, <2>3, <1>8, <1>9
      <3>3. \A v \in writes' : v \in writes
        BY <1>4
      <3> QED
        BY <3>2, <3>3, <2>1, <1>4, SourceStays
    <2> QED
      BY <2>2, <2>3
  <1>10. ASSUME NEW v \in writes' PROVE WriteSound(v)'
    <2>1. v \in writes /\ WriteSound(v)
      BY <1>4 DEF TransfersSound
    <2> QED
      BY <2>1, <1>4, WriteStays
  <1> QED
    BY <1>9, <1>10, LineStays DEF TransfersSound

\* The ranks start with the first part: nothing has been begun.
LEMMA TransfersStart ==
    ASSUME TypeInv, PlansCover, PhaseInv, line' = line, TransfersSound, BarrierPrepared
    PROVE  TransfersSound'
  <1>t. rank \in [Ranks -> RankOf] /\ 1 \in Ranks
    BY RanksOk DEF TypeInv, DriverTyped
  <1>1. AllAt("prepared") /\ AllStart("buckets", "non_expert")
        /\ UNCHANGED <<weight_version, engine, staged, pinned, writes>>
    BY <1>t, OtherSteps DEF BarrierPrepared
  <1>2. writes = {} /\ \A q \in Ranks : IsSource(q) => staged[q] = {}
    <2>1. rank[1].pc \notin Sending
      BY <1>1, <1>t DEF AllAt, Sending
    <2> QED
      BY <2>1, <1>t, NoWrites
  <1>3. ASSUME NEW r \in Ranks, IsSource(r) PROVE SourceSound(r)'
    <2>1. /\ rank'[r].pc = "buckets" /\ rank'[r].part = "non_expert" /\ rank'[r].bucket = 1
          /\ ~Loading(r)'
      BY <1>1 DEF AllStart, Loading
    <2>2. \A n : ~Begun(r, n)'
      <3>1. Parts' = Parts /\ \A p : Planned(r, p)' = Planned(r, p)
        BY LineStays
      <3>2. \A p \in Parts : \A k \in DOMAIN Planned(r, p) : k \in Nat /\ k >= 1
        BY PlansOk
      <3>3. \A p \in Parts : \A k \in DOMAIN Planned(r, p) : ~Past(r, p, k)'
        BY <2>1, <3>2 DEF Past
      <3> QED
        BY <2>1, <3>1, <3>3 DEF Begun
    <2>3. rank'[r].pc \in Sending
      BY <2>1 DEF Sending
    <2> QED
      BY <2>1, <2>2, <2>3, <1>1, <1>2, <1>3 DEF SourceSound
  <1> QED
    BY <1>1, <1>2, <1>3, LineStays DEF TransfersSound

\* They go on to the parameters of the experts, or have written all.
LEMMA TransfersGoOn ==
    ASSUME TypeInv, PlansCover, PhaseInv, args.transport = "p2p", line' = line, TransfersSound, BarrierSent
    PROVE  TransfersSound'
  <1>t. rank \in [Ranks -> RankOf] /\ 1 \in Ranks
    BY RanksOk DEF TypeInv, DriverTyped
  <1>1. /\ AllAt("sent") /\ UNCHANGED <<weight_version, engine, staged, pinned, writes>>
        /\ IF rank[1].part = "non_expert"
           THEN AllStart("buckets", "expert") ELSE AllStart("finalize", "expert")
    BY <1>t, OtherSteps DEF BarrierSent
  <1>2. \A r \in Ranks : /\ rank[r].pc = "sent" /\ rank[r].pc \in Sending /\ ~Loading(r)
                         /\ rank[r].part = rank[1].part /\ rank[r].part \in {"non_expert", "expert"}
    BY <1>1, <1>t, RankFields DEF AllAt, Sending, Loading, PhaseInv
  <1>3. CASE rank[1].part = "non_expert"
    <2>1. \A r \in Ranks : /\ rank'[r].pc = "buckets" /\ rank'[r].part = "expert" /\ rank'[r].bucket = 1
                           /\ rank'[r].pc \in Sending /\ ~Loading(r)'
      BY <1>1, <1>3 DEF AllStart, Sending, Loading
    <2>2. ASSUME NEW r \in Ranks PROVE \A n : Begun(r, n)' <=> Begun(r, n)
      <3>1. /\ Parts' = Parts /\ (\A p : Planned(r, p)' = Planned(r, p))
            /\ \A p, k, n : Carries(r, p, k, n)' <=> Carries(r, p, k, n)
        BY LineStays DEF Carries
      <3>2. \A p \in Parts : \A k \in DOMAIN Planned(r, p) : k \in Nat /\ k >= 1
        BY PlansOk
      <3>3. \A p \in Parts : \A k \in DOMAIN Planned(r, p) : p = rank[r].part => Past(r, p, k)
        BY <1>2, AllPast
      <3>4. \A p \in Parts : \A k \in DOMAIN Planned(r, p) : Past(r, p, k)' <=> Past(r, p, k)
        BY <1>2, <1>3, <2>1, <3>2, <3>3 DEF Past
      <3> QED
        BY <1>2, <2>1, <3>1, <3>4 DEF Begun
    <2>3. ASSUME NEW r \in Ranks, IsSource(r) PROVE SourceSound(r)'
      <3>1. SourceSound(r)
        BY <2>3 DEF TransfersSound
      <3>2. ASSUME NEW n \in Names, Begun(r, n), n \notin staged[r], NEW t \in Targets(r)
            PROVE  InFlight(r, n, t)' \/ Arrived(r, n, t)'
        <4>1. InFlight(r, n, t) \/ Arrived(r, n, t)
          BY <1>2, <3>1, <3>2 DEF SourceSound, ToDo
        <4> QED
          BY <4>1, <3>2, <2>3, <1>1, FlightStays
      <3>3. Names' = Names /\ Targets(r)' = Targets(r)
        BY LineStays
      <3> QED
        BY <2>1, <2>2, <3>1, <3>2, <3>3, <1>1 DEF SourceSound
    <2>4. ASSUME NEW w \in writes PROVE WriteSound(w)'
      <3>1. WriteSound(w) /\ w.rank \in Ranks
        BY DEF TransfersSound, WriteSound
      <3>2. /\ Ranks' = Ranks /\ Names' = Names /\ Targets(w.rank)' = Targets(w.rank)
            /\ (IsSource(w.rank)' <=> IsSource(w.rank))
        BY LineStays
      <3> QED
        BY <2>1, <2>2, <3>1, <3>2, <1>1 DEF WriteSound
    <2> QED
      BY <2>3, <2>4, <1>1, LineStays DEF TransfersSound
  <1>4. CASE rank[1].part = "expert"
    <2>1. \A r \in Ranks : rank'[r].pc \notin Sending /\ ~Loading(r)' /\ rank'[r].pc # "sent"
      BY <1>1, <1>4 DEF AllStart, Sending, Loading
    <2>2. \A r \in Ranks : IsSource(r) => staged[r] = {} /\ \A w \in writes : w.rank # r
      BY <1>2, <1>4 DEF TransfersSound, SourceSound
    <2>3. writes = {}
      BY <2>2 DEF TransfersSound, WriteSound
    <2>4. ASSUME NEW r \in Ranks, IsSource(r) PROVE SourceSound(r)'
      BY <2>1, <2>2, <2>4, <1>1 DEF SourceSound
    <2> QED
      BY <2>3, <2>4, <1>1, LineStays DEF TransfersSound
  <1> QED
    BY <1>2, <1>3, <1>4, <1>t

LEMMA TransferStep ==
    ASSUME PlansCover, TypeInv, PhaseInv, PhaseInv', VersionInv, SendInv, CallsInv, InboxInv,
           TransferInv, args.transport = "p2p", Intact, Intact', [Next]_vars
    PROVE  TransfersSound'
  <1>0. line' = line
    BY LineFixed
  <1>t. /\ rank \in [Ranks -> RankOf] /\ 1 \in Ranks /\ DOMAIN engine = Engines /\ TransfersSound
        /\ failures \in Nat
    BY RanksOk DEF TypeInv, DriverTyped, EnginesTyped, TransferInv
  <1>1. ASSUME \A q \in Ranks : rank'[q].pc = rank[q].pc /\ SameBucket(q) /\ SameNames(q),
               engine' = engine, UNCHANGED <<weight_version, staged, pinned, writes>>
        PROVE  TransfersSound'
    BY <1>0, <1>1, <1>t, TransferKeep
  <1>2. ASSUME NEW r \in Ranks, rank[r].pc \notin Sending, rank'[r].pc \notin Sending,
               staged' = staged, writes' = writes
        PROVE  TransfersSound'
    BY <1>0, <1>2, <1>t, QuietTransfers
  <1>3. CASE UNCHANGED vars
    BY <1>1, <1>3 DEF vars
  <1>4. ASSUME NEW r \in Ranks, \/ JoinGroup(r) \/ \E c \in rank[r].unsent : SendCall(r, c)
                                \/ \E e \in Engines : LeaveGroup(r, e)
        PROVE  TransfersSound'
    <2>1. CASE JoinGroup(r)
      <3>1. \A q \in Ranks : rank'[q].pc = rank[q].pc /\ SameBucket(q) /\ SameNames(q)
        BY <2>1, <1>t, RankSteps DEF HasAnswers, Only, SameBucket, SameNames
      <3> QED
        BY <2>1, <3>1, <1>1 DEF JoinGroup
    <2>2. ASSUME NEW c \in rank[r].unsent, SendCall(r, c) PROVE TransfersSound'
      <3>1. \A q \in Ranks : rank'[q].pc = rank[q].pc /\ SameBucket(q) /\ SameNames(q)
        BY <2>2, <1>t, OtherSteps DEF Only, SameBucket, SameNames
      <3> QED
        BY <2>2, <3>1, <1>1 DEF SendCall
    <2>3. ASSUME NEW e \in Engines, LeaveGroup(r, e) PROVE TransfersSound'
      <3>1. \A q \in Ranks : rank'[q].pc = rank[q].pc /\ SameBucket(q) /\ SameNames(q)
        BY <2>3, <1>t, OtherSteps DEF HasAnswers, Only, SameBucket, SameNames
      <3> QED
        BY <2>3, <3>1, <1>1 DEF LeaveGroup
    <2> QED
      BY <2>1, <2>2, <2>3, <1>4
  <1>5. ASSUME NEW e \in Engines, Serve(e) PROVE TransfersSound'
    <2>1. EngineShape(engine[e])
      BY DEF TypeInv, EnginesTyped
    <2>2. \A f \in Engines : engine'[f].weights = engine[f].weights
      BY <2>1, <1>5, <1>t DEF Serve, EngineShape
    <2> QED
      BY <2>2, <1>0, <1>5, <1>t, TransferKeep DEF Serve
  <1>6. ASSUME NEW r \in Ranks, rank[r].pc = "send" \/ rank[r].pc = "acquire" PROVE FALSE
    BY <1>6 DEF PhaseInv, Placed
  <1>7. ASSUME NEW r \in Ranks, \/ AcquireLock(r) \/ Broadcast(r) \/ BucketSent(r)
                                \/ \E e \in Engines : HandleEmpty(r, e) \/ HandleTensor(r, e)
        PROVE  FALSE
    BY <1>6, <1>7, CarrierHandled DEF AcquireLock, Broadcast, BucketSent, HandleEmpty, HandleTensor, Carriers
  <1>8. ASSUME NEW r \in Ranks,
               ReadEngines(r) \/ LeftGroup(r) \/ JoinedGroup(r) \/ Prepare(r) \/ Finalize(r)
        PROVE  TransfersSound'
    <2>1. rank[r].pc \notin Sending /\ rank'[r].pc \notin Sending
      BY <1>8, <1>t, RankSteps DEF Moves, Calls, Sending
    <2>2. staged' = staged /\ writes' = writes
      BY <1>8 DEF ReadEngines, LeftGroup, JoinedGroup, Prepare, Finalize
    <2> QED
      BY <2>1, <2>2, <1>2
  <1>9. ASSUME NEW e \in Engines, HandleCall(e) \/ RestartEngine(e) PROVE TransfersSound'
    <2>1. rank' = rank /\ rank[1].pc \notin Sending
      BY <1>9, <1>t, CallsOk, Updating DEF HandleCall, RestartEngine, Sending
    <2>2. staged' = staged /\ writes' = writes
      BY <1>9 DEF HandleCall, RestartEngine
    <2> QED
      BY <2>1, <2>2, <1>2, <1>t
  <1>10. CASE NextCall \/ CallUpdate \/ BarrierConnected \/ BarrierFinalized
    <2>1. rank[1].pc \notin Sending
      BY <1>10, <1>t, NextCallSteps, Updating
      DEF CallUpdate, BarrierConnected, BarrierFinalized, AllAt, Sending
    <2>2. rank'[1].pc \notin Sending
      BY <1>10, <1>t, NextCallSteps, OtherSteps DEF AllStart, Sending
    <2>3. staged' = staged /\ writes' = writes
      BY <1>10 DEF NextCall, CallUpdate, BarrierConnected, BarrierFinalized
    <2> QED
      BY <2>1, <2>2, <2>3, <1>2, <1>t
  <1>11. CASE BarrierPrepared
    BY <1>0, <1>11, <1>t, TransfersStart
  <1>12. CASE BarrierSent
    BY <1>0, <1>12, <1>t, TransfersGoOn
  <1>13. ASSUME NEW r \in Ranks, StartBucket(r) PROVE TransfersSound'
    <2>1. ~IsSource(r) /\ Only(r)
      BY <1>13, <1>t, RankSteps DEF Advances, StartBucket
    <2>2. UNCHANGED <<weight_version, engine, staged, pinned, writes>>
      BY <1>13 DEF StartBucket
    <2>3. \A w \in writes : w.rank # r
      BY <2>1, <1>t DEF TransfersSound, WriteSound
    <2> QED
      BY <2>1, <2>2, <2>3, <1>0, <1>t, TransferMove
  <1>14. ASSUME NEW r \in Ranks, BucketsDone(r) PROVE TransfersSound'
    <2>1. /\ Only(r) /\ SameBucket(r) /\ rank[r].pc \in Sending /\ rank'[r].pc \in Sending
          /\ ~Loading(r) /\ ~Loading(r)'
      BY <1>14, <1>t, RankSteps DEF Moves, Sending, Loading
    <2>2. rank'[r].pc = "sent" => ~(rank[r].part = "expert" /\ IsSource(r))
      BY <1>14, <1>t, RankSteps DEF Moves
    <2> QED
      BY <2>1, <2>2, <1>0, <1>14, <1>t, SourceMoves DEF BucketsDone
  <1>15. ASSUME NEW r \in Ranks, TransfersWaited(r) PROVE TransfersSound'
    <2>1. /\ Only(r) /\ SameBucket(r) /\ rank[r].pc \in Sending /\ rank'[r].pc \in Sending
          /\ ~Loading(r) /\ ~Loading(r)' /\ (rank'[r].pc = "sent" => staged[r] = {})
      BY <1>15, <1>t, RankSteps DEF Moves, Sending, Loading
    <2>2. \A w \in writes : w.rank # r
      BY <1>15, <1>t DEF TransfersWaited, Intact
    <2> QED
      BY <2>1, <2>2, <1>0, <1>15, <1>t, SourceMoves DEF TransfersWaited
  <1>16. ASSUME NEW r \in Ranks, StageBucket(r) PROVE TransfersSound'
    BY <1>0, <1>16, <1>t, StageOk
  <1>17. ASSUME NEW r \in Ranks, LoadAndWrite(r) PROVE TransfersSound'
    <2>1. IsSource(r)
      BY <1>17 DEF LoadAndWrite, PhaseInv, Placed
    <2> QED
      BY <2>1, <1>0, <1>17, <1>t, LoadOk
  <1>18. ASSUME NEW r \in Ranks, WritesAwaited(r) PROVE TransfersSound'
    <2>1. IsSource(r)
      BY <1>18 DEF WritesAwaited, PhaseInv, Placed
    <2> QED
      BY <2>1, <1>0, <1>18, <1>t, AwaitOk
  <1>19. ASSUME NEW w \in writes, WriteDone(w) PROVE TransfersSound'
    BY <1>0, <1>19, <1>t, WriteOk
  <1>20. ASSUME NEW w \in writes, WriteFails(w) PROVE FALSE
    <2>1. w.rank \in Ranks
      BY <1>t DEF TransfersSound, WriteSound
    <2> QED
      BY <2>1, <1>20, <1>t DEF WriteFails, Intact
  <1> QED
    BY Steps, <1>3, <1>4, <1>5, <1>7, <1>8, <1>9, <1>10, <1>11, <1>12, <1>13, <1>14, <1>15, <1>16, <1>17,
       <1>18, <1>19, <1>20

(***************************************************************************)
(* WeightsInv.                                                             *)
(***************************************************************************)
\* When every rank has sent its buckets, every engine has all parameters.
LEMMA SentArrives ==
    ASSUME PlansCover, TypeInv, PhaseInv, VersionInv, DeliveryInv, TransferInv, AllAt("sent"),
           args.transport = "tensor" \/ rank[1].part = "expert", NEW e \in Engines
    PROVE  /\ Intact => Holds(e, weight_version[1])
           /\ args.transport # "p2p" => engine[e].announced = weight_version[1]
  <1>t. /\ rank \in [Ranks -> RankOf] /\ 1 \in Ranks /\ 1 \in Gpus
        /\ DOMAIN engine[e].weights = Gpus \X Names
    BY RanksOk DEF TypeInv, DriverTyped, EnginesTyped, EngineShape
  <1>1. ASSUME NEW r \in Ranks PROVE rank[r].pc = "sent" /\ rank[r].pc \in Sending
    BY <1>1 DEF AllAt, Sending
  <1>2. ASSUME NEW r \in Ranks, NEW part \in Parts, NEW k \in DOMAIN Planned(r, part)
        PROVE  Past(r, part, k)
    <2>1. rank[r].part = rank[1].part /\ rank[r].part \in Parts
      BY <1>1 DEF PhaseInv
    <2>2. CASE part = rank[r].part
      BY <1>1, <2>2, AllPast
    <2>3. CASE part # rank[r].part
      BY <2>1, <2>3 DEF Parts, Past
    <2> QED
      BY <2>2, <2>3
  <1>3. ASSUME NEW g \in Gpus, NEW n \in Names
        PROVE  /\ Intact => engine[e].weights[<<g, n>>] = <<weight_version[1], g>>
               /\ args.transport # "p2p" => engine[e].announced = weight_version[1]
    <2>1. PICK r \in Ranks : Reaches(r, e, g)
             /\ \E part \in Parts : \E k \in DOMAIN Planned(r, part) : Carries(r, part, k, n)
      BY <1>3 DEF PlansCover, Names
    <2>2. PICK part \in Parts : \E k \in DOMAIN Planned(r, part) : Carries(r, part, k, n)
      BY <2>1
    <2>3. PICK k \in DOMAIN Planned(r, part) : Carries(r, part, k, n)
      BY <2>2
    <2>4. IsSource(r) /\ Past(r, part, k) /\ n \in NamesOf(Planned(r, part)[k])
      BY <2>1, <2>3, <1>2 DEF Reaches, Carries
    <2>5. CASE args.transport # "p2p"
      <3>1. e \in Sent(r) /\ DeliveryOk(r)
        BY <2>1, <2>5 DEF Reaches, Sent, DeliveryInv
      <3>2. DeliveredTo(e, NamesOf(Planned(r, part)[k]))
        BY <2>4, <3>1, <1>1 DEF DeliveryOk
      <3>3. <<g, n>> \in Gpus \X Names /\ <<g, n>>[1] = g /\ <<g, n>>[2] = n
        BY <1>3
      <3> QED
        BY <2>4, <3>2, <3>3 DEF DeliveredTo
    <2>6. CASE args.transport = "p2p"
      <3> SUFFICES ASSUME Intact PROVE engine[e].weights[<<g, n>>] = <<weight_version[1], g>>
        BY <2>6
      <3>1. SourceSound(r)
        BY <2>4, <2>6 DEF TransferInv, TransfersSound
      <3>2. Begun(r, n)
        BY <2>3, <2>4 DEF Begun
      <3>3. rank[r].part = "expert"
        BY <1>1, <2>6 DEF PhaseInv
      <3>4. staged[r] = {} /\ (\A w \in writes : w.rank # r) /\ ~Loading(r)
        BY <3>1, <3>3, <1>1 DEF SourceSound, Loading
      <3>5. <<e, g>> \in Targets(r)
        BY <2>1, <2>6 DEF Reaches
      <3>6. InFlight(r, n, <<e, g>>) \/ Arrived(r, n, <<e, g>>) \/ ToDo(r, n, <<e, g>>)
        BY <3>1, <3>2, <3>4, <3>5, <1>1, <1>3 DEF SourceSound
      <3>7. Arrived(r, n, <<e, g>>)
        BY <3>4, <3>6 DEF InFlight, ToDo
      <3>8. weight_version[r] = weight_version[1]
        BY <1>1, SameVersions
      <3> QED
        BY <3>7, <3>8 DEF Arrived
    <2> QED
      BY <2>5, <2>6
  <1>4. Intact => Holds(e, weight_version[1])
    <2> SUFFICES ASSUME Intact, NEW x \in Gpus \X Names
                 PROVE  engine[e].weights[x] = <<weight_version[1], x[1]>>
      BY <1>t DEF Holds
    <2>1. x[1] \in Gpus /\ x[2] \in Names /\ x = <<x[1], x[2]>>
      OBVIOUS
    <2> QED
      BY <2>1, <1>3
  <1>5. \E n : n \in Names
    BY <1>t DEF PlansCover, Names, NamesOf
  <1> QED
    BY <1>3, <1>4, <1>5, <1>t

\* A step that leaves what the engine holds, unless something has failed.
KeepsWeights(e) ==
    /\ engine'[e].announced = engine[e].announced
    /\ Intact' => engine'[e].weights = engine[e].weights

LEMMA WeightsSending ==
    ASSUME NEW e, rank'[1].pc \in Sending
    PROVE  WeightsOk(e)'
  BY Phases DEF WeightsOk

LEMMA WeightsEarly ==
    ASSUME Intact' => Intact, NEW e, WeightsOk(e), KeepsWeights(e),
           rank[1].pc \in {"idle"} \cup Early, rank'[1].pc \in Early
    PROVE  WeightsOk(e)'
  <1>1. Intact' => Holds(e, engine[e].announced)'
    BY DEF WeightsOk, KeepsWeights, Holds
  <1> QED
    BY <1>1, Phases DEF WeightsOk

LEMMA WeightsIdle ==
    ASSUME Intact' => Intact, NEW e, WeightsOk(e), KeepsWeights(e),
           rank[1].pc = "idle", rank'[1].pc = "idle", weight_version'[1] = weight_version[1], new' \/ ~new
    PROVE  WeightsOk(e)'
  <1>1. Intact' => Holds(e, engine[e].announced)'
    BY DEF WeightsOk, KeepsWeights, Holds
  <1>2. ~new' => engine'[e].announced = weight_version'[1]
    BY DEF WeightsOk, KeepsWeights
  <1> QED
    BY <1>1, <1>2, Phases DEF WeightsOk

LEMMA WeightsFinal ==
    ASSUME line' = line, Intact' => Intact, NEW e, WeightsOk(e), KeepsWeights(e),
           rank[1].pc \in Final, rank'[1].pc \in Final, weight_version'[1] = weight_version[1],
           IsAnnounced(e)' => IsAnnounced(e) \/ args.transport # "p2p"
    PROVE  WeightsOk(e)'
  <1>1. Intact' => Holds(e, weight_version[1])'
    BY DEF WeightsOk, KeepsWeights, Holds
  <1>2. engine'[e].announced = weight_version'[1] \/ (args.transport = "p2p" /\ ~IsAnnounced(e)')
    BY DEF WeightsOk, KeepsWeights
  <1> QED
    BY <1>1, <1>2, Phases, LineStays DEF WeightsOk

\* Rank 1 stays where it is, and so do its calls.
LEMMA WeightsStay ==
    ASSUME line' = line, Intact' => Intact, rank[1].pc \in PCs, NEW e, WeightsOk(e), KeepsWeights(e),
           rank'[1].pc = rank[1].pc, weight_version'[1] = weight_version[1], new' \/ ~new,
           calls' = calls, e \in waiting => e \in waiting'
    PROVE  WeightsOk(e)'
  <1>1. IsAnnounced(e)' => IsAnnounced(e)
    BY DEF IsAnnounced
  <1> QED
    BY <1>1, WeightsSending, WeightsEarly, WeightsIdle, WeightsFinal DEF PCs

LEMMA WeightsInvStep ==
    ASSUME PlansCover, TypeInv, PhaseInv, VersionInv, CallsInv, InboxInv, WeightsInv,
           DeliveryInv, TransferInv, [Next]_vars
    PROVE  WeightsInv'
  <1>0. line' = line /\ (Intact' => Intact)
    BY LineFixed, IntactGoes
  <1>t. /\ rank \in [Ranks -> RankOf] /\ 1 \in Ranks /\ line \in DOMAIN Configurations
        /\ DOMAIN engine = Engines /\ \A e \in Engines : WeightsOk(e) /\ EngineShape(engine[e])
        /\ weight_version \in [Ranks -> Nat] /\ rank[1].pc \in PCs
    BY RanksOk, RankFields DEF TypeInv, DriverTyped, EnginesTyped, WeightsInv
  <1> SUFFICES ASSUME NEW e \in Engines PROVE WeightsOk(e)'
    BY <1>0, LineStays DEF WeightsInv
  <1>1. ASSUME engine' = engine, rank'[1].pc = rank[1].pc, weight_version'[1] = weight_version[1],
               new' = new, calls' = calls, waiting' = waiting
        PROVE  WeightsOk(e)'
    BY <1>0, <1>1, <1>t, WeightsStay DEF KeepsWeights
  <1>2. CASE UNCHANGED vars
    BY <1>1, <1>2 DEF vars
  <1>3. ASSUME NEW r \in Ranks,
               \/ ReadEngines(r) \/ LeftGroup(r) \/ JoinGroup(r) \/ JoinedGroup(r)
               \/ StartBucket(r) \/ AcquireLock(r) \/ BucketSent(r) \/ BucketsDone(r)
               \/ StageBucket(r) \/ LoadAndWrite(r) \/ WritesAwaited(r) \/ TransfersWaited(r)
               \/ \E c \in rank[r].unsent : SendCall(r, c)
        PROVE  WeightsOk(e)'
    <2>1. /\ Only(r)
          /\ \/ rank'[r].pc = rank[r].pc
             \/ rank[r].pc \in Early /\ rank'[r].pc \in Early
             \/ rank'[r].pc \in Sending
      <3>1. CASE ReadEngines(r) \/ LeftGroup(r) \/ JoinGroup(r) \/ JoinedGroup(r)
        BY <3>1, <1>t, RankSteps DEF Moves, Calls, HasAnswers, Early
      <3>2. CASE StartBucket(r) \/ AcquireLock(r) \/ BucketSent(r) \/ BucketsDone(r) \/ StageBucket(r)
        BY <3>2, <1>t, RankSteps, StageSteps DEF Moves, Calls, Advances, Sending
      <3>3. CASE LoadAndWrite(r) \/ WritesAwaited(r) \/ TransfersWaited(r)
        BY <3>3, <1>t, RankSteps DEF Moves, Advances, Sending
      <3>4. CASE \E c \in rank[r].unsent : SendCall(r, c)
        BY <3>4, <1>t, OtherSteps
      <3> QED
        BY <1>3, <3>1, <3>2, <3>3, <3>4
    <2>2. \/ rank'[1].pc = rank[1].pc
          \/ rank[1].pc \in Early /\ rank'[1].pc \in Early
          \/ rank'[1].pc \in Sending
      BY <2>1, <1>t
    <2>3. /\ UNCHANGED callVars /\ engine' = engine /\ weight_version' = weight_version /\ new' = new
      BY <1>3 DEF ReadEngines, LeftGroup, JoinGroup, JoinedGroup, StartBucket, AcquireLock,
         BucketSent, BucketsDone, StageBucket, LoadAndWrite, WritesAwaited, TransfersWaited, SendCall
    <2>4. KeepsWeights(e)
      BY <2>3 DEF KeepsWeights
    <2> QED
      BY <2>2, <2>3, <2>4, <1>0, <1>1, <1>t, WeightsEarly, WeightsSending
  <1>4. ASSUME NEW r \in Ranks, Prepare(r) \/ Finalize(r), r # 1 PROVE WeightsOk(e)'
    <2>1. rank'[1] = rank[1]
      BY <1>4, <1>t, RankSteps DEF Moves
    <2>2. UNCHANGED callVars /\ engine' = engine /\ new' = new /\ weight_version'[1] = weight_version[1]
      BY <1>4, <1>t DEF Prepare, Finalize
    <2> QED
      BY <2>1, <2>2, <1>1
  <1>5. CASE Prepare(1)
    <2>1. rank[1].pc \in Early /\ rank'[1].pc \in Early
      BY <1>5, <1>t, RankSteps DEF Moves, Early
    <2>2. KeepsWeights(e)
      BY <1>5 DEF Prepare, KeepsWeights
    <2> QED
      BY <2>1, <2>2, <1>0, <1>t, WeightsEarly
  <1>6. CASE Finalize(1)
    <2>1. rank[1].pc = "finalize" /\ rank'[1].pc = "finalizing"
      BY <1>6, <1>t, RankSteps DEF Moves
    <2>2. KeepsWeights(e) /\ weight_version' = weight_version
      BY <1>6 DEF Finalize, KeepsWeights
    <2>3. calls' = FinalizeCalls /\ waiting' = Audience(Head(FinalizeCalls))
      BY <1>6 DEF Finalize, StartCalls
    <2>4. args.transport = "p2p" => Head(calls') = "announce" /\ e \in waiting'
      BY <2>3, FinalizeCallsOk DEF Audience, Paused
    <2>5. IsAnnounced(e)' => args.transport # "p2p"
      BY <2>1, <2>4 DEF IsAnnounced
    <2> QED
      BY <2>1, <2>2, <2>5, <1>0, <1>t, WeightsFinal DEF Final
  <1>7. CASE NextCall
    <2>1. /\ KeepsWeights(e) /\ weight_version' = weight_version
      BY <1>7 DEF NextCall, KeepsWeights
    <2>2. CASE rank[1].pc = "preparing"
      BY <1>0, <1>7, <1>t, <2>1, <2>2, NextCallSteps, WeightsEarly DEF Early
    <2>3. CASE rank[1].pc = "finalizing"
      <3>1. rank'[1].pc \in Final /\ waiting = {}
        BY <1>7, <2>3, <1>t, NextCallSteps DEF Final
      <3>2. IsAnnounced(e)
        BY <2>3, <3>1 DEF IsAnnounced
      <3> QED
        BY <2>1, <2>3, <3>1, <3>2, <1>0, <1>t, WeightsFinal DEF Final
    <2> QED
      BY <1>7, <2>2, <2>3, NextCallSteps
  <1>8. ASSUME NEW f \in Engines, HandleCall(f) PROVE WeightsOk(e)'
    <2>1. /\ f \in waiting /\ waiting' = waiting \ {f} /\ calls' = calls /\ rank' = rank
          /\ engine' = [engine EXCEPT ![f] = AfterCall(f, Head(calls))]
          /\ weight_version' = weight_version /\ new' = new
      BY <1>8 DEF HandleCall
    <2>2. /\ rank[1].pc \in {"preparing", "finalizing"}
          /\ Head(calls) \in {"pause", "flush", "begin", "announce", "end", "continue"}
          /\ Head(calls) = "announce" => rank[1].pc = "finalizing"
      BY <2>1, CallsOk
    <2>3. CASE f # e
      BY <2>1, <2>3, <1>0, <1>t, WeightsStay DEF KeepsWeights
    <2>4. CASE f = e /\ Head(calls) # "announce"
      <3>1. KeepsWeights(e)
        BY <2>1, <2>2, <2>4, <1>t DEF KeepsWeights, AfterCall, EngineShape
      <3>2. IsAnnounced(e)' => IsAnnounced(e)
        BY <2>1, <2>4 DEF IsAnnounced
      <3>3. rank[1].pc \in Early \/ rank[1].pc \in Final
        BY <2>2 DEF Early, Final
      <3> QED
        BY <2>1, <3>1, <3>2, <3>3, <1>0, <1>t, WeightsEarly, WeightsFinal
    <2>5. CASE f = e /\ Head(calls) = "announce"
      <3>1. engine'[e].announced = weight_version[1] /\ engine'[e].weights = engine[e].weights
        BY <2>1, <2>5, <1>t DEF AfterCall, EngineShape
      <3>2. rank[1].pc \in Final /\ rank'[1].pc \in Final
        BY <2>1, <2>2, <2>5 DEF Final
      <3>3. Intact' => Holds(e, weight_version[1])'
        BY <2>1, <3>1, <3>2, <1>0, <1>t DEF WeightsOk, Holds
      <3> QED
        BY <2>1, <3>1, <3>2, <3>3, Phases DEF WeightsOk
    <2> QED
      BY <2>3, <2>4, <2>5
  <1>9. ASSUME NEW r \in Ranks, NEW E, Loads(r, E), rank[r].pc = "send" PROVE WeightsOk(e)'
    <2>1. rank[1].pc \in Sending /\ rank'[1].pc = rank[1].pc
      BY <1>9, <1>t, SendingHolds DEF Sending, Loads, HasAnswers
    <2> QED
      BY <2>1, WeightsSending
  <1>10. ASSUME NEW r \in Ranks, Broadcast(r) PROVE WeightsOk(e)'
    BY <1>9, <1>10, LoadSteps
  <1>11. ASSUME NEW f \in Engines, NEW r \in Ranks, HandleEmpty(r, f) \/ HandleTensor(r, f)
         PROVE  WeightsOk(e)'
    <2>1. rank[r].pc = "send"
      BY <1>11, CarrierHandled DEF HandleEmpty, HandleTensor, Carriers
    <2> QED
      BY <2>1, <1>9, <1>11, LoadSteps
  <1>12. ASSUME NEW f \in Engines, NEW r \in Ranks, LeaveGroup(r, f) PROVE WeightsOk(e)'
    <2>1. rank'[1].pc = rank[1].pc
      BY <1>12, <1>t, OtherSteps DEF HasAnswers
    <2> QED
      BY <2>1, <1>1, <1>12 DEF LeaveGroup
  <1>13. ASSUME NEW w \in writes, WriteDone(w) PROVE WeightsOk(e)'
    <2>1. /\ rank' = rank /\ weight_version' = weight_version /\ new' = new /\ calls' = calls
          /\ waiting' = waiting /\ (Intact' <=> Intact)
      <3>1. UNCHANGED <<failures, registry>>
        BY <1>13 DEF WriteDone
      <3>2. Intact' <=> Intact
        BY <3>1, <1>0, LineStays DEF Intact
      <3> QED
        BY <3>2, <1>13 DEF WriteDone
    <2>2. engine'[e].announced = engine[e].announced
      BY <1>13, <1>t DEF WriteDone, EngineShape
    <2>3. CASE Intact
      <3>1. w.rank \in Ranks /\ rank[w.rank].pc \in Sending
        BY <2>3 DEF TransferInv, TransfersSound, WriteSound
      <3>2. rank'[1].pc \in Sending
        BY <2>1, <3>1, <1>t, SendingHolds
      <3> QED
        BY <3>2, WeightsSending
    <2>4. CASE ~Intact
      BY <2>1, <2>2, <2>4, <1>0, <1>t, WeightsStay DEF KeepsWeights
    <2> QED
      BY <2>3, <2>4
  <1>14. ASSUME NEW w \in writes, WriteFails(w) PROVE WeightsOk(e)'
    <2>1. engine' = engine /\ weight_version' = weight_version /\ new' = new /\ UNCHANGED callVars
      BY <1>14 DEF WriteFails
    <2>2. rank' # rank => rank[w.rank].pc = "await" /\ (w.rank \in Ranks => Moves(w.rank, "failed"))
      BY <1>14, <1>t, OtherSteps
    <2>3. w.rank \notin Ranks => rank' = rank
      BY <1>14, <1>t DEF WriteFails
    <2>4. rank'[1].pc = rank[1].pc \/ rank'[1].pc \in Sending
      BY <2>2, <2>3, <1>t DEF Moves, Sending
    <2> QED
      BY <2>1, <2>4, <1>1, WeightsSending
  <1>15. ASSUME NEW f \in Engines, RestartEngine(f) PROVE WeightsOk(e)'
    <2>1. /\ rank[1].pc = "idle" /\ rank' = rank /\ new' = TRUE /\ weight_version' = weight_version
          /\ engine' = [engine EXCEPT ![f] = EngineInit]
      BY <1>15, <1>t, Updating DEF RestartEngine
    <2>2. CASE e = f
      <3>1. Holds(e, engine[e].announced)'
        BY <2>1, <2>2, <1>t DEF Holds, EngineInit
      <3> QED
        BY <2>1, <3>1, Phases DEF WeightsOk
    <2>3. CASE e # f
      BY <2>1, <2>3, <1>0, <1>t, WeightsIdle DEF KeepsWeights
    <2> QED
      BY <2>2, <2>3
  <1>16. ASSUME NEW f \in Engines, Serve(f) PROVE WeightsOk(e)'
    <2>1. /\ rank' = rank /\ UNCHANGED callVars /\ weight_version' = weight_version /\ new' = new
      BY <1>16 DEF Serve
    <2>2. KeepsWeights(e)
      BY <1>16, <1>t DEF Serve, EngineShape, KeepsWeights
    <2> QED
      BY <2>1, <2>2, <1>0, <1>t, WeightsStay
  <1>17. CASE CallUpdate
    <2>1. rank[1].pc = "idle" /\ rank'[1].pc \in Early
      BY <1>17, <1>t, Updating, OtherSteps DEF CallUpdate, AllStart, Early
    <2> QED
      BY <2>1, <1>0, <1>17, <1>t, WeightsEarly DEF CallUpdate, KeepsWeights
  <1>18. CASE BarrierConnected
    <2>1. rank[1].pc \in Early /\ rank'[1].pc \in Early
      BY <1>18, <1>t, OtherSteps DEF AllAt, AllStart, Early
    <2> QED
      BY <2>1, <1>0, <1>18, <1>t, WeightsEarly DEF BarrierConnected, KeepsWeights
  <1>19. CASE BarrierPrepared
    BY <1>19, <1>t, OtherSteps, WeightsSending DEF AllStart, Sending
  <1>20. CASE BarrierSent
    <2>1. CASE args.transport # "tensor" /\ rank[1].part = "non_expert"
      BY <1>20, <2>1, <1>t, OtherSteps, WeightsSending DEF AllStart, Sending
    <2>2. CASE ~(args.transport # "tensor" /\ rank[1].part = "non_expert")
      <3>1. rank'[1].pc = "finalize" /\ AllAt("sent")
        BY <1>20, <2>2, <1>t, OtherSteps DEF AllStart
      <3>2. args.transport = "tensor" \/ rank[1].part = "expert"
        BY <2>2, <1>t, RankFields
      <3>3. engine' = engine /\ weight_version' = weight_version
        BY <1>20 DEF BarrierSent
      <3>4. /\ Intact => Holds(e, weight_version[1])
            /\ args.transport # "p2p" => engine[e].announced = weight_version[1]
        BY <3>1, <3>2, SentArrives
      <3>5. Intact' => Holds(e, weight_version[1])'
        BY <3>3, <3>4, <1>0 DEF Holds
      <3>6. ~IsAnnounced(e)'
        BY <3>1 DEF IsAnnounced
      <3> QED
        BY <3>1, <3>3, <3>4, <3>5, <3>6, <1>0, LineStays DEF WeightsOk, Early
    <2> QED
      BY <2>1, <2>2
  <1>21. CASE BarrierFinalized
    <2>1. rank[1].pc = "finalized" /\ rank'[1].pc = "idle"
      BY <1>21, <1>t, OtherSteps DEF AllAt, AllStart
    <2>2. engine' = engine /\ weight_version' = weight_version
      BY <1>21 DEF BarrierFinalized
    <2>3. engine[e].announced = weight_version[1] /\ (Intact => Holds(e, weight_version[1]))
      BY <2>1, <1>t DEF WeightsOk, IsAnnounced, Final
    <2>4. Intact' => Holds(e, engine[e].announced)'
      BY <2>2, <2>3, <1>0 DEF Holds
    <2> QED
      BY <2>1, <2>2, <2>3, <2>4, Phases DEF WeightsOk
  <1> QED
    BY Steps, <1>2, <1>3, <1>4, <1>5, <1>6, <1>7, <1>8, <1>10, <1>11, <1>12, <1>13, <1>14, <1>15, <1>16,
       <1>17, <1>18, <1>19, <1>20, <1>21

(***************************************************************************)
(* UpdateInv, and what follows from it.                                    *)
(***************************************************************************)
LEMMA UpdateInit ==
    ASSUME Init
    PROVE  UpdateInv
  <1>0. PlansCover
    BY PlansHold DEF Init
  <1> USE DEF Init
  <1>t. /\ 1 \in Ranks /\ 1 \in Gpus /\ args.updates \in Nat
    BY RanksOk
  <1>1. \A r \in Ranks : rank[r] = RankInit
    OBVIOUS
  <1>2. RankInit \in RankOf
    BY DEF RankInit, RankOf, PCs, CallSets, Counts
  <1>3. \A e \in Engines : engine[e] = EngineInit
    OBVIOUS
  <1>4. TypeInv
    <2>1. DriverTyped
      BY DEF DriverTyped
    <2>2. EnginesTyped
      BY <1>3 DEF EnginesTyped, EngineShape, EngineInit, Names
    <2>3. BuffersTyped
      BY DEF BuffersTyped
    <2>4. rank \in [Ranks -> RankOf] /\ inbox \in [Engines -> Seq(CallOf)]
      BY <1>2
    <2> QED
      BY <2>1, <2>2, <2>3, <2>4 DEF TypeInv
  <1>5. \A r \in Ranks : rank[r].pc = "idle" /\ rank[r].unsent = {} /\ rank[r].unanswered = {}
    BY <1>1 DEF RankInit
  <1>6. PhaseInv
    BY <1>5, Phases DEF PhaseInv, Together, InPhase, Placed
  <1>7. VersionInv
    BY <1>5, <1>t DEF VersionInv, Ahead, Unprepared
  <1>8. SendInv
    BY <1>5 DEF SendInv, SendsOk
  <1>9. InboxInv
    <2>1. \A e \in Engines : Len(inbox[e]) = 0
      OBVIOUS
    <2> QED
      BY <2>1 DEF InboxInv
  <1>10. CallsInv
    BY <1>5, <1>t DEF CallsInv
  <1>11. EngineInv
    <2>1. ASSUME NEW e \in Engines PROVE ~IsPaused(e) /\ ~IsOpen(e) /\ ~IsFlushed(e)
      BY <1>5, <1>t DEF IsPaused, IsOpen, IsFlushed, Suspended, Held, Sending
    <2>2. \A e \in Engines : ~engine[e].paused /\ ~engine[e].session /\ engine[e].cached = {}
      BY <1>3 DEF EngineInit
    <2> QED
      BY <2>1, <2>2 DEF EngineInv, EngineOk
  <1>12. WeightsInv
    <2>1. \A e \in Engines : engine[e].announced = 0 /\ Holds(e, 0)
      BY <1>3 DEF EngineInit, Holds
    <2> QED
      BY <2>1, <1>5, <1>t, Phases DEF WeightsInv, WeightsOk
  <1>13. DeliveryInv
    BY <1>5, Phases DEF DeliveryInv, DeliveryOk
  <1>14. TransferInv
    BY <1>5, Phases DEF TransferInv, TransfersSound, SourceSound, Loading
  <1> QED
    BY <1>0, <1>4, <1>6, <1>7, <1>8, <1>9, <1>10, <1>11, <1>12, <1>13, <1>14 DEF UpdateInv

LEMMA UpdateStays ==
    ASSUME UpdateInv, [Next]_vars
    PROVE  UpdateInv'
  <1> USE DEF UpdateInv
  <1>0. line' = line
    BY LineFixed
  <1>1. PlansCover'
    BY <1>0, PlansStay
  <1>2. TypeInv'
    BY TypeStep
  <1>3. PhaseInv'
    BY PhaseStep
  <1>4. VersionInv'
    BY VersionStep
  <1>5. SendInv'
    BY SendStep
  <1>6. InboxInv'
    BY <1>2, InboxStep
  <1>7. CallsInv'
    BY CallsStep
  <1>8. EngineInv'
    BY EngineInvStep
  <1>9. WeightsInv'
    BY WeightsInvStep
  <1>10. args' = args
    BY <1>0, LineStays
  <1>11. DeliveryInv'
    <2>1. CASE args.transport = "p2p"
      BY <2>1, <1>10 DEF DeliveryInv
    <2>2. CASE args.transport # "p2p"
      BY <2>2, <1>3, DeliveryStep DEF TransferInv
    <2> QED
      BY <2>1, <2>2
  <1>12. TransferInv'
    <2>1. CASE args.transport = "p2p"
      <3>1. Intact' => TransfersSound'
        BY <2>1, <1>3, IntactGoes, TransferStep
      <3> QED
        BY <2>1, <3>1, <1>10 DEF TransferInv
    <2>2. CASE args.transport # "p2p"
      <3>1. writes' = {}
        BY <2>2, WritesNone DEF TransferInv
      <3> QED
        BY <2>2, <3>1, <1>10 DEF TransferInv
    <2> QED
      BY <2>1, <2>2
  <1> QED
    BY <1>1, <1>2, <1>3, <1>4, <1>5, <1>6, <1>7, <1>8, <1>9, <1>11, <1>12

LEMMA UpdateAlways == Spec => []UpdateInv
  <1>1. Init => UpdateInv
    BY UpdateInit
  <1>2. UpdateInv /\ [Next]_vars => UpdateInv'
    BY UpdateStays
  <1> QED
    BY <1>1, <1>2, PTL DEF Spec

(* Every parameter is in a bucket that a source brings to every gpu of     *)
(* every engine, however sizes, buffer, stages, copies and engines are;    *)
(* and a source that writes has each parameter in one bucket, and among    *)
(* its turns every gpu it has as a target.                                 *)
THEOREM BucketsAndPlansCover == Spec => []PlansCover
  <1>1. UpdateInv => PlansCover
    BY DEF UpdateInv
  <1> QED
    BY <1>1, UpdateAlways, PTL

\* What an engine finds in its inbox of a bucket was sent by a rank that sends.
LEMMA LoadsAreSent ==
    ASSUME UpdateInv
    PROVE  WeightsInSession
  <1>1. /\ DOMAIN inbox = Engines /\ \A e \in Engines : inbox[e] \in Seq(CallOf)
        /\ 1 \in Ranks
    BY RanksOk DEF UpdateInv, TypeInv, DriverTyped
  <1>2. ASSUME NEW r \in Ranks, rank[r].pc \in Sending, NEW e \in Engines
        PROVE  engine[e].session
    <2>1. InPhase(Sending)
      BY <1>1, <1>2 DEF UpdateInv, PhaseInv, Together, InPhase, Early, Sending, Final
    <2>2. Suspended
      BY <1>1, <2>1 DEF InPhase, Suspended, Held
    <2> QED
      BY <1>2, <2>2 DEF UpdateInv, EngineInv, EngineOk, IsOpen
  <1>3. ASSUME NEW e \in Engines, inbox[e] # <<>>, Head(inbox[e]).kind \in Carriers
        PROVE  engine[e].session
    <2>1. 1 \in 1..Len(inbox[e]) /\ Head(inbox[e]) = inbox[e][1] /\ inbox[e][1] \in CallOf
      BY <1>1, <1>3
    <2>2. rank[inbox[e][1].rank].pc = "send" /\ inbox[e][1].rank \in Ranks
      BY <1>3, <2>1 DEF UpdateInv, InboxInv, Expected, CallOf
    <2> QED
      BY <1>2, <2>2 DEF Sending
  <1>4. ASSUME Intact, NEW w \in writes
        PROVE  engine[w.target[1]].session
    <2>1. args.transport = "p2p"
      BY <1>4 DEF UpdateInv, TransferInv
    <2>2. w.rank \in Ranks /\ rank[w.rank].pc \in Sending /\ IsSource(w.rank)
          /\ w.target \in Targets(w.rank)
      BY <1>4, <2>1 DEF UpdateInv, TransferInv, TransfersSound, WriteSound
    <2>3. w.target[1] \in Engines
      BY <2>1, <2>2 DEF UpdateInv, PlansCover
    <2> QED
      BY <1>2, <2>2, <2>3
  <1> QED
    BY <1>3, <1>4 DEF WeightsInSession, Carriers

(* Weights come to an engine within its session, and when an update is     *)
(* over every engine holds the new version, if no write failed, has        *)
(* announced it, is not paused and has no session open: with every         *)
(* transport, however many ranks and engines there are, and in every order *)
(* of their steps.                                                         *)
THEOREM UpdatesReachEngines == Spec => []UpdateTakesEffect
  <1>1. UpdateInv => UpdateTakesEffect
    <2> SUFFICES ASSUME UpdateInv, ~updating, ~new, NEW e \in Engines
                 PROVE  /\ Intact => Holds(e, weight_version[1])
                        /\ engine[e].announced = weight_version[1]
                        /\ ~engine[e].paused /\ ~engine[e].session
      BY LoadsAreSent DEF UpdateTakesEffect
    <2>1. rank[1].pc = "idle" /\ 1 \in Ranks
      BY RanksOk, Updating DEF UpdateInv, TypeInv, DriverTyped
    <2>2. ~IsPaused(e) /\ ~IsOpen(e)
      BY <2>1 DEF IsPaused, IsOpen, Suspended, Held, Sending
    <2> QED
      BY <2>1, <2>2 DEF UpdateInv, EngineInv, EngineOk, WeightsInv, WeightsOk
  <1> QED
    BY <1>1, UpdateAlways, PTL

(* The caches an engine serves from were computed with the version it      *)
(* holds, unless the pause is in place.                                    *)
THEOREM CachesAreFresh == Spec => []CachesFresh
  <1>1. UpdateInv => CachesFresh
    <2>1. UpdateInv => Paused \subseteq Engines
      BY RanksOk DEF UpdateInv, TypeInv, DriverTyped
    <2> QED
      BY <2>1 DEF UpdateInv, EngineInv, EngineOk, CachesFresh
  <1> QED
    BY <1>1, UpdateAlways, PTL

(***************************************************************************)
(* The refinement of WeightService.                                        *)
(***************************************************************************)
Serving(e) == IF engine[e].paused \/ ~Intact THEN -1 ELSE Served(e)

\* Weights are of one version at most.
LEMMA OneVersion ==
    ASSUME NEW w, DOMAIN w # {}, NEW V, NEW v \in V, \A x \in DOMAIN w : w[x] = <<v, x[1]>>
    PROVE  (CHOOSE u \in V : \A x \in DOMAIN w : w[x] = <<u, x[1]>>) = v
  <1>1. PICK x : x \in DOMAIN w
    OBVIOUS
  <1>2. \A u : w[x] = <<u, x[1]>> => u = v
    BY <1>1
  <1>3. \A u \in V : (\A y \in DOMAIN w : w[y] = <<u, y[1]>>) => u = v
    BY <1>1, <1>2
  <1> QED
    BY <1>3

LEMMA WeightsThere ==
    ASSUME UpdateInv, NEW e \in Engines
    PROVE  DOMAIN engine[e].weights # {}
  <1>1. 1 \in Gpus /\ DOMAIN engine[e].weights = Gpus \X Names
    BY RanksOk DEF UpdateInv, TypeInv, DriverTyped, EnginesTyped, EngineShape
  <1>2. \E n : n \in Names
    BY DEF UpdateInv, PlansCover, Names, NamesOf
  <1>3. PICK n : n \in Names
    BY <1>2
  <1>4. <<1, n>> \in Gpus \X Names
    BY <1>1, <1>3
  <1> QED
    BY <1>1, <1>4

\* What an engine serves stays, or the engine is suspended.
LEMMA ServingStays ==
    ASSUME line' = line, Intact' => Intact, NEW e,
           \/ ~Intact' \/ engine'[e].paused
           \/ ~engine[e].paused /\ engine'[e].weights = engine[e].weights
    PROVE  Serving(e)' \in {Serving(e), -1}
  BY LineStays DEF Serving, Served, Holds

LEMMA ServingSame ==
    ASSUME line' = line, Intact' <=> Intact, NEW e,
           engine'[e].paused = engine[e].paused, engine'[e].weights = engine[e].weights
    PROVE  Serving(e)' = Serving(e)
  BY LineStays DEF Serving, Served, Holds

LEMMA ServiceStep ==
    ASSUME UpdateInv, UpdateInv', [Next]_vars
    PROVE  Service!ServiceNext
  <1>0. line' = line /\ (Intact' => Intact)
    BY LineFixed, IntactGoes DEF UpdateInv
  <1>t. /\ rank \in [Ranks -> RankOf] /\ 1 \in Ranks /\ line \in DOMAIN Configurations
        /\ DOMAIN engine = Engines /\ Paused \subseteq Engines
        /\ \A e \in Engines : EngineShape(engine[e]) /\ EngineOk(e) /\ WeightsOk(e)
        /\ \A e \in Engines : EngineOk(e)' /\ WeightsOk(e)'
        /\ weight_version \in [Ranks -> Nat] /\ weight_version[1] \in 0..args.updates
    BY <1>0, RanksOk, LineStays
    DEF UpdateInv, TypeInv, DriverTyped, EnginesTyped, EngineInv, WeightsInv, VersionInv
  <1>s. /\ Service!Suspended = -1 /\ Paused' = Paused /\ Engines' = Engines /\ args' = args
    BY <1>0, LineStays DEF Service!Suspended
  <1>1. ASSUME weight_version'[1] = weight_version[1],
               \A e \in Paused : Serving(e)' \in {Serving(e), -1}
        PROVE  Service!ServiceNext
    BY <1>0, <1>1, LineStays DEF Service!ServiceNext, Service!Suspend, Service!Suspended, Serving
  <1>2. ASSUME weight_version'[1] = weight_version[1],
               \A e \in Paused : \/ ~Intact' \/ engine'[e].paused
                                 \/ ~engine[e].paused /\ engine'[e].weights = engine[e].weights
        PROVE  Service!ServiceNext
    BY <1>0, <1>1, <1>2, ServingStays
  <1>3. ASSUME weight_version'[1] = weight_version[1], engine' = engine PROVE Service!ServiceNext
    BY <1>2, <1>3
  <1>4. ASSUME weight_version'[1] = weight_version[1], rank'[1].pc \in Held PROVE Service!ServiceNext
    <2>1. \A e \in Paused : engine'[e].paused
      BY <1>4, <1>s, <1>t DEF EngineOk, IsPaused, Suspended
    <2> QED
      BY <2>1, <1>2, <1>4
  <1>5. CASE UNCHANGED vars
    BY <1>3, <1>5 DEF vars
  <1>6. ASSUME NEW r \in Ranks,
               \/ ReadEngines(r) \/ LeftGroup(r) \/ JoinGroup(r) \/ JoinedGroup(r)
               \/ StartBucket(r) \/ AcquireLock(r) \/ BucketSent(r) \/ BucketsDone(r)
               \/ StageBucket(r) \/ LoadAndWrite(r) \/ WritesAwaited(r) \/ TransfersWaited(r)
               \/ Finalize(r) \/ \E c \in rank[r].unsent : SendCall(r, c)
        PROVE  Service!ServiceNext
    <2>1. engine' = engine /\ weight_version' = weight_version
      BY <1>6 DEF ReadEngines, LeftGroup, JoinGroup, JoinedGroup, StartBucket, AcquireLock, Finalize,
         BucketSent, BucketsDone, StageBucket, LoadAndWrite, WritesAwaited, TransfersWaited, SendCall
    <2> QED
      BY <2>1, <1>3
  <1>7. ASSUME NEW e \in Engines, NEW r \in Ranks, LeaveGroup(r, e) PROVE Service!ServiceNext
    BY <1>3, <1>7 DEF LeaveGroup
  <1>8. CASE CallUpdate \/ NextCall \/ BarrierConnected \/ BarrierPrepared \/ BarrierSent \/ BarrierFinalized
    BY <1>3, <1>8
    DEF CallUpdate, NextCall, BarrierConnected, BarrierPrepared, BarrierSent, BarrierFinalized
  <1>9. ASSUME NEW w \in writes, WriteFails(w) PROVE Service!ServiceNext
    BY <1>3, <1>9 DEF WriteFails
  <1>10. ASSUME NEW r \in Ranks, Prepare(r), r # 1 PROVE Service!ServiceNext
    BY <1>3, <1>10, <1>t DEF Prepare
  <1>11. CASE Prepare(1)
    <2>1. weight_version'[1] = weight_version[1] + 1 /\ engine' = engine
      BY <1>11, <1>t DEF Prepare
    <2>2. Intact' <=> Intact
      <3>1. failures' = failures /\ \A q \in Ranks : registry'[q] = registry[q] \/ registry'[q] = "current"
        BY <1>11 DEF Prepare, UpdateInv, TypeInv, BuffersTyped
      <3> QED
        BY <3>1, <1>0, LineStays DEF Intact
    <2>3. \A e \in Paused : Serving(e)' = Serving(e)
      BY <2>1, <2>2, <1>0, ServingSame
    <2> QED
      BY <2>1, <2>3, <1>s DEF Service!ServiceNext, Service!Advance, Serving
  <1>12. ASSUME NEW r \in Ranks, NEW E, Loads(r, E), rank[r].pc = "send" PROVE Service!ServiceNext
    <2>1. rank[1].pc \in Held /\ rank'[1].pc = rank[1].pc
      BY <1>12, <1>t, SendingHolds DEF Sending, Loads, HasAnswers, UpdateInv
    <2> QED
      BY <2>1, <1>4, <1>12 DEF Loads
  <1>13. ASSUME NEW r \in Ranks, Broadcast(r) PROVE Service!ServiceNext
    BY <1>12, <1>13, LoadSteps DEF UpdateInv
  <1>14. ASSUME NEW f \in Engines, NEW r \in Ranks, HandleEmpty(r, f) \/ HandleTensor(r, f)
         PROVE  Service!ServiceNext
    <2>1. rank[r].pc = "send"
      BY <1>14, CarrierHandled DEF HandleEmpty, HandleTensor, Carriers, UpdateInv
    <2> QED
      BY <2>1, <1>12, <1>14, LoadSteps DEF UpdateInv
  <1>15. ASSUME NEW w \in writes, WriteDone(w) PROVE Service!ServiceNext
    <2>1. rank' = rank /\ weight_version' = weight_version /\ UNCHANGED <<failures, registry>>
      BY <1>15 DEF WriteDone
    <2>2. CASE Intact
      <3>1. w.rank \in Ranks /\ rank[w.rank].pc \in Sending
        BY <2>2 DEF UpdateInv, TransferInv, TransfersSound, WriteSound
      <3>2. rank'[1].pc \in Held
        BY <2>1, <3>1, <1>t, SendingHolds DEF UpdateInv
      <3> QED
        BY <2>1, <3>2, <1>4
    <2>3. CASE ~Intact
      BY <2>1, <2>3, <1>0, <1>2
    <2> QED
      BY <2>2, <2>3
  <1>16. ASSUME NEW f \in Engines, Serve(f) PROVE Service!ServiceNext
    <2>1. \A e \in Engines : engine'[e].paused = engine[e].paused /\ engine'[e].weights = engine[e].weights
      BY <1>16, <1>t DEF Serve, EngineShape
    <2>2. weight_version' = weight_version
      BY <1>16 DEF Serve
    <2> QED
      BY <2>1, <2>2, <1>2, <1>t
  <1>17. ASSUME NEW f \in Engines, RestartEngine(f) PROVE Service!ServiceNext
    <2>1. /\ engine' = [engine EXCEPT ![f] = EngineInit] /\ weight_version' = weight_version
          /\ UNCHANGED <<failures, registry>>
      BY <1>17 DEF RestartEngine
    <2>2. \A e \in Paused : e # f => engine'[e] = engine[e]
      BY <2>1, <1>t
    <2>3. CASE ~Intact \/ f \notin Paused
      BY <2>1, <2>2, <2>3, <1>0, <1>2
    <2>4. CASE Intact /\ f \in Paused
      <3>1. Intact' <=> Intact
        BY <2>1, <1>0, LineStays DEF Intact
      <3>2. \A e \in Paused : e # f => Serving(e)' = Serving(e)
        BY <2>2, <3>1, <1>0, ServingSame
      <3>3. Serving(f)' = 0
        <4>1. engine'[f] = EngineInit
          BY <2>1, <1>t
        <4>2. ~engine'[f].paused /\ \A x \in DOMAIN engine'[f].weights : engine'[f].weights[x] = <<0, x[1]>>
          BY <4>1 DEF EngineInit
        <4>3. DOMAIN engine'[f].weights # {}
          <5>1. \A e \in Engines : DOMAIN engine[e].weights # {}
            BY WeightsThere
          <5>2. DOMAIN engine'[f].weights = Gpus \X Names
            BY <4>1 DEF EngineInit, Names
          <5>3. DOMAIN engine[f].weights = Gpus \X Names
            BY <1>t DEF EngineShape
          <5> QED
            BY <5>1, <5>2, <5>3
        <4>4. 0 \in 0..args.updates
          BY <1>t, RanksOk
        <4>5. Served(f)' = 0
          BY <4>2, <4>3, <4>4, <1>s, OneVersion DEF Served, Holds
        <4> QED
          BY <4>2, <4>5, <3>1, <2>4 DEF Serving
      <3>4. Service!Restart(f)
        BY <2>1, <3>2, <3>3, <2>4, <1>s DEF Service!Restart, Serving
      <3> QED
        BY <3>4, <2>4 DEF Service!ServiceNext
    <2> QED
      BY <2>3, <2>4
  <1>18. ASSUME NEW f \in Engines, HandleCall(f) PROVE Service!ServiceNext
    <2>1. /\ f \in waiting /\ weight_version' = weight_version /\ rank' = rank
          /\ engine' = [engine EXCEPT ![f] = AfterCall(f, Head(calls))]
          /\ UNCHANGED <<failures, registry>>
      BY <1>18 DEF HandleCall
    <2>2. /\ Head(calls) \in {"pause", "flush", "begin", "announce", "end", "continue"}
          /\ waiting \subseteq Audience(Head(calls))
          /\ Head(calls) = "continue" => rank[1].pc = "finalizing"
      BY <2>1, CallsOk DEF UpdateInv
    <2>3. \A e \in Paused : e # f => engine'[e] = engine[e]
      BY <2>1, <1>t
    <2>4. engine'[f] = AfterCall(f, Head(calls))
      BY <2>1, <1>t
    <2>5. CASE Head(calls) # "continue"
      <3>1. /\ engine'[f].weights = engine[f].weights
            /\ engine'[f].paused = TRUE \/ engine'[f].paused = engine[f].paused
        BY <2>2, <2>4, <2>5, <1>t DEF AfterCall, EngineShape
      <3> QED
        BY <2>1, <2>3, <3>1, <1>2
    <2>6. CASE Head(calls) = "continue" /\ ~Intact
      BY <2>1, <2>6, <1>0, <1>2
    <2>7. CASE Head(calls) = "continue" /\ Intact
      <3>1. Intact' <=> Intact
        BY <2>1, <1>0, LineStays DEF Intact
      <3>2. f \in Paused /\ rank[1].pc = "finalizing"
        BY <2>1, <2>2, <2>7 DEF Audience
      <3>3. engine[f].paused
        BY <2>1, <2>7, <3>2, <1>t DEF EngineOk, IsPaused
      <3>4. ~engine'[f].paused
        BY <2>4, <2>7, <1>t DEF AfterCall, EngineShape
      <3>5. \A e \in Paused : e # f => Serving(e)' = Serving(e)
        BY <2>3, <3>1, <1>0, ServingSame
      <3>6. Serving(f)' = weight_version[1]
        <4>1. Holds(f, weight_version[1])'
          BY <2>1, <2>7, <3>1, <3>2, <1>t DEF WeightsOk, Final
        <4>2. \A x \in DOMAIN engine'[f].weights : engine'[f].weights[x] = <<weight_version[1], x[1]>>
          BY <4>1, <2>1 DEF Holds
        <4>3. DOMAIN engine'[f].weights # {}
          <5>1. engine'[f].weights = engine[f].weights
            BY <2>4, <2>7, <1>t DEF AfterCall, EngineShape
          <5> QED
            BY <5>1, WeightsThere
        <4>4. Served(f)' = weight_version[1]
          BY <4>2, <4>3, <1>t, <1>s, OneVersion DEF Served, Holds
        <4> QED
          BY <4>4, <3>1, <3>4, <2>7 DEF Serving
      <3>7. Service!Resume(f)
        BY <2>1, <3>2, <3>3, <3>5, <3>6, <1>s DEF Service!Resume, Serving
      <3> QED
        BY <3>2, <3>7 DEF Service!ServiceNext
    <2> QED
      BY <2>5, <2>6, <2>7
  <1> QED
    BY Steps, <1>5, <1>6, <1>7, <1>8, <1>9, <1>10, <1>11, <1>13, <1>14, <1>15, <1>16, <1>17, <1>18

(* The update of the weights implements what is promised to those who      *)
(* sample: an engine serves one version, whole, and changes it only while  *)
(* it does not serve.                                                      *)
THEOREM UpdatesServe == Spec => ImplementsService
  <1>1. Init /\ UpdateInv => Service!ServiceInit
    <2> SUFFICES ASSUME Init, UpdateInv PROVE Service!ServiceInit
      OBVIOUS
    <2>1. 1 \in Ranks /\ Paused \subseteq Engines /\ 0 \in 0..args.updates
      BY RanksOk DEF Init
    <2>2. weight_version[1] = 0
      BY <2>1 DEF Init
    <2>3. Intact
      BY DEF Init, Intact
    <2>4. ASSUME NEW e \in Paused PROVE Serving(e) = 0
      <3>1. engine[e] = EngineInit
        BY <2>1 DEF Init
      <3>2. ~engine[e].paused /\ \A x \in DOMAIN engine[e].weights : engine[e].weights[x] = <<0, x[1]>>
        BY <3>1 DEF EngineInit
      <3>3. Served(e) = 0
        BY <2>1, <3>2, WeightsThere, OneVersion DEF Served, Holds
      <3> QED
        BY <2>3, <3>2, <3>3 DEF Serving
    <2> QED
      BY <2>2, <2>4 DEF Service!ServiceInit, Serving
  <1>2. UpdateInv /\ UpdateInv' /\ [Next]_vars => Service!ServiceNext
    BY ServiceStep
  <1> QED
    BY <1>1, <1>2, UpdateInit, UpdateAlways, PTL DEF Spec, ImplementsService, Service!ServiceSpec
====
