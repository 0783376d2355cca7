--------------------------- MODULE TrainingDataProofs ---------------------------
(***************************************************************************)
(* What the operators that TrainingData is built from compute, for every   *)
(* input.                                                                  *)
(*                                                                         *)
(* Context parallelism, for every number of peers, length and padding: the *)
(* peers of a sample share out its response, each position to one peer and *)
(* once; values and mask are cut at the same places; the parts of the      *)
(* peers, added up, are the whole again; and the logit a peer pairs a      *)
(* token with is the one before it.                                        *)
(*                                                                         *)
(* Advantages, for all rewards, values, discounts, lengths and chunk       *)
(* sizes: the chunked scan computes what generalized advantage estimation  *)
(* is defined as, padding and the rows beside do not change it, and a      *)
(* reward is discounted from the last token that is trained on.            *)
(*                                                                         *)
(* Partitions, for all lengths: every sample is in one part and once, no   *)
(* part is empty, equal parts are equal, and first fit never asks for more *)
(* micro batches than there are samples.                                   *)
(***************************************************************************)
EXTENDS ContextParallel, Advantages, Partitions, DataInduction, TLAPS

(***************************************************************************)
(* Context parallelism.                                                    *)
(***************************************************************************)
Peers(cp) == 0..(cp - 1)

\* The logits that predict the tokens of a response.
ResponseLogits(total, response) == (total - response - 1)..(total - 2)

\* A position is in the i-th of two ranges.
Holds(o, i, x) == o[i][1] <= x /\ x < o[i][2]

Ranges(o) == \A i \in 1..2 : o[i] \in Int \X Int

(***************************************************************************)
(* Arithmetic.                                                             *)
(***************************************************************************)
LEMMA MaxOfTwo ==
    ASSUME NEW a \in Int, NEW b \in Int
    PROVE  Max({a, b}) = IF a >= b THEN a ELSE b
  BY DEF Max

(* The smaller of two numbers.                                             *)
LEMMA MinOfTwo ==
    ASSUME NEW a \in Int, NEW b \in Int
    PROVE  Min({a, b}) = IF a <= b THEN a ELSE b
  BY DEF Min

(* What a quotient is, for every divisor.                                  *)
LEMMA Division ==
    ASSUME NEW a \in Int, NEW d \in Nat \ {0}
    PROVE  /\ a \div d \in Int
           /\ d * (a \div d) <= a /\ a < d * (a \div d) + d
  OBVIOUS

(* A product grows with its first factor.                                  *)
LEMMA ProductGrows ==
    ASSUME NEW a \in Int, NEW b \in Int, NEW c \in Nat, a <= b
    PROVE  a * c \in Int /\ b * c \in Int /\ a * c <= b * c
  OBVIOUS

(* The next multiple.                                                      *)
LEMMA NextProduct ==
    ASSUME NEW a \in Int, NEW c \in Nat
    PROVE  (a + 1) * c = a * c + c
  OBVIOUS

(* The chunks of the peers cover the padded sequence.                      *)
LEMMA ChunksCover ==
    ASSUME NEW span \in Nat \ {0}, NEW cp \in Nat \ {0}
    PROVE  /\ chunk_size(span, cp) \in Nat \ {0}
           /\ 2 * cp * chunk_size(span, cp) >= span
  <1> DEFINE d == 2 * cp
             c == (span + d - 1) \div d
  <1>1. d \in Nat \ {0}
    OBVIOUS
  <1> HIDE DEF d
  <1>2. c \in Int /\ d * c <= span + d - 1 /\ span + d - 1 < d * c + d
    BY <1>1, Division
  <1>3. d * c >= span
    BY <1>1, <1>2
  <1>4. c > 0
    <2> HIDE DEF c
    <2>1. CASE c <= 0
      <3>1. c * d <= 0 * d
        BY <2>1, <1>1, <1>2, ProductGrows
      <3> QED
        BY <3>1, <1>1, <1>2, <1>3
    <2> QED
      BY <2>1, <1>2
  <1>5. chunk_size(span, cp) = c
    BY DEF chunk_size, d
  <1> HIDE DEF c
  <1> QED
    BY <1>2, <1>3, <1>4, <1>5 DEF d

(* A position is in one chunk.                                             *)
LEMMA ChunkOfPosition ==
    ASSUME NEW c \in Nat \ {0}, NEW n \in Nat, NEW x \in Nat, x < n * c
    PROVE  \E k \in 0..(n - 1) :
              /\ k * c <= x /\ x < (k + 1) * c
              /\ \A j \in Int : j * c <= x /\ x < (j + 1) * c => j = k
  <1> DEFINE k == x \div c
  <1>1. k \in Int /\ c * k <= x /\ x < c * k + c
    BY Division
  <1> HIDE DEF k
  <1>2. k * c <= x /\ x < (k + 1) * c
    BY <1>1
  <1>3. ASSUME NEW j \in Int, j * c <= x, x < (j + 1) * c PROVE j = k
    <2>1. CASE j < k
      <3>1. (j + 1) * c <= k * c
        BY <2>1, <1>1, ProductGrows
      <3> QED
        BY <3>1, <1>3, <1>2, <1>1
    <2>2. CASE k < j
      <3>1. (k + 1) * c <= j * c
        BY <2>2, <1>1, ProductGrows
      <3> QED
        BY <3>1, <1>3, <1>2, <1>1
    <2> QED
      BY <2>1, <2>2, <1>1
  <1>4. k >= 0
    <2>1. CASE k + 1 <= 0
      <3>1. (k + 1) * c <= 0 * c
        BY <2>1, <1>1, ProductGrows
      <3> QED
        BY <3>1, <1>2, <1>1
    <2> QED
      BY <2>1, <1>1
  <1>5. k < n
    <2>1. CASE n <= k
      <3>1. n * c <= k * c
        BY <2>1, <1>1, ProductGrows
      <3> QED
        BY <3>1, <1>2, <1>1
    <2> QED
      BY <2>1, <1>1
  <1>6. k \in 0..(n - 1)
    BY <1>1, <1>4, <1>5
  <1> WITNESS k \in 0..(n - 1)
  <1> QED
    BY <1>2, <1>3

(* The chunks of a sample: those of a peer are two of the 2 * cp.          *)
LEMMA ChunksOfPeer ==
    ASSUME NEW span \in Nat \ {0}, NEW cp \in Nat \ {0}, NEW r \in Peers(cp)
    PROVE  LET c == chunk_size(span, cp)
               o == chunk_offsets(span, cp, r)
           IN  /\ o[1] = <<r * c, (r + 1) * c>>
               /\ o[2] = <<(2 * cp - 1 - r) * c, (2 * cp - 1 - r + 1) * c>>
               /\ Ranges(o)
               /\ \A i \in 1..2 : 0 <= o[i][1] /\ o[i][2] = o[i][1] + c
               /\ o[1][2] <= o[2][1] /\ o[2][2] <= 2 * cp * c
  <1> DEFINE c == chunk_size(span, cp)
             o == chunk_offsets(span, cp, r)
             k == 2 * cp - 1 - r
  <1>1. c \in Nat \ {0}
    BY ChunksCover
  <1>2. r \in Nat /\ k \in Nat /\ r + 1 <= k /\ k + 1 <= 2 * cp
    BY DEF Peers
  <1>3. 2 * cp - r - 1 = k /\ 2 * cp - r = k + 1
    BY <1>2
  <1>4. o = <<<<r * c, (r + 1) * c>>, <<k * c, (k + 1) * c>>>>
    BY <1>3 DEF chunk_offsets
  <1> HIDE DEF c, o, k
  <1>5. /\ 0 * c <= r * c /\ 0 * c <= k * c /\ (r + 1) * c <= k * c /\ (k + 1) * c <= (2 * cp) * c
        /\ r * c \in Int /\ k * c \in Int /\ (r + 1) * c \in Int /\ (k + 1) * c \in Int
    BY <1>1, <1>2, ProductGrows
  <1>6. (r + 1) * c = r * c + c /\ (k + 1) * c = k * c + c /\ 0 * c = 0 /\ (2 * cp) * c = 2 * cp * c
    BY <1>1, <1>2, NextProduct
  <1> QED
    BY <1>1, <1>4, <1>5, <1>6 DEF Ranges, c, o, k

(***************************************************************************)
(* What a peer has of a response.                                          *)
(***************************************************************************)
Cut(total, response, span, cp, r) ==
    /\ total \in Nat /\ response \in Nat /\ response < total /\ total <= span
    /\ span \in Nat \ {0} /\ cp \in Nat \ {0} /\ r \in Peers(cp)

(* Of a chunk, the logits that predict tokens of the response.             *)
LEMMA PredictingPart ==
    ASSUME NEW chunk \in Int \X Int, NEW total \in Int, NEW response \in Int
    PROVE  LET p == Predicting(chunk, total, response)
           IN  /\ p \in Int \X Int
               /\ p = <<0, 0>> \/ /\ p[1] < p[2]
                                  /\ chunk[1] <= p[1] /\ total - response - 1 <= p[1]
                                  /\ p[2] <= chunk[2] /\ p[2] <= total - 1
               /\ \A x \in Int : p[1] <= x /\ x < p[2] <=>
                      chunk[1] <= x /\ x < chunk[2] /\ x \in ResponseLogits(total, response)
  <1> DEFINE a == Max({chunk[1], total - response - 1})
             b == Min({chunk[2], total - 1})
  <1>1. /\ a = IF chunk[1] >= total - response - 1 THEN chunk[1] ELSE total - response - 1
        /\ b = IF chunk[2] <= total - 1 THEN chunk[2] ELSE total - 1
    BY MaxOfTwo, MinOfTwo
  <1> HIDE DEF a, b
  <1>2. Predicting(chunk, total, response) = IF b - a > 0 THEN <<a, b>> ELSE <<0, 0>>
    BY DEF Predicting, Length, a, b
  <1> QED
    BY <1>1, <1>2 DEF ResponseLogits

(* The ranges of a peer, of logits and of tokens.                          *)
LEMMA OffsetsOfPeer ==
    ASSUME NEW total, NEW response, NEW span, NEW cp, NEW r, Cut(total, response, span, cp, r)
    PROVE  LET o == logits_offset(total, response, span, cp, r)
               t == tokens_offset(total, response, span, cp, r)
               chunk == chunk_offsets(span, cp, r)
           IN  /\ Ranges(o) /\ Ranges(t)
               /\ \A i \in 1..2 : \/ o[i] = <<0, 0>> /\ t[i] = <<0, 0>>
                                  \/ /\ o[i][1] < o[i][2]
                                     /\ chunk[i][1] <= o[i][1] /\ total - response - 1 <= o[i][1]
                                     /\ o[i][2] <= chunk[i][2] /\ o[i][2] <= total - 1
                                     /\ t[i] = <<o[i][1] + 1, o[i][2] + 1>>
               /\ \A i \in 1..2 : \A x \in Int :
                      Holds(o, i, x) <=> Holds(chunk, i, x) /\ x \in ResponseLogits(total, response)
  <1> DEFINE o == logits_offset(total, response, span, cp, r)
             t == tokens_offset(total, response, span, cp, r)
             chunk == chunk_offsets(span, cp, r)
  <1>1. Ranges(chunk)
    BY ChunksOfPeer DEF Cut
  <1>2. \A i \in 1..2 : o[i] = Predicting(chunk[i], total, response) /\ t[i] = OneOn(o[i])
    BY DEF logits_offset, tokens_offset
  <1> HIDE DEF o, t, chunk
  <1>3. ASSUME NEW i \in 1..2
        PROVE  /\ o[i] \in Int \X Int /\ t[i] \in Int \X Int
               /\ \/ o[i] = <<0, 0>> /\ t[i] = <<0, 0>>
                  \/ /\ o[i][1] < o[i][2]
                     /\ chunk[i][1] <= o[i][1] /\ total - response - 1 <= o[i][1]
                     /\ o[i][2] <= chunk[i][2] /\ o[i][2] <= total - 1
                     /\ t[i] = <<o[i][1] + 1, o[i][2] + 1>>
               /\ \A x \in Int :
                      Holds(o, i, x) <=> Holds(chunk, i, x) /\ x \in ResponseLogits(total, response)
    <2>1. chunk[i] \in Int \X Int /\ total \in Int /\ response \in Int
      BY <1>1 DEF Ranges, Cut
    <2>2. /\ o[i] \in Int \X Int
          /\ o[i] = <<0, 0>> \/ /\ o[i][1] < o[i][2]
                                /\ chunk[i][1] <= o[i][1] /\ total - response - 1 <= o[i][1]
                                /\ o[i][2] <= chunk[i][2] /\ o[i][2] <= total - 1
          /\ \A x \in Int : o[i][1] <= x /\ x < o[i][2] <=>
                 chunk[i][1] <= x /\ x < chunk[i][2] /\ x \in ResponseLogits(total, response)
      BY <1>2, <2>1, PredictingPart
    <2>3. t[i] = IF o[i][2] - o[i][1] > 0 THEN <<o[i][1] + 1, o[i][2] + 1>> ELSE <<0, 0>>
      BY <1>2 DEF OneOn, Length
    <2> QED
      BY <2>2, <2>3 DEF Holds
  <1> QED
    BY <1>3 DEF Ranges, o, t, chunk

\* A logit that predicts a token of the response is one peer's, in one range.
EachIsOnePeers(total, response, span, cp) ==
    \A x \in ResponseLogits(total, response) : \E r \in Peers(cp), i \in 1..2 :
        /\ Holds(logits_offset(total, response, span, cp, r), i, x)
        /\ \A q \in Peers(cp), j \in 1..2 :
              Holds(logits_offset(total, response, span, cp, q), j, x) => q = r /\ j = i

(* Of the logits that predict a response, each is one peer's, in one of    *)
(* its chunks, and a peer has no others (cp_utils.py, the zigzag).         *)
THEOREM ResponseIsShared ==
    ASSUME NEW total \in Nat, NEW response \in Nat, response < total,
           NEW span \in Nat, total <= span, NEW cp \in Nat \ {0}
    PROVE  /\ EachIsOnePeers(total, response, span, cp)
           /\ \A r \in Peers(cp), i \in 1..2, x \in Int :
                  Holds(logits_offset(total, response, span, cp, r), i, x) => x \in ResponseLogits(total, response)
  <1> DEFINE o(r) == logits_offset(total, response, span, cp, r)
             c == chunk_size(span, cp)
             Number(r, i) == IF i = 1 THEN r ELSE 2 * cp - 1 - r
  <1>0. \A r \in Peers(cp) : Cut(total, response, span, cp, r)
    BY DEF Cut
  <1>1. c \in Nat \ {0} /\ 2 * cp * c >= span
    <2>1. span \in Nat \ {0}
      OBVIOUS
    <2> QED
      BY <2>1, ChunksCover
  <1>2. \A r \in Peers(cp), i \in 1..2, x \in Int :
           Holds(o(r), i, x) <=> /\ Number(r, i) * c <= x /\ x < (Number(r, i) + 1) * c
                                 /\ x \in ResponseLogits(total, response)
    <2> TAKE r \in Peers(cp), i \in 1..2, x \in Int
    <2>1. Holds(o(r), i, x) <=>
             Holds(chunk_offsets(span, cp, r), i, x) /\ x \in ResponseLogits(total, response)
      BY <1>0, OffsetsOfPeer
    <2>2. chunk_offsets(span, cp, r)[i] = <<Number(r, i) * c, (Number(r, i) + 1) * c>>
      BY ChunksOfPeer
    <2> HIDE DEF c, o, Number
    <2> QED
      BY <2>1, <2>2 DEF Holds
  <1> HIDE DEF c, o
  <1>3. \A r \in Peers(cp), i \in 1..2 : Number(r, i) \in 0..(2 * cp - 1)
    BY DEF Peers
  <1>4. \A r \in Peers(cp), q \in Peers(cp), i \in 1..2, j \in 1..2 :
           Number(r, i) = Number(q, j) => q = r /\ j = i
    BY DEF Peers
  <1>5. \A k \in 0..(2 * cp - 1) : \E r \in Peers(cp), i \in 1..2 : Number(r, i) = k
    <2> TAKE k \in 0..(2 * cp - 1)
    <2>1. CASE k < cp
      <3>1. k \in Peers(cp) /\ Number(k, 1) = k
        BY <2>1 DEF Peers
      <3> QED
        BY <3>1
    <2>2. CASE k >= cp
      <3>1. 2 * cp - 1 - k \in Peers(cp) /\ Number(2 * cp - 1 - k, 2) = k
        BY <2>2 DEF Peers
      <3> QED
        BY <3>1
    <2> QED
      BY <2>1, <2>2
  <1> HIDE DEF Number
  <1>6. ASSUME NEW x \in ResponseLogits(total, response)
        PROVE  \E r \in Peers(cp), i \in 1..2 :
                  /\ Holds(o(r), i, x)
                  /\ \A q \in Peers(cp), j \in 1..2 : Holds(o(q), j, x) => q = r /\ j = i
    <2>1. x \in Int
      BY DEF ResponseLogits
    <2>2. x \in Nat /\ x < (2 * cp) * c
      BY <1>1 DEF ResponseLogits
    <2>3. PICK k \in 0..(2 * cp - 1) : /\ k * c <= x /\ x < (k + 1) * c
                                       /\ \A j \in Int : j * c <= x /\ x < (j + 1) * c => j = k
      <3> DEFINE n == 2 * cp
      <3>1. n \in Nat /\ x < n * c
        BY <2>2
      <3> HIDE DEF n
      <3>2. \E k \in 0..(n - 1) : /\ k * c <= x /\ x < (k + 1) * c
                                   /\ \A j \in Int : j * c <= x /\ x < (j + 1) * c => j = k
        BY <2>2, <3>1, <1>1, ChunkOfPosition
      <3> QED
        BY <3>2 DEF n
    <2>4. PICK r \in Peers(cp), i \in 1..2 : Number(r, i) = k
      BY <1>5
    <2>5. Holds(o(r), i, x)
      BY <1>2, <2>1, <2>3, <2>4
    <2>6. \A q \in Peers(cp), j \in 1..2 : Holds(o(q), j, x) => Number(q, j) = k
      BY <1>2, <1>3, <2>1, <2>3
    <2> QED
      BY <1>4, <2>4, <2>5, <2>6
  <1>7. \A r \in Peers(cp), i \in 1..2, x \in Int : Holds(o(r), i, x) => x \in ResponseLogits(total, response)
    BY <1>2
  <1> QED
    BY <1>6, <1>7 DEF o, EachIsOnePeers

(***************************************************************************)
(* Cutting sequences.                                                      *)
(***************************************************************************)
\* t is a part of s, which begins at a position.
IsPart(t, s, a) == \A k \in 1..Len(t) : t[k] = s[a + k]

(* A slice between two positions of a sequence.                            *)
LEMMA SliceInside ==
    ASSUME NEW S, NEW s \in Seq(S), NEW a \in Nat, NEW b \in Nat, a <= b, b <= Len(s)
    PROVE  /\ slice(s, a, b) \in Seq(S) /\ Len(slice(s, a, b)) = b - a
           /\ IsPart(slice(s, a, b), s, a)
  <1> DEFINE at(i) == IF i < 0 THEN Max({0, i + Len(s)}) ELSE Min({i, Len(s)})
  <1>1. at(a) = a /\ at(b) = b
    BY MinOfTwo
  <1>2. slice(s, a, b) = SubSeq(s, at(a) + 1, at(b))
    BY DEF slice
  <1> HIDE DEF at
  <1> DEFINE part == SubSeq(s, a + 1, b)
  <1>3. part \in Seq(S) /\ Len(part) = b - a
    OBVIOUS
  <1>4. \A k \in 1..(b - a) : part[k] = s[a + k]
    OBVIOUS
  <1> HIDE DEF part
  <1> QED
    BY <1>1, <1>2, <1>3, <1>4 DEF part, IsPart

(* A slice from a position to itself, be it negative.                      *)
LEMMA SliceOfNothing ==
    ASSUME NEW S, NEW s \in Seq(S), NEW a \in Int
    PROVE  slice(s, a, a) = <<>>
  <1> DEFINE at(i) == IF i < 0 THEN Max({0, i + Len(s)}) ELSE Min({i, Len(s)})
  <1>1. at(a) \in Nat
    BY MaxOfTwo, MinOfTwo
  <1>2. slice(s, a, a) = SubSeq(s, at(a) + 1, at(a))
    BY DEF slice
  <1> HIDE DEF at
  <1> QED
    BY <1>1, <1>2

\* Ranges that are empty or inside of a sequence that begins at a position.
Inside(o, first, length) ==
    /\ Ranges(o)
    /\ \A i \in 1..2 : \/ o[i] = <<0, 0>>
                       \/ first <= o[i][1] /\ o[i][1] < o[i][2] /\ o[i][2] <= first + length

\* Where a position of the i-th of two ranges is in what they are cut to.
PlaceOf(o, i, y) == IF i = 1 THEN y - o[1][1] + 1 ELSE Length(o[1]) + y - o[2][1] + 1

\* Each of n places is that of a position.
Filled(o, n) ==
    \A k \in 1..n : \E i \in 1..2, y \in Int : Holds(o, i, y) /\ PlaceOf(o, i, y) = k

(* Two pieces, one after the other.                                        *)
LEMMA TwoPieces ==
    ASSUME NEW S, NEW p \in Seq(S), NEW q \in Seq(S), NEW o,
           Ranges(o), Len(p) = Length(o[1]), Len(q) = Length(o[2])
    PROVE  /\ p \o q \in Seq(S) /\ Len(p \o q) = Length(o[1]) + Length(o[2])
           /\ \A y \in Int : Holds(o, 1, y) =>
                  PlaceOf(o, 1, y) \in 1..Len(p \o q) /\ (p \o q)[PlaceOf(o, 1, y)] = p[y - o[1][1] + 1]
           /\ \A y \in Int : Holds(o, 2, y) =>
                  PlaceOf(o, 2, y) \in 1..Len(p \o q) /\ (p \o q)[PlaceOf(o, 2, y)] = q[y - o[2][1] + 1]
           /\ Filled(o, Len(p \o q))
  <1> DEFINE a == o[1][1]
             b == o[2][1]
             m == Len(p)
             n == Len(q)
             h == p \o q
  <1>1. /\ a \in Int /\ o[1][2] \in Int /\ b \in Int /\ o[2][2] \in Int
        /\ m \in Nat /\ n \in Nat /\ Length(o[1]) = m /\ Length(o[2]) = n
        /\ o[1][2] = a + m /\ o[2][2] = b + n
    BY SMTT(30) DEF Ranges, Length
  <1>2. /\ h \in Seq(S) /\ Len(h) = m + n
        /\ \A k \in 1..m : h[k] = p[k]
        /\ \A k \in 1..n : h[m + k] = q[k]
    BY SMTT(30)
  <1>3. \A y \in Int : /\ PlaceOf(o, 1, y) = y - a + 1
                       /\ PlaceOf(o, 2, y) = m + (y - b + 1)
    BY <1>1 DEF PlaceOf
  <1>4. \A y \in Int : /\ Holds(o, 1, y) <=> a <= y /\ y < a + m
                       /\ Holds(o, 2, y) <=> b <= y /\ y < b + n
    BY <1>1 DEF Holds
  <1> HIDE DEF a, b, m, n, h
  <1>5. ASSUME NEW k \in 1..Len(h)
        PROVE  \E i \in 1..2, y \in Int : Holds(o, i, y) /\ PlaceOf(o, i, y) = k
    <2>1. CASE k <= m
      <3> DEFINE y == k + a - 1
      <3>1. y \in Int /\ y - a + 1 = k /\ a <= y /\ y < a + m
        BY <1>1, <2>1
      <3> HIDE DEF y
      <3>2. Holds(o, 1, y) /\ PlaceOf(o, 1, y) = k
        BY <1>3, <1>4, <3>1
      <3> QED
        BY <3>1, <3>2
    <2>2. CASE k > m
      <3> DEFINE y == k - m + b - 1
      <3>1. y \in Int /\ m + (y - b + 1) = k /\ b <= y /\ y < b + n
        BY <1>1, <1>2, <2>2
      <3> HIDE DEF y
      <3>2. Holds(o, 2, y) /\ PlaceOf(o, 2, y) = k
        BY <1>3, <1>4, <3>1
      <3> QED
        BY <3>1, <3>2
    <2> QED
      BY <1>1, <2>1, <2>2
  <1>6. ASSUME NEW y \in Int, Holds(o, 1, y)
        PROVE  PlaceOf(o, 1, y) \in 1..Len(h) /\ h[PlaceOf(o, 1, y)] = p[y - a + 1]
    <2> DEFINE k == y - a + 1
    <2>1. k \in 1..m /\ k \in 1..(m + n) /\ PlaceOf(o, 1, y) = k
      BY <1>1, <1>3, <1>4, <1>6
    <2> HIDE DEF k
    <2>2. h[k] = p[k]
      BY <1>2, <2>1
    <2> QED
      BY <1>2, <2>1, <2>2 DEF k
  <1>7. ASSUME NEW y \in Int, Holds(o, 2, y)
        PROVE  PlaceOf(o, 2, y) \in 1..Len(h) /\ h[PlaceOf(o, 2, y)] = q[y - b + 1]
    <2> DEFINE k == y - b + 1
    <2>1. k \in 1..n /\ m + k \in 1..(m + n) /\ PlaceOf(o, 2, y) = m + k
      BY <1>1, <1>3, <1>4, <1>7
    <2> HIDE DEF k
    <2>2. h[m + k] = q[k]
      BY <1>2, <2>1
    <2> QED
      BY <1>2, <2>1, <2>2 DEF k
  <1> QED
    BY <1>1, <1>2, <1>5, <1>6, <1>7 DEF a, b, h, Filled

(* A piece of a sequence that begins at a position.                        *)
LEMMA PieceHolds ==
    ASSUME NEW S, NEW x \in Seq(S), NEW first \in Int, NEW o, Inside(o, first, Len(x)), NEW i \in 1..2
    PROVE  LET piece == slice(x, o[i][1] - first, o[i][2] - first)
           IN  /\ piece \in Seq(S) /\ Len(piece) = Length(o[i])
               /\ \A y \in Int : Holds(o, i, y) => piece[y - o[i][1] + 1] = x[y - first + 1]
  <1> DEFINE piece == slice(x, o[i][1] - first, o[i][2] - first)
             lo == o[i][1]
             hi == o[i][2]
             a == lo - first
             b == hi - first
  <1>1. lo \in Int /\ hi \in Int /\ Length(o[i]) = hi - lo /\ Len(x) \in Nat
    BY DEF Inside, Ranges, Length
  <1>2. \A y : Holds(o, i, y) <=> lo <= y /\ y < hi
    BY DEF Holds
  <1>3. CASE lo = 0 /\ hi = 0
    <2>1. piece = <<>>
      BY <1>3, SliceOfNothing
    <2> HIDE DEF piece, lo, hi
    <2>2. piece \in Seq(S) /\ Len(piece) = Length(o[i])
      BY <1>1, <1>3, <2>1
    <2>3. \A y \in Int : ~Holds(o, i, y)
      BY <1>2, <1>3
    <2> QED
      BY <2>2, <2>3 DEF piece
  <1>4. CASE first <= lo /\ lo < hi /\ hi <= first + Len(x)
    <2> HIDE DEF lo, hi
    <2>1. a \in Nat /\ b \in Nat /\ a <= b /\ b <= Len(x) /\ b - a = hi - lo
      BY <1>1, <1>4
    <2> HIDE DEF a, b
    <2>2. slice(x, a, b) \in Seq(S) /\ Len(slice(x, a, b)) = b - a /\ IsPart(slice(x, a, b), x, a)
      BY <2>1, SliceInside
    <2>3. piece = slice(x, a, b)
      BY DEF a, b, lo, hi
    <2>4. ASSUME NEW y \in Int, Holds(o, i, y)
          PROVE  y - lo + 1 \in 1..(hi - lo) /\ a + (y - lo + 1) = y - first + 1
      BY <2>4, <1>1, <1>2 DEF a
    <2> HIDE DEF piece
    <2>5. ASSUME NEW y \in Int, Holds(o, i, y)
          PROVE  piece[y - lo + 1] = x[y - first + 1]
      BY <2>1, <2>2, <2>3, <2>4, <2>5 DEF IsPart
    <2>6. piece \in Seq(S) /\ Len(piece) = Length(o[i])
      BY <1>1, <2>1, <2>2, <2>3
    <2> QED
      BY <2>5, <2>6 DEF lo, piece
  <1>5. \/ lo = 0 /\ hi = 0
        \/ first <= lo /\ lo < hi /\ hi <= first + Len(x)
    BY DEF Inside
  <1> QED
    BY <1>3, <1>4, <1>5

\* h is what two ranges of x, which begins at a position, are cut to.
HasRanges(h, o, x, first) ==
    /\ Len(h) = Length(o[1]) + Length(o[2])
    /\ \A i \in 1..2, y \in Int : Holds(o, i, y) =>
           PlaceOf(o, i, y) \in 1..Len(h) /\ h[PlaceOf(o, i, y)] = x[y - first + 1]

(* Two ranges inside of a sequence, cut from it.                           *)
LEMMA HalvesHold ==
    ASSUME NEW S, NEW x \in Seq(S), NEW first \in Int, NEW o, Inside(o, first, Len(x))
    PROVE  LET h == Halves(x, o, first)
           IN  h \in Seq(S) /\ HasRanges(h, o, x, first) /\ Filled(o, Len(h))
  <1> DEFINE part(i) == slice(x, o[i][1] - first, o[i][2] - first)
             p == part(1)
             q == part(2)
             h == Halves(x, o, first)
  <1>1. ASSUME NEW i \in 1..2
        PROVE  /\ part(i) \in Seq(S) /\ Len(part(i)) = Length(o[i])
               /\ \A y \in Int : Holds(o, i, y) => part(i)[y - o[i][1] + 1] = x[y - first + 1]
    BY PieceHolds
  <1>2. h = p \o q
    BY DEF Halves
  <1> HIDE DEF part, h
  <1>3. /\ p \in Seq(S) /\ Len(p) = Length(o[1])
        /\ \A y \in Int : Holds(o, 1, y) => p[y - o[1][1] + 1] = x[y - first + 1]
    BY <1>1
  <1>4. /\ q \in Seq(S) /\ Len(q) = Length(o[2])
        /\ \A y \in Int : Holds(o, 2, y) => q[y - o[2][1] + 1] = x[y - first + 1]
    BY <1>1
  <1> HIDE DEF p, q
  <1>5. Ranges(o)
    BY DEF Inside
  <1>6. /\ h \in Seq(S) /\ Len(h) = Length(o[1]) + Length(o[2])
        /\ \A y \in Int : Holds(o, 1, y) =>
               PlaceOf(o, 1, y) \in 1..Len(h) /\ h[PlaceOf(o, 1, y)] = p[y - o[1][1] + 1]
        /\ \A y \in Int : Holds(o, 2, y) =>
               PlaceOf(o, 2, y) \in 1..Len(h) /\ h[PlaceOf(o, 2, y)] = q[y - o[2][1] + 1]
        /\ Filled(o, Len(h))
    <2>1. /\ p \o q \in Seq(S) /\ Len(p \o q) = Length(o[1]) + Length(o[2])
          /\ \A y \in Int : Holds(o, 1, y) =>
                 PlaceOf(o, 1, y) \in 1..Len(p \o q) /\ (p \o q)[PlaceOf(o, 1, y)] = p[y - o[1][1] + 1]
          /\ \A y \in Int : Holds(o, 2, y) =>
                 PlaceOf(o, 2, y) \in 1..Len(p \o q) /\ (p \o q)[PlaceOf(o, 2, y)] = q[y - o[2][1] + 1]
          /\ Filled(o, Len(p \o q))
      BY <1>3, <1>4, <1>5, TwoPieces
    <2> QED
      BY <1>2, <2>1
  <1>7. ASSUME NEW i \in 1..2, NEW y \in Int, Holds(o, i, y)
        PROVE  PlaceOf(o, i, y) \in 1..Len(h) /\ h[PlaceOf(o, i, y)] = x[y - first + 1]
    <2>1. CASE i = 1
      BY <1>3, <1>6, <1>7, <2>1
    <2>2. CASE i = 2
      BY <1>4, <1>6, <1>7, <2>2
    <2> QED
      BY <2>1, <2>2
  <1>8. HasRanges(h, o, x, first)
    BY <1>6, <1>7 DEF HasRanges
  <1> QED
    BY <1>6, <1>8 DEF h

(***************************************************************************)
(* Values, mask and tokens.                                                *)
(***************************************************************************)
LEMMA LogitsInside ==
    ASSUME NEW total, NEW response, NEW span, NEW cp, NEW r, Cut(total, response, span, cp, r)
    PROVE  Inside(logits_offset(total, response, span, cp, r), total - response - 1, response)
  <1> DEFINE o == logits_offset(total, response, span, cp, r)
  <1>1. /\ Ranges(o)
        /\ \A i \in 1..2 : \/ o[i] = <<0, 0>>
                           \/ total - response - 1 <= o[i][1] /\ o[i][1] < o[i][2] /\ o[i][2] <= total - 1
    <2> DEFINE t == tokens_offset(total, response, span, cp, r)
               chunk == chunk_offsets(span, cp, r)
    <2>1. /\ Ranges(o)
          /\ \A i \in 1..2 : \/ o[i] = <<0, 0>> /\ t[i] = <<0, 0>>
                             \/ /\ o[i][1] < o[i][2]
                                /\ chunk[i][1] <= o[i][1] /\ total - response - 1 <= o[i][1]
                                /\ o[i][2] <= chunk[i][2] /\ o[i][2] <= total - 1
                                /\ t[i] = <<o[i][1] + 1, o[i][2] + 1>>
      BY OffsetsOfPeer
    <2> HIDE DEF o, t, chunk
    <2> QED
      BY <2>1
  <1> HIDE DEF o
  <1> DEFINE f == total - response - 1
  <1>2. total - 1 = f + response
    BY DEF Cut
  <1>3. \A i \in 1..2 : \/ o[i] = <<0, 0>>
                        \/ f <= o[i][1] /\ o[i][1] < o[i][2] /\ o[i][2] <= total - 1
    BY <1>1
  <1> HIDE DEF f
  <1>4. Inside(o, f, response)
    BY <1>1, <1>2, <1>3 DEF Inside
  <1> QED
    BY <1>4 DEF o, f

(* The mask of a response is cut as its values are, so that a peer has the *)
(* mask of the very tokens it has values of (_slice_loss_mask_for_local_cp *)
(* goes by the tokens, slice_log_prob_with_cp by the logits before them).  *)
THEOREM MaskGoesWithValues ==
    ASSUME NEW total \in Nat, NEW response \in Nat, response < total,
           NEW span \in Nat, total <= span, NEW cp \in Nat \ {0}, NEW r \in Peers(cp),
           NEW S, NEW x \in Seq(S)
    PROVE  _slice_loss_mask_for_local_cp(total, response, x, span, cp, r)
             = slice_log_prob_with_cp(x, total, response, span, cp, r)
  <1> DEFINE o == logits_offset(total, response, span, cp, r)
             t == tokens_offset(total, response, span, cp, r)
             f == total - response
  <1>1. Cut(total, response, span, cp, r)
    BY DEF Cut
  <1>2. /\ Ranges(o) /\ Ranges(t)
        /\ \A i \in 1..2 : \/ o[i] = <<0, 0>> /\ t[i] = <<0, 0>>
                           \/ t[i] = <<o[i][1] + 1, o[i][2] + 1>>
    BY <1>1, OffsetsOfPeer
  <1>3. Halves(x, t, f) = slice(x, t[1][1] - f, t[1][2] - f) \o slice(x, t[2][1] - f, t[2][2] - f)
    BY DEF Halves
  <1>4. Halves(x, o, f - 1)
          = slice(x, o[1][1] - (f - 1), o[1][2] - (f - 1)) \o slice(x, o[2][1] - (f - 1), o[2][2] - (f - 1))
    BY DEF Halves
  <1>5. /\ _slice_loss_mask_for_local_cp(total, response, x, span, cp, r) = IF cp = 1 THEN x ELSE Halves(x, t, f)
        /\ slice_log_prob_with_cp(x, total, response, span, cp, r) = IF cp = 1 THEN x ELSE Halves(x, o, f - 1)
    BY DEF _slice_loss_mask_for_local_cp, slice_log_prob_with_cp
  <1>6. f \in Int
    OBVIOUS
  <1> HIDE DEF o, t, f
  <1>7. ASSUME NEW i \in 1..2
        PROVE  slice(x, t[i][1] - f, t[i][2] - f) = slice(x, o[i][1] - (f - 1), o[i][2] - (f - 1))
    <2>1. CASE o[i] = <<0, 0>> /\ t[i] = <<0, 0>>
      <3>1. slice(x, 0 - f, 0 - f) = <<>> /\ slice(x, 0 - (f - 1), 0 - (f - 1)) = <<>>
        BY <1>6, SliceOfNothing
      <3> QED
        BY <2>1, <3>1
    <2>2. CASE t[i] = <<o[i][1] + 1, o[i][2] + 1>>
      <3>1. o[i][1] \in Int /\ o[i][2] \in Int
        BY <1>2 DEF Ranges
      <3>2. t[i][1] - f = o[i][1] - (f - 1) /\ t[i][2] - f = o[i][2] - (f - 1)
        BY <2>2, <3>1, <1>6
      <3> QED
        BY <3>2
    <2> QED
      BY <1>2, <2>1, <2>2
  <1>8. Halves(x, t, f) = Halves(x, o, f - 1)
    BY <1>3, <1>4, <1>7
  <1> QED
    BY <1>5, <1>8

(* What the peers have cut of the values of a response, put back at its    *)
(* places: each value comes from one peer, and from the others a zero, so  *)
(* that the sum over the peers (all_reduce) is the response again.         *)
THEOREM ValuesComeBack ==
    ASSUME NEW total \in Nat, NEW response \in Nat, response < total,
           NEW span \in Nat, total <= span, NEW cp \in Nat \ {0, 1},
           NEW x \in Seq(Int), Len(x) = response
    PROVE  LET back(r) == local_response_to_full(slice_log_prob_with_cp(x, total, response, span, cp, r),
                                                 total, response, span, cp, r)
           IN  \A n \in 1..response : \E r \in Peers(cp) :
                  back(r)[n] = x[n] /\ \A q \in Peers(cp) \ {r} : back(q)[n] = 0
  <1> DEFINE o(r) == logits_offset(total, response, span, cp, r)
             part(r) == slice_log_prob_with_cp(x, total, response, span, cp, r)
             back(r) == local_response_to_full(part(r), total, response, span, cp, r)
             f == total - response - 1
  <1> SUFFICES ASSUME NEW n \in 1..response
               PROVE  \E r \in Peers(cp) :
                         back(r)[n] = x[n] /\ \A q \in Peers(cp) \ {r} : back(q)[n] = 0
    OBVIOUS
  <1> DEFINE y == total - response - 2 + n
  <1>1. y \in ResponseLogits(total, response) /\ y \in Int /\ y - f + 1 = n /\ f \in Int
    BY DEF ResponseLogits
  <1>2. PICK r \in Peers(cp), i \in 1..2 :
           /\ Holds(o(r), i, y)
           /\ \A q \in Peers(cp), j \in 1..2 : Holds(o(q), j, y) => q = r /\ j = i
    <2>1. EachIsOnePeers(total, response, span, cp)
      <3>1. cp \in Nat \ {0}
        OBVIOUS
      <3> HIDE DEF o, part, back, y, f
      <3> QED
        BY <3>1, ResponseIsShared
    <2>2. \A z \in ResponseLogits(total, response) : \E r \in Peers(cp), i \in 1..2 :
             /\ Holds(o(r), i, z)
             /\ \A q \in Peers(cp), j \in 1..2 : Holds(o(q), j, z) => q = r /\ j = i
      BY <2>1 DEF EachIsOnePeers
    <2> HIDE DEF o, y
    <2> QED
      BY <1>1, <2>2
  <1>3. \A q \in Peers(cp) : back(q)[n] = ValueAt(part(q), o(q), y)
    BY DEF local_response_to_full
  <1>4. \A q \in Peers(cp) : part(q) = Halves(x, o(q), f)
    BY DEF slice_log_prob_with_cp
  <1>5. \A q \in Peers(cp) : Inside(o(q), f, Len(x))
    BY LogitsInside DEF Cut
  <1> HIDE DEF o, part, back, f, y
  <1>6. back(r)[n] = x[n]
    <2>1. part(r)[PlaceOf(o(r), i, y)] = x[n]
      <3>1. Inside(o(r), f, Len(x))
        BY <1>5
      <3>2. Halves(x, o(r), f)[PlaceOf(o(r), i, y)] = x[y - f + 1]
        <4>1. HasRanges(Halves(x, o(r), f), o(r), x, f)
          BY <1>1, <3>1, HalvesHold
        <4> QED
          BY <1>1, <1>2, <4>1 DEF HasRanges
      <3> QED
        BY <1>1, <1>4, <3>2
    <2>2. CASE i = 1
      <3>1. ValueAt(part(r), o(r), y) = part(r)[y - o(r)[1][1] + 1]
        BY <1>2, <2>2 DEF ValueAt, Holds
      <3> QED
        BY <1>3, <2>1, <2>2, <3>1 DEF PlaceOf
    <2>3. CASE i = 2
      <3>1. ~Holds(o(r), 1, y) /\ Holds(o(r), 2, y)
        BY <1>2, <2>3
      <3>2. ValueAt(part(r), o(r), y) = part(r)[Length(o(r)[1]) + y - o(r)[2][1] + 1]
        BY <3>1 DEF ValueAt, Holds
      <3> QED
        BY <1>3, <2>1, <2>3, <3>2 DEF PlaceOf
    <2> QED
      BY <2>2, <2>3
  <1>7. ASSUME NEW q \in Peers(cp) \ {r} PROVE back(q)[n] = 0
    <2>1. ~Holds(o(q), 1, y) /\ ~Holds(o(q), 2, y)
      BY <1>2
    <2>2. ValueAt(part(q), o(q), y) = 0
      BY <2>1 DEF ValueAt, Holds
    <2> QED
      BY <1>3, <2>2
  <1> QED
    BY <1>6, <1>7

\* A piece of what begins at 0, cut at the i-th range.
HasRange(piece, o, i, x) ==
    /\ Len(piece) = Length(o[i])
    /\ \A y \in Int : Holds(o, i, y) => piece[y - o[i][1] + 1] = x[y + 1]

(* A piece of one of a peer's chunks is that piece of the whole.           *)
LEMMA PieceOfChunk ==
    ASSUME NEW total, NEW response, NEW span, NEW cp, NEW r, Cut(total, response, span, cp, r),
           NEW S, NEW all \in Seq(S), Len(all) = 2 * cp * chunk_size(span, cp),
           NEW i \in 1..2, NEW g \in Seq(S), Len(g) = chunk_size(span, cp),
           IsPart(g, all, chunk_offsets(span, cp, r)[i][1])
    PROVE  LET o == logits_offset(total, response, span, cp, r)
               chunk == chunk_offsets(span, cp, r)
               piece == slice(g, o[i][1] - chunk[i][1], o[i][2] - chunk[i][1])
           IN  piece \in Seq(S) /\ HasRange(piece, o, i, all)
  <1> DEFINE o == logits_offset(total, response, span, cp, r)
             t == tokens_offset(total, response, span, cp, r)
             chunk == chunk_offsets(span, cp, r)
             c == chunk_size(span, cp)
             first == chunk[i][1]
             piece == slice(g, o[i][1] - first, o[i][2] - first)
  <1>1. /\ Ranges(o)
        /\ \A j \in 1..2 : \/ o[j] = <<0, 0>> /\ t[j] = <<0, 0>>
                           \/ /\ o[j][1] < o[j][2]
                              /\ chunk[j][1] <= o[j][1] /\ total - response - 1 <= o[j][1]
                              /\ o[j][2] <= chunk[j][2] /\ o[j][2] <= total - 1
                              /\ t[j] = <<o[j][1] + 1, o[j][2] + 1>>
    BY OffsetsOfPeer
  <1>2. Ranges(chunk) /\ \A j \in 1..2 : 0 <= chunk[j][1] /\ chunk[j][2] = chunk[j][1] + c
    BY ChunksOfPeer DEF Cut
  <1> HIDE DEF o, t, chunk, c
  <1>3. first \in Int /\ o[i][1] \in Int /\ o[i][2] \in Int /\ Length(o[i]) = o[i][2] - o[i][1]
    BY <1>1, <1>2 DEF Ranges, Length
  <1>4. CASE o[i] = <<0, 0>>
    <2>1. piece = <<>>
      BY <1>3, <1>4, SliceOfNothing
    <2>2. \A y \in Int : ~Holds(o, i, y)
      BY <1>4 DEF Holds
    <2> HIDE DEF piece, first
    <2>3. piece \in Seq(S) /\ Len(piece) = Length(o[i])
      BY <1>3, <1>4, <2>1
    <2> QED
      BY <2>2, <2>3 DEF piece, first, o, chunk, HasRange
  <1>5. CASE first <= o[i][1] /\ o[i][1] < o[i][2] /\ o[i][2] <= first + c
    <2> DEFINE lo == o[i][1]
               hi == o[i][2]
               a == lo - first
               b == hi - first
    <2>1. \A k \in 1..Len(g) : g[k] = all[first + k]
      BY DEF chunk, IsPart
    <2>2. lo \in Int /\ hi \in Int /\ first \in Int /\ Length(o[i]) = hi - lo
      BY <1>3
    <2>3. \A y \in Int : Holds(o, i, y) <=> lo <= y /\ y < hi
      BY DEF Holds
    <2>4. first <= lo /\ lo < hi /\ hi <= first + Len(g)
      BY <1>5 DEF c
    <2> HIDE DEF lo, hi, first
    <2>5. a \in Nat /\ b \in Nat /\ a <= b /\ b <= Len(g) /\ b - a = hi - lo
      BY <2>2, <2>4
    <2>6. \A y \in Int : Holds(o, i, y) =>
             y - lo + 1 \in 1..(b - a) /\ a + (y - lo + 1) \in 1..Len(g) /\ first + (a + (y - lo + 1)) = y + 1
      BY <2>2, <2>3, <2>4
    <2> HIDE DEF a, b
    <2>7. slice(g, a, b) \in Seq(S) /\ Len(slice(g, a, b)) = b - a /\ IsPart(slice(g, a, b), g, a)
      BY <2>5, SliceInside
    <2>8. piece = slice(g, a, b)
      BY DEF a, b, lo, hi
    <2> HIDE DEF piece
    <2>9. ASSUME NEW y \in Int, Holds(o, i, y)
          PROVE  piece[y - lo + 1] = all[y + 1]
      <3> DEFINE k == y - lo + 1
      <3>1. k \in 1..(b - a) /\ a + k \in 1..Len(g) /\ first + (a + k) = y + 1
        BY <2>6, <2>9
      <3> HIDE DEF k
      <3>2. g[a + k] = all[first + (a + k)]
        BY <2>1, <3>1
      <3>3. piece[k] = g[a + k]
        BY <2>7, <2>8, <3>1 DEF IsPart
      <3> QED
        BY <3>1, <3>2, <3>3 DEF k
    <2>10. piece \in Seq(S) /\ Len(piece) = Length(o[i])
      BY <2>2, <2>5, <2>7, <2>8
    <2> QED
      BY <2>9, <2>10 DEF piece, first, lo, o, chunk, HasRange
  <1>6. \/ o[i] = <<0, 0>>
        \/ first <= o[i][1] /\ o[i][1] < o[i][2] /\ o[i][2] <= first + c
    BY <1>1, <1>2
  <1> QED
    BY <1>4, <1>5, <1>6

(* A sequence that goes on with another.                                   *)
LEMMA Joined ==
    ASSUME NEW S, NEW s \in Seq(S), NEW t \in Seq(S)
    PROVE  s \o t \in Seq(S) /\ Len(s \o t) = Len(s) + Len(t) /\ IsPart(s, s \o t, 0)
  BY DEF IsPart

(* The two pieces that a stream begins with.                               *)
LEMMA PieceOfStream ==
    ASSUME NEW S, NEW s \in Seq(S), NEW t \in Seq(S), NEW c \in Nat, Len(s) = 2 * c, NEW i \in 1..2
    PROVE  LET g == slice(s \o t, (i - 1) * c, i * c)
           IN  g \in Seq(S) /\ Len(g) = c /\ IsPart(g, s, (i - 1) * c)
  <1> DEFINE a == (i - 1) * c
             b == i * c
             stream == s \o t
  <1>1. stream \in Seq(S) /\ Len(stream) = Len(s) + Len(t) /\ IsPart(s, stream, 0)
    BY Joined
  <1>2. a \in Nat /\ b = a + c /\ b <= 2 * c
    <2>1. CASE i = 1
      BY <2>1
    <2>2. CASE i = 2
      BY <2>2
    <2> QED
      BY <2>1, <2>2
  <1> HIDE DEF a, b, stream
  <1>3. b \in Nat /\ a <= b /\ b <= Len(stream) /\ b - a = c
    BY <1>1, <1>2
  <1>4. /\ slice(stream, a, b) \in Seq(S) /\ Len(slice(stream, a, b)) = b - a
        /\ IsPart(slice(stream, a, b), stream, a)
    BY <1>1, <1>2, <1>3, SliceInside
  <1>5. ASSUME NEW k \in 1..c PROVE slice(stream, a, b)[k] = s[a + k]
    <2>1. slice(stream, a, b)[k] = stream[a + k]
      BY <1>3, <1>4 DEF IsPart
    <2>2. a + k \in 1..Len(s) /\ 0 + (a + k) = a + k
      BY <1>2
    <2> QED
      BY <1>1, <2>1, <2>2 DEF IsPart
  <1> QED
    BY <1>3, <1>4, <1>5 DEF IsPart, a, b, stream

\* Place k pairs the logit at y with the token after it.
Meets(res, k, all, tokens, y) ==
    k \in 1..Len(res.tokens) /\ res.logits[k] = all[y + 1] /\ res.tokens[k] = tokens[y + 2]

(* In what a peer compares (get_responses), each logit is paired with the  *)
(* token after it, of the response; and no logit that the peer has of the  *)
(* response is left out.  all are the logits of the padded sequence, of    *)
(* which the peer's stream has its two chunks, and behind them those of    *)
(* the samples that follow.                                                *)
THEOREM LogitsMeetNextTokens ==
    ASSUME NEW total \in Nat, NEW response \in Nat, response < total,
           NEW span \in Nat, total <= span, NEW cp \in Nat \ {0, 1}, NEW r \in Peers(cp),
           NEW S, NEW all \in Seq(S), Len(all) = 2 * cp * chunk_size(span, cp), NEW rest \in Seq(S),
           NEW T, NEW tokens \in Seq(T), Len(tokens) = total
    PROVE  LET stream == Halves(all, chunk_offsets(span, cp, r), 0) \o rest
               res == response_of(stream, [total |-> total, response |-> response, tokens |-> tokens], span, cp, r)
               o == logits_offset(total, response, span, cp, r)
           IN  /\ Len(res.logits) = Len(res.tokens)
               /\ \A k \in 1..Len(res.tokens) : \E y \in ResponseLogits(total, response) : Meets(res, k, all, tokens, y)
               /\ \A i \in 1..2, y \in Int : Holds(o, i, y) => \E k \in Nat : Meets(res, k, all, tokens, y)
  <1> DEFINE o == logits_offset(total, response, span, cp, r)
             t == tokens_offset(total, response, span, cp, r)
             chunk == chunk_offsets(span, cp, r)
             c == chunk_size(span, cp)
             two == Halves(all, chunk, 0)
             stream == two \o rest
             res == response_of(stream, [total |-> total, response |-> response, tokens |-> tokens], span, cp, r)
             g(i) == slice(stream, (i - 1) * c, i * c)
             piece(i) == slice(g(i), o[i][1] - chunk[i][1], o[i][2] - chunk[i][1])
  <1>1. Cut(total, response, span, cp, r) /\ span \in Nat \ {0} /\ cp \in Nat \ {0}
    BY DEF Cut
  <1>2. /\ Ranges(o) /\ Ranges(t)
        /\ \A i \in 1..2 : \/ o[i] = <<0, 0>> /\ t[i] = <<0, 0>>
                           \/ /\ o[i][1] < o[i][2]
                              /\ chunk[i][1] <= o[i][1] /\ total - response - 1 <= o[i][1]
                              /\ o[i][2] <= chunk[i][2] /\ o[i][2] <= total - 1
                              /\ t[i] = <<o[i][1] + 1, o[i][2] + 1>>
        /\ \A i \in 1..2 : \A y \in Int :
               Holds(o, i, y) <=> Holds(chunk, i, y) /\ y \in ResponseLogits(total, response)
    BY SMTT(30), <1>1, OffsetsOfPeer
  <1>3. /\ Ranges(chunk)
        /\ \A i \in 1..2 : 0 <= chunk[i][1] /\ chunk[i][2] = chunk[i][1] + c
        /\ chunk[1][2] <= chunk[2][1] /\ chunk[2][2] <= 2 * cp * c
        /\ c \in Nat \ {0}
    BY <1>1, ChunksOfPeer, ChunksCover
  <1>4. /\ res.tokens = Halves(tokens, t, 0)
        /\ res.logits = piece(1) \o piece(2)
    BY DEF response_of, OfPieces
  <1> HIDE DEF res, o, t, chunk, c
  <1>5. Inside(chunk, 0, Len(all)) /\ Length(chunk[1]) = c /\ Length(chunk[2]) = c
    <2> DEFINE n == 2 * cp * c
    <2>1. Len(all) = n /\ n \in Int
      BY <1>1, <1>3 DEF c
    <2>2. chunk[2][2] <= n
      BY <1>3
    <2> HIDE DEF n
    <2>3. \A i \in 1..2 : chunk[i][1] \in Int /\ chunk[i][2] \in Int
      BY <1>3 DEF Ranges
    <2>4. ASSUME NEW i \in 1..2
          PROVE  0 <= chunk[i][1] /\ chunk[i][1] < chunk[i][2] /\ chunk[i][2] <= n /\ Length(chunk[i]) = c
      <3> DEFINE lo == chunk[i][1]
                 hi == chunk[i][2]
                 last == chunk[2][2]
                 first_end == chunk[1][2]
                 second == chunk[2][1]
      <3>1. lo \in Int /\ hi \in Int /\ last \in Int /\ first_end \in Int /\ second \in Int
        BY <2>3
      <3>2. 0 <= lo /\ hi = lo + c /\ last = second + c /\ first_end <= second /\ last <= n /\ c \in Nat \ {0}
        BY <1>3, <2>2
      <3>3. hi = first_end \/ hi = last
        OBVIOUS
      <3>4. Length(chunk[i]) = hi - lo
        BY DEF Length
      <3> HIDE DEF lo, hi, last, first_end, second
      <3>5. 0 <= lo /\ lo < hi /\ hi <= n /\ hi - lo = c
        BY <2>1, <3>1, <3>2, <3>3
      <3> QED
        BY <3>4, <3>5 DEF lo, hi
    <2>5. 0 + Len(all) = n
      BY <2>1
    <2> QED
      BY <1>3, <2>4, <2>5 DEF Inside
  <1>6. Inside(t, 0, Len(tokens))
    <2>1. ASSUME NEW i \in 1..2
          PROVE  \/ t[i] = <<0, 0>>
                 \/ 0 <= t[i][1] /\ t[i][1] < t[i][2] /\ t[i][2] <= 0 + Len(tokens)
      <3>1. CASE o[i] = <<0, 0>> /\ t[i] = <<0, 0>>
        BY <3>1
      <3>2. CASE /\ o[i][1] < o[i][2] /\ total - response - 1 <= o[i][1] /\ o[i][2] <= total - 1
                 /\ t[i] = <<o[i][1] + 1, o[i][2] + 1>>
        <4> DEFINE lo == o[i][1]
                   hi == o[i][2]
        <4>1. lo \in Int /\ hi \in Int
          BY <1>2 DEF Ranges
        <4>2. t[i][1] = lo + 1 /\ t[i][2] = hi + 1 /\ lo < hi /\ total - response - 1 <= lo /\ hi <= total - 1
          BY <3>2
        <4> HIDE DEF lo, hi
        <4>3. 0 <= lo + 1 /\ lo + 1 < hi + 1 /\ hi + 1 <= 0 + Len(tokens)
          BY <4>1, <4>2
        <4> QED
          BY <4>2, <4>3
      <3> QED
        BY <1>2, <3>1, <3>2
    <2> QED
      BY <1>2, <2>1 DEF Inside
  <1>7. ASSUME NEW i \in 1..2
        PROVE  /\ \A y \in Int : Holds(o, i, y) <=> Holds(t, i, y + 1)
               /\ t[i][2] - t[i][1] = o[i][2] - o[i][1]
               /\ (\E y \in Int : Holds(o, i, y)) => t[i][1] = o[i][1] + 1
               /\ o[i][1] \in Int /\ o[i][2] \in Int /\ t[i][1] \in Int /\ t[i][2] \in Int
    <2>1. o[i][1] \in Int /\ o[i][2] \in Int
      BY <1>2 DEF Ranges
    <2>2. CASE o[i] = <<0, 0>> /\ t[i] = <<0, 0>>
      BY <2>2 DEF Holds
    <2>3. CASE t[i] = <<o[i][1] + 1, o[i][2] + 1>>
      <3> DEFINE lo == o[i][1]
                 hi == o[i][2]
      <3>1. t[i][1] = lo + 1 /\ t[i][2] = hi + 1
        BY <2>3
      <3>2. \A y : /\ Holds(o, i, y) <=> lo <= y /\ y < hi
                   /\ Holds(t, i, y + 1) <=> lo + 1 <= y + 1 /\ y + 1 < hi + 1
        BY <3>1 DEF Holds
      <3>3. lo \in Int /\ hi \in Int
        BY <2>1
      <3> HIDE DEF lo, hi
      <3>4. \A y \in Int : Holds(o, i, y) <=> Holds(t, i, y + 1)
        BY <3>2, <3>3
      <3>5. (hi + 1) - (lo + 1) = hi - lo /\ lo + 1 \in Int /\ hi + 1 \in Int
        BY <3>3
      <3> QED
        BY <3>1, <3>3, <3>4, <3>5 DEF lo, hi
    <2> QED
      BY <1>2, <2>2, <2>3
  <1>8. Length(t[1]) = Length(o[1]) /\ Length(t[2]) = Length(o[2])
    BY <1>7 DEF Length
  <1>9. ASSUME NEW i \in 1..2, NEW y \in Int, Holds(o, i, y)
        PROVE  Holds(t, i, y + 1) /\ PlaceOf(t, i, y + 1) = PlaceOf(o, i, y)
    <2> DEFINE lo == o[i][1]
               m == Length(o[1])
    <2>1. Holds(t, i, y + 1) /\ t[i][1] = lo + 1 /\ lo \in Int
      BY <1>7, <1>9
    <2>2. m = o[1][2] - o[1][1] /\ o[1][2] \in Int /\ o[1][1] \in Int
      BY <1>2 DEF Length, Ranges
    <2>3. m \in Int
      BY <2>2
    <2>4. /\ i = 1 => PlaceOf(t, i, y + 1) = (y + 1) - t[i][1] + 1 /\ PlaceOf(o, i, y) = y - lo + 1
          /\ i = 2 => PlaceOf(t, i, y + 1) = m + (y + 1) - t[i][1] + 1 /\ PlaceOf(o, i, y) = m + y - lo + 1
      <3>1. CASE i = 1
        <4>1. PlaceOf(t, 1, y + 1) = (y + 1) - t[1][1] + 1 /\ PlaceOf(o, 1, y) = y - o[1][1] + 1
          BY DEF PlaceOf
        <4> QED
          BY <3>1, <4>1
      <3>2. CASE i = 2
        BY <1>8, <3>2 DEF PlaceOf
      <3> QED
        BY <3>1, <3>2
    <2> HIDE DEF lo, m
    <2>5. (y + 1) - (lo + 1) + 1 = y - lo + 1 /\ m + (y + 1) - (lo + 1) + 1 = m + y - lo + 1
      BY <2>1, <2>3
    <2> QED
      BY <2>1, <2>4, <2>5
  <1>10. /\ two \in Seq(S) /\ Len(two) = 2 * c
         /\ \A i \in 1..2, y \in Int : Holds(chunk, i, y) => two[PlaceOf(chunk, i, y)] = all[y + 1]
    <2>1. two \in Seq(S) /\ HasRanges(two, chunk, all, 0)
      BY <1>5, HalvesHold
    <2> HIDE DEF two
    <2>2. \A y \in Int : y - 0 + 1 = y + 1
      OBVIOUS
    <2>3. Len(two) = c + c
      BY <1>5, <2>1 DEF HasRanges
    <2>4. Len(two) = 2 * c
      BY <1>3, <2>3
    <2> QED
      BY <2>1, <2>2, <2>4 DEF HasRanges
  <1> HIDE DEF two
  <1>11. ASSUME NEW i \in 1..2
         PROVE  g(i) \in Seq(S) /\ Len(g(i)) = c /\ IsPart(g(i), all, chunk[i][1])
    <2> DEFINE a == (i - 1) * c
               lo == chunk[i][1]
    <2>1. g(i) \in Seq(S) /\ Len(g(i)) = c /\ IsPart(g(i), two, a)
      BY <1>3, <1>10, PieceOfStream
    <2>2. \A k \in Int : PlaceOf(chunk, i, lo + k - 1) = a + k
      <3>1. lo \in Int /\ c \in Int /\ Length(chunk[1]) = c
        <4>1. lo \in Int
          BY <1>3 DEF Ranges
        <4> QED
          BY <1>3, <1>5, <4>1
      <3>2. CASE i = 1
        <4>1. \A y : PlaceOf(chunk, i, y) = y - lo + 1
          BY <3>2 DEF PlaceOf
        <4>2. a = 0
          BY <1>3, <3>2
        <4> HIDE DEF lo, a
        <4> QED
          BY <3>1, <4>1, <4>2
      <3>3. CASE i = 2
        <4>1. \A y : PlaceOf(chunk, i, y) = c + y - lo + 1
          BY <3>1, <3>3 DEF PlaceOf
        <4>2. a = c
          BY <1>3, <3>3
        <4> HIDE DEF lo, a
        <4> QED
          BY <3>1, <4>1, <4>2
      <3> QED
        BY <3>2, <3>3
    <2>3. lo \in Int /\ \A y \in Int : Holds(chunk, i, y) <=> lo <= y /\ y < lo + c
      BY <1>3 DEF Ranges, Holds
    <2> HIDE DEF a, lo, g
    <2>4. ASSUME NEW k \in 1..c PROVE g(i)[k] = all[lo + k]
      <3> DEFINE y == lo + k - 1
      <3>1. y \in Int /\ y + 1 = lo + k /\ lo <= y /\ y < lo + c /\ PlaceOf(chunk, i, y) = a + k
        BY <1>3, <2>2, <2>3
      <3> HIDE DEF y
      <3>2. two[a + k] = all[lo + k]
        BY <1>10, <2>3, <3>1
      <3>3. g(i)[k] = two[a + k]
        BY <2>1 DEF IsPart
      <3> QED
        BY <3>2, <3>3
    <2> QED
      BY <2>1, <2>4 DEF IsPart, lo
  <1> HIDE DEF g
  <1>12. ASSUME NEW i \in 1..2
         PROVE  /\ piece(i) \in Seq(S) /\ Len(piece(i)) = Length(o[i])
                /\ \A y \in Int : Holds(o, i, y) => piece(i)[y - o[i][1] + 1] = all[y + 1]
    <2>1. Len(all) = 2 * cp * chunk_size(span, cp)
      OBVIOUS
    <2>2. g(i) \in Seq(S) /\ Len(g(i)) = chunk_size(span, cp) /\ IsPart(g(i), all, chunk_offsets(span, cp, r)[i][1])
      BY <1>11 DEF c, chunk
    <2> HIDE DEF g
    <2>3. LET part == slice(g(i), logits_offset(total, response, span, cp, r)[i][1] - chunk_offsets(span, cp, r)[i][1],
                            logits_offset(total, response, span, cp, r)[i][2] - chunk_offsets(span, cp, r)[i][1])
          IN  part \in Seq(S) /\ HasRange(part, logits_offset(total, response, span, cp, r), i, all)
      BY <1>1, <2>1, <2>2, PieceOfChunk
    <2> QED
      BY <2>3 DEF o, chunk, HasRange
  <1> HIDE DEF piece
  <1>13. /\ Len(res.logits) = Length(o[1]) + Length(o[2])
         /\ Filled(o, Len(res.logits))
         /\ \A i \in 1..2, y \in Int : Holds(o, i, y) =>
                PlaceOf(o, i, y) \in 1..Len(res.logits) /\ res.logits[PlaceOf(o, i, y)] = all[y + 1]
    <2> DEFINE p == piece(1)
               q == piece(2)
    <2>1. /\ p \in Seq(S) /\ Len(p) = Length(o[1])
          /\ \A y \in Int : Holds(o, 1, y) => p[y - o[1][1] + 1] = all[y + 1]
      BY <1>12
    <2>2. /\ q \in Seq(S) /\ Len(q) = Length(o[2])
          /\ \A y \in Int : Holds(o, 2, y) => q[y - o[2][1] + 1] = all[y + 1]
      BY <1>12
    <2>3. res.logits = p \o q
      BY <1>4
    <2> HIDE DEF p, q
    <2>4. /\ p \o q \in Seq(S) /\ Len(p \o q) = Length(o[1]) + Length(o[2])
          /\ \A y \in Int : Holds(o, 1, y) =>
                 PlaceOf(o, 1, y) \in 1..Len(p \o q) /\ (p \o q)[PlaceOf(o, 1, y)] = p[y - o[1][1] + 1]
          /\ \A y \in Int : Holds(o, 2, y) =>
                 PlaceOf(o, 2, y) \in 1..Len(p \o q) /\ (p \o q)[PlaceOf(o, 2, y)] = q[y - o[2][1] + 1]
          /\ Filled(o, Len(p \o q))
      BY <1>2, <2>1, <2>2, TwoPieces
    <2>5. ASSUME NEW i \in 1..2, NEW y \in Int, Holds(o, i, y)
          PROVE  PlaceOf(o, i, y) \in 1..Len(p \o q) /\ (p \o q)[PlaceOf(o, i, y)] = all[y + 1]
      <3>1. CASE i = 1
        BY <2>1, <2>4, <2>5, <3>1
      <3>2. CASE i = 2
        BY <2>2, <2>4, <2>5, <3>2
      <3>3. i = 1 \/ i = 2
        OBVIOUS
      <3> QED
        BY <3>1, <3>2, <3>3
    <2> QED
      BY <2>3, <2>4, <2>5
  <1>14. /\ Len(res.tokens) = Length(o[1]) + Length(o[2])
         /\ \A i \in 1..2, y \in Int : Holds(o, i, y) => res.tokens[PlaceOf(o, i, y)] = tokens[y + 2]
    <2>1. HasRanges(res.tokens, t, tokens, 0)
      BY <1>4, <1>6, HalvesHold
    <2>2. ASSUME NEW i \in 1..2, NEW y \in Int, Holds(o, i, y)
          PROVE  res.tokens[PlaceOf(o, i, y)] = tokens[y + 2]
      <3>1. y + 1 \in Int /\ (y + 1) - 0 + 1 = y + 2
        OBVIOUS
      <3>2. res.tokens[PlaceOf(t, i, y + 1)] = tokens[(y + 1) - 0 + 1]
        BY <1>9, <2>1, <2>2, <3>1 DEF HasRanges
      <3> QED
        BY <1>9, <2>2, <3>1, <3>2
    <2> QED
      BY <1>8, <2>1, <2>2 DEF HasRanges
  <1>15. ASSUME NEW i \in 1..2, NEW y \in Int, Holds(o, i, y)
         PROVE  /\ Meets(res, PlaceOf(o, i, y), all, tokens, y)
                /\ PlaceOf(o, i, y) \in Nat /\ y \in ResponseLogits(total, response)
    <2>1. /\ PlaceOf(o, i, y) \in 1..Len(res.logits) /\ res.logits[PlaceOf(o, i, y)] = all[y + 1]
          /\ res.tokens[PlaceOf(o, i, y)] = tokens[y + 2]
      BY <1>13, <1>14, <1>15
    <2>2. y \in ResponseLogits(total, response)
      BY <1>2, <1>15
    <2>3. Len(res.logits) = Len(res.tokens) /\ PlaceOf(o, i, y) \in Nat
      BY <1>13, <1>14, <2>1
    <2> QED
      BY <2>1, <2>2, <2>3 DEF Meets
  <1>16. ASSUME NEW k \in 1..Len(res.tokens)
         PROVE  \E y \in ResponseLogits(total, response) : Meets(res, k, all, tokens, y)
    <2>1. PICK i \in 1..2, y \in Int : Holds(o, i, y) /\ PlaceOf(o, i, y) = k
      BY <1>13, <1>14 DEF Filled
    <2> QED
      BY <1>15, <2>1
  <1>17. Len(res.logits) = Len(res.tokens)
    BY <1>13, <1>14
  <1>18. \A i \in 1..2, y \in Int : Holds(o, i, y) => \E k \in Nat : Meets(res, k, all, tokens, y)
    BY <1>15
  <1> QED
    BY <1>16, <1>17, <1>18 DEF res, o, stream, two, chunk

(***************************************************************************)
(* Sums and powers.                                                        *)
(***************************************************************************)
\* The function that SumOf is defined by.
Adds(it, s) ==
    it = [t \in SUBSET DOMAIN s |-> IF t = {} THEN 0 ELSE it[t \ {Max(t)}] + s[Max(t)]]

(* There is one.                                                           *)
LEMMA AddsExists ==
    ASSUME NEW s \in Seq(Int)
    PROVE  \E it : Adds(it, s)
  <1> DEFINE n == Len(s)
             h == [iv \in (1..n) \X Int |-> iv[2] + s[iv[1]]]
  <1>1. n \in Nat /\ DOMAIN s = 1..n
    OBVIOUS
  <1>2. h \in [(1..n) \X Int -> Int]
    OBVIOUS
  <1>3. PICK it : FoldsLeft(it, n, Int, 0, h)
    <2>1. 0 \in Int
      OBVIOUS
    <2> HIDE DEF n, h
    <2> QED
      BY <1>1, <1>2, <2>1, FoldLeftExists
  <1>4. ASSUME NEW t \in SUBSET (1..n), t # {} PROVE it[t] = it[t \ {Max(t)}] + s[Max(t)]
    <2>1. Max(t) \in 1..n
      <3> HIDE DEF n, h
      <3>1. Max(t) \in t
        BY <1>1, <1>4, LargestIn
      <3> QED
        BY <3>1
    <2>2. it[t \ {Max(t)}] \in Int
      BY <1>3 DEF FoldsLeft
    <2>3. it[t] = h[<<Max(t), it[t \ {Max(t)}]>>]
      BY <1>3, <1>4 DEF FoldsLeft
    <2> QED
      BY <2>1, <2>2, <2>3
  <1> HIDE DEF n, h
  <1>5. it = [t \in SUBSET DOMAIN s |-> it[t]] /\ it[{}] = 0
    BY <1>1, <1>3 DEF FoldsLeft
  <1> QED
    BY <1>1, <1>4, <1>5 DEF Adds

(* The sum, one number after the other.                                    *)
LEMMA SumSteps ==
    ASSUME NEW s \in Seq(Int)
    PROVE  \E f : /\ f \in [0..Len(s) -> Int] /\ f[0] = 0 /\ f[Len(s)] = SumOf(s)
                  /\ \A i \in 1..Len(s) : f[i] = f[i - 1] + s[i]
  <1> DEFINE n == Len(s)
             jt == CHOOSE it : Adds(it, s)
             f == [i \in 0..n |-> jt[1..i]]
  <1>1. n \in Nat /\ DOMAIN s = 1..n
    OBVIOUS
  <1>2. Adds(jt, s)
    BY AddsExists
  <1>3. SumOf(s) = jt[DOMAIN s]
    BY DEF SumOf, FoldLeft, MapThenFoldSet, Adds
  <1> HIDE DEF jt
  <1>4. f[0] = 0 /\ f[n] = SumOf(s)
    <2>1. 1..0 = {} /\ 1..0 \in SUBSET DOMAIN s
      OBVIOUS
    <2> HIDE DEF n
    <2> QED
      BY <1>1, <1>2, <1>3, <2>1 DEF Adds
  <1>5. ASSUME NEW i \in 1..n PROVE f[i] = f[i - 1] + s[i]
    <2> DEFINE k == i - 1
    <2>1. k \in Nat /\ k \in 0..n /\ i = k + 1 /\ i \in 0..n
      OBVIOUS
    <2>2. Max(1..i) = i /\ (1..i) \ {i} = 1..k /\ 1..i # {}
      <3> HIDE DEF k
      <3> QED
        BY <2>1, LastNumber
    <2>3. 1..i \in SUBSET DOMAIN s
      BY <1>1
    <2> HIDE DEF n, k
    <2>4. jt[1..i] = jt[1..k] + s[i]
      BY <1>2, <2>2, <2>3 DEF Adds
    <2> QED
      BY <2>1, <2>4 DEF k
  <1>6. \A i \in Nat : i \in 0..n => f[i] \in Int
    <2> DEFINE P == {i \in Nat : i \in 0..n => f[i] \in Int}
    <2> HIDE DEF f, n
    <2>1. 0 \in P
      BY <1>4
    <2>2. ASSUME NEW i \in P PROVE i + 1 \in P
      <3> SUFFICES ASSUME i + 1 \in 0..n PROVE f[i + 1] \in Int
        OBVIOUS
      <3>1. i \in 0..n /\ i + 1 \in 1..n /\ (i + 1) - 1 = i
        BY <1>1
      <3>2. s[i + 1] \in Int
        BY <1>1, <3>1 DEF n
      <3>3. f[i + 1] = f[i] + s[i + 1]
        BY <3>1, <1>5
      <3> QED
        BY <3>1, <3>2, <3>3
    <2>3. P = Nat
      <3> HIDE DEF P
      <3>1. P \in SUBSET Nat
        BY DEF P
      <3> QED
        BY <3>1, <2>1, <2>2, Induction
    <2> QED
      BY <2>3
  <1>7. f \in [0..n -> Int]
    <2>1. \A i \in 0..n : f[i] \in Int
      <3> HIDE DEF f
      <3> QED
        BY <1>6, <1>1
    <2> QED
      BY <2>1
  <1> HIDE DEF f
  <1> QED
    BY <1>4, <1>5, <1>7

(* What the steps leave behind is the sum.                                 *)
LEMMA SumByStepsIs ==
    ASSUME NEW s \in Seq(Int), NEW g, g[0] = 0, \A i \in 1..Len(s) : g[i] = g[i - 1] + s[i]
    PROVE  g[Len(s)] = SumOf(s)
  <1> DEFINE n == Len(s)
  <1>0. n \in Nat
    OBVIOUS
  <1>1. PICK f : /\ f \in [0..n -> Int] /\ f[0] = 0 /\ f[n] = SumOf(s)
                 /\ \A i \in 1..n : f[i] = f[i - 1] + s[i]
    BY SumSteps
  <1> DEFINE P == {i \in Nat : i \in 0..n => g[i] = f[i]}
  <1> HIDE DEF n
  <1>2. 0 \in P
    BY <1>1
  <1>3. ASSUME NEW i \in P PROVE i + 1 \in P
    <2> SUFFICES ASSUME i + 1 \in 0..n PROVE g[i + 1] = f[i + 1]
      OBVIOUS
    <2>1. i \in 0..n /\ i + 1 \in 1..n /\ (i + 1) - 1 = i
      BY <1>0
    <2> QED
      BY <2>1, <1>1 DEF n
  <1>4. P = Nat
    <2> HIDE DEF P
    <2>1. P \in SUBSET Nat
      BY DEF P
    <2> QED
      BY <2>1, <1>2, <1>3, Induction
  <1>5. n \in 0..n
    BY <1>0
  <1> QED
    BY <1>0, <1>1, <1>4, <1>5 DEF n

(* A sum is a number.                                                      *)
LEMMA SumType == ASSUME NEW s \in Seq(Int) PROVE SumOf(s) \in Int
  <1>1. Len(s) \in 0..Len(s)
    OBVIOUS
  <1> QED
    BY <1>1, SumSteps

(* The sum of a sequence by its first numbers, n of them.                  *)
LEMMA SumOfFirst ==
    ASSUME NEW n \in Nat, NEW s \in [1..(n + 1) -> Int]
    PROVE  /\ SumOf([i \in 1..0 |-> s[i]]) = 0
           /\ SumOf([i \in 1..n |-> s[i]]) \in Int
           /\ SumOf([i \in 1..(n + 1) |-> s[i]]) = SumOf([i \in 1..n |-> s[i]]) + s[n + 1]
  <1> DEFINE a == [i \in 1..n |-> s[i]]
             b == [i \in 1..(n + 1) |-> s[i]]
             e == [i \in 1..0 |-> s[i]]
  <1>1. a \in Seq(Int) /\ Len(a) = n /\ b \in Seq(Int) /\ Len(b) = n + 1 /\ b = s
    OBVIOUS
  <1>2. PICK f : /\ f \in [0..(n + 1) -> Int] /\ f[0] = 0 /\ f[n + 1] = SumOf(b)
                 /\ \A i \in 1..(n + 1) : f[i] = f[i - 1] + b[i]
    <2> HIDE DEF b
    <2> QED
      BY <1>1, SumSteps
  <1>3. f[n] = SumOf(a)
    <2>1. \A i \in 1..n : f[i] = f[i - 1] + a[i]
      BY <1>2
    <2> HIDE DEF a
    <2> QED
      BY <2>1, <1>1, <1>2, SumByStepsIs
  <1>4. n + 1 \in 1..(n + 1) /\ (n + 1) - 1 = n
    OBVIOUS
  <1>5. f[n + 1] = f[n] + s[n + 1]
    BY <1>2, <1>4, <1>1
  <1>6. SumOf(e) = 0
    <2>1. e \in Seq(Int) /\ Len(e) = 0
      OBVIOUS
    <2> HIDE DEF e
    <2> QED
      BY <2>1, SumSteps
  <1>7. SumOf(a) \in Int
    <2> HIDE DEF a
    <2> QED
      BY <1>1, SumType
  <1> QED
    BY <1>2, <1>3, <1>5, <1>6, <1>7

(* Powers, one factor after the other.                                     *)
LEMMA PowerSteps ==
    ASSUME NEW w \in Int
    PROVE  /\ Power(w, 0) = 1
           /\ \A n \in Nat : Power(w, n) \in Int /\ Power(w, n + 1) = w * Power(w, n)
  <1> DEFINE h == [nv \in Nat \X Int |-> w * nv[2]]
             E(f) == f = [k \in Nat |-> IF k = 0 THEN 1 ELSE w * f[k - 1]]
             g == CHOOSE f : E(f)
  <1>1. h \in [Nat \X Int -> Int]
    OBVIOUS
  <1>2. PICK f : Recursive(f, Int, 1, h)
    <2> HIDE DEF h
    <2> QED
      BY <1>1, Recursion
  <1>3. E(f)
    <2>1. f \in [Nat -> Int] /\ f[0] = 1 /\ \A n \in Nat : f[n + 1] = w * f[n]
      BY <1>2 DEF Recursive
    <2>2. ASSUME NEW k \in Nat, k # 0 PROVE f[k] = w * f[k - 1]
      <3>1. k - 1 \in Nat /\ (k - 1) + 1 = k
        BY <2>2
      <3> QED
        BY <3>1, <2>1
    <2> QED
      BY <2>1, <2>2
  <1>4. E(g)
    BY <1>3
  <1>5. \A n : Power(w, n) = g[n]
    BY DEF Power
  <1> HIDE DEF g
  <1>6. g[0] = 1 /\ \A n \in Nat : g[n + 1] = w * g[n]
    BY <1>4
  <1>7. \A n \in Nat : g[n] \in Int
    <2> DEFINE P == {n \in Nat : g[n] \in Int}
    <2>1. 0 \in P
      BY <1>6
    <2>2. \A n \in P : n + 1 \in P
      BY <1>6
    <2>3. P = Nat
      <3> HIDE DEF P
      <3>1. P \in SUBSET Nat
        BY DEF P
      <3> QED
        BY <3>1, <2>1, <2>2, Induction
    <2> QED
      BY <2>3
  <1> QED
    BY <1>5, <1>6, <1>7

(* What each number is multiplied by, the sum is.                          *)
LEMMA SumScaled ==
    ASSUME NEW w \in Int, NEW n \in Nat, NEW s \in [1..n -> Int]
    PROVE  SumOf([i \in 1..n |-> w * s[i]]) = w * SumOf([i \in 1..n |-> s[i]])
  <1> DEFINE a == [i \in 1..n |-> s[i]]
             b == [i \in 1..n |-> w * s[i]]
  <1>1. a \in Seq(Int) /\ Len(a) = n /\ b \in Seq(Int) /\ Len(b) = n
    OBVIOUS
  <1>2. \A i \in 1..n : a[i] \in Int /\ b[i] = w * a[i]
    OBVIOUS
  <1> HIDE DEF a, b
  <1>3. PICK f : /\ f \in [0..n -> Int] /\ f[0] = 0 /\ f[n] = SumOf(a)
                 /\ \A i \in 1..n : f[i] = f[i - 1] + a[i]
    BY SMTT(30), <1>1, SumSteps
  <1> DEFINE g == [i \in 0..n |-> w * f[i]]
  <1>4. g[0] = 0 /\ g[n] = w * SumOf(a)
    BY <1>3
  <1>5. ASSUME NEW i \in 1..n PROVE g[i] = g[i - 1] + b[i]
    <2>1. i \in 0..n /\ i - 1 \in 0..n /\ f[i] \in Int /\ f[i - 1] \in Int
      BY <1>3
    <2>2. f[i] = f[i - 1] + a[i]
      BY <1>3
    <2>3. w * (f[i - 1] + a[i]) = w * f[i - 1] + w * a[i]
      BY <1>2, <2>1
    <2>4. g[i] = w * f[i] /\ g[i - 1] = w * f[i - 1]
      BY <2>1
    <2> HIDE DEF g
    <2> QED
      BY <2>2, <2>3, <2>4, <1>2
  <1> HIDE DEF g
  <1>6. g[n] = SumOf(b)
    BY <1>1, <1>4, <1>5, SumByStepsIs
  <1> QED
    BY <1>4, <1>6 DEF a, b

(***************************************************************************)
(* Discounted sums: of m numbers from the t-th on, and of the first t.     *)
(***************************************************************************)
Ahead(d, w, t, m) == SumOf([l \in 1..m |-> Power(w, l - 1) * d[t + l - 1]])
Behind(d, w, t) == SumOf([k \in 1..t |-> Power(w, t - k) * d[k]])

(* One number more at the end.                                             *)
LEMMA AheadStep ==
    ASSUME NEW d \in Seq(Int), NEW w \in Int, NEW t \in Nat \ {0}, NEW m \in Nat, t + m <= Len(d)
    PROVE  /\ Ahead(d, w, t, 0) = 0 /\ Ahead(d, w, t, m) \in Int
           /\ Ahead(d, w, t, m + 1) = Ahead(d, w, t, m) + Power(w, m) * d[t + m]
  <1> DEFINE s == [l \in 1..(m + 1) |-> Power(w, l - 1) * d[t + l - 1]]
  <1>1. ASSUME NEW l \in 1..(m + 1) PROVE Power(w, l - 1) * d[t + l - 1] \in Int
    <2>1. l - 1 \in Nat /\ t + l - 1 \in 1..Len(d)
      OBVIOUS
    <2>2. \A n \in Nat : Power(w, n) \in Int
      BY PowerSteps
    <2>3. Power(w, l - 1) \in Int
      BY <2>1, <2>2
    <2>4. d[t + l - 1] \in Int
      BY <2>1
    <2> QED
      BY <2>3, <2>4
  <1>2. s \in [1..(m + 1) -> Int]
    BY <1>1
  <1>3. \A n \in 0..(m + 1) : Ahead(d, w, t, n) = SumOf([l \in 1..n |-> s[l]])
    <2>1. ASSUME NEW n \in 0..(m + 1)
          PROVE  [l \in 1..n |-> Power(w, l - 1) * d[t + l - 1]] = [l \in 1..n |-> s[l]]
      OBVIOUS
    <2> QED
      BY <2>1 DEF Ahead
  <1>4. s[m + 1] = Power(w, m) * d[t + m]
    <2>1. m + 1 \in 1..(m + 1) /\ (m + 1) - 1 = m /\ t + (m + 1) - 1 = t + m
      OBVIOUS
    <2> QED
      BY <2>1
  <1>5. 0 \in 0..(m + 1) /\ m \in 0..(m + 1) /\ m + 1 \in 0..(m + 1)
    OBVIOUS
  <1> HIDE DEF s
  <1> QED
    BY <1>2, <1>3, <1>4, <1>5, SumOfFirst

(* It is a number, and so is the whole.                                    *)
LEMMA AheadType ==
    ASSUME NEW d \in Seq(Int), NEW w \in Int, NEW t \in Nat \ {0}, NEW m \in Nat, t + m <= Len(d) + 1
    PROVE  Ahead(d, w, t, m) \in Int
  <1>1. ASSUME NEW l \in 1..m PROVE Power(w, l - 1) * d[t + l - 1] \in Int
    <2>1. l - 1 \in Nat /\ t + l - 1 \in 1..Len(d)
      OBVIOUS
    <2>2. \A n \in Nat : Power(w, n) \in Int
      BY PowerSteps
    <2>3. Power(w, l - 1) \in Int
      BY <2>1, <2>2
    <2>4. d[t + l - 1] \in Int
      BY <2>1
    <2> QED
      BY <2>3, <2>4
  <1>2. [l \in 1..m |-> Power(w, l - 1) * d[t + l - 1]] \in Seq(Int)
    BY <1>1
  <1> QED
    BY <1>2, SumType DEF Ahead

(* One number more at the beginning.                                       *)
LEMMA AheadFirst ==
    ASSUME NEW d \in Seq(Int), NEW w \in Int, NEW t \in Nat \ {0}, NEW m \in Nat, t + m <= Len(d)
    PROVE  Ahead(d, w, t, m + 1) = d[t] + w * Ahead(d, w, t + 1, m)
  <1> DEFINE P == {n \in Nat : t + n <= Len(d) =>
                        Ahead(d, w, t, n + 1) = d[t] + w * Ahead(d, w, t + 1, n)}
  <1>0. Power(w, 0) = 1 /\ \A n \in Nat : Power(w, n) \in Int /\ Power(w, n + 1) = w * Power(w, n)
    BY PowerSteps
  <1>1. 0 \in P
    <2>1. d[t] \in Int
      OBVIOUS
    <2>2. Ahead(d, w, t, 0) = 0 /\ Ahead(d, w, t, 0 + 1) = Ahead(d, w, t, 0) + Power(w, 0) * d[t + 0]
      <3>1. t + 0 <= Len(d) /\ 0 \in Nat
        OBVIOUS
      <3> QED
        BY <3>1, AheadStep
    <2>3. Ahead(d, w, t + 1, 0) = 0
      <3>1. SumOf(<<>>) = 0 /\ \A x : [l \in 1..0 |-> Power(w, l - 1) * d[x + l - 1]] = <<>>
        <4>1. <<>> \in Seq(Int) /\ Len(<<>>) = 0
          OBVIOUS
        <4>2. SumOf(<<>>) = 0
          BY <4>1, SumSteps
        <4> QED
          BY <4>2
      <3> QED
        BY <3>1 DEF Ahead
    <2>4. t + 0 = t /\ 0 + 1 = 1 /\ Power(w, 0) * d[t] = d[t] /\ w * 0 = 0
      <3>1. Power(w, 0) = 1
        BY <1>0
      <3>2. 1 * d[t] = d[t] /\ w * 0 = 0
        BY <2>1
      <3> QED
        BY <3>1, <3>2
    <2>5. Ahead(d, w, t, 1) = d[t]
      BY <2>1, <2>2, <2>4
    <2> QED
      BY <2>1, <2>3, <2>4, <2>5
  <1>2. ASSUME NEW n \in P PROVE n + 1 \in P
    <2> SUFFICES ASSUME t + (n + 1) <= Len(d)
                 PROVE  Ahead(d, w, t, (n + 1) + 1) = d[t] + w * Ahead(d, w, t + 1, n + 1)
      OBVIOUS
    <2>1. Ahead(d, w, t, n + 1) = d[t] + w * Ahead(d, w, t + 1, n)
      OBVIOUS
    <2>2. Ahead(d, w, t, (n + 1) + 1) = Ahead(d, w, t, n + 1) + Power(w, n + 1) * d[t + (n + 1)]
      <3>1. n + 1 \in Nat
        OBVIOUS
      <3> HIDE DEF P
      <3> QED
        BY <3>1, AheadStep
    <2>3. /\ Ahead(d, w, t + 1, n) \in Int
          /\ Ahead(d, w, t + 1, n + 1) = Ahead(d, w, t + 1, n) + Power(w, n) * d[(t + 1) + n]
      <3>1. t + 1 \in Nat \ {0} /\ n \in Nat /\ (t + 1) + n <= Len(d)
        OBVIOUS
      <3> HIDE DEF P
      <3> QED
        BY <3>1, AheadStep
    <2>4. d[t] \in Int /\ d[t + (n + 1)] \in Int /\ t + (n + 1) = (t + 1) + n
      OBVIOUS
    <2>5. Power(w, n) \in Int /\ Power(w, n + 1) = w * Power(w, n)
      BY <1>0
    <2> DEFINE x == d[t + (n + 1)]
               p == Power(w, n)
               q == Ahead(d, w, t + 1, n)
    <2>6. p \in Int /\ q \in Int /\ x \in Int
      BY <2>3, <2>4, <2>5
    <2>7. w * (q + p * x) = w * q + (w * p) * x
      <3> HIDE DEF x, p, q
      <3> QED
        BY <2>6
    <2> HIDE DEF P
    <2>8. Ahead(d, w, t + 1, n + 1) = q + p * x
      BY <2>3, <2>4
    <2>9. Ahead(d, w, t, (n + 1) + 1) = (d[t] + w * q) + (w * p) * x
      BY <2>1, <2>2, <2>5
    <2> HIDE DEF x, p, q
    <2>10. w * q \in Int /\ (w * p) * x \in Int
      BY <2>6
    <2> QED
      BY SMTT(30), <2>4, <2>6, <2>7, <2>8, <2>9, <2>10
  <1>3. P = Nat
    <2> HIDE DEF P
    <2>1. P \in SUBSET Nat
      BY DEF P
    <2> QED
      BY <2>1, <1>1, <1>2, Induction
  <1> QED
    BY <1>3

(* One number more behind.                                                 *)
LEMMA BehindStep ==
    ASSUME NEW d \in Seq(Int), NEW w \in Int, NEW t \in Nat, t < Len(d)
    PROVE  /\ Behind(d, w, 0) = 0 /\ Behind(d, w, t) \in Int
           /\ Behind(d, w, t + 1) = w * Behind(d, w, t) + d[t + 1]
  <1> DEFINE s == [k \in 1..t |-> Power(w, t - k) * d[k]]
             u == [k \in 1..(t + 1) |-> Power(w, t + 1 - k) * d[k]]
  <1>0. Power(w, 0) = 1 /\ \A n \in Nat : Power(w, n) \in Int /\ Power(w, n + 1) = w * Power(w, n)
    BY PowerSteps
  <1>1. ASSUME NEW k \in 1..t
        PROVE  Power(w, t - k) * d[k] \in Int /\ u[k] = w * s[k]
    <2>1. t - k \in Nat /\ t + 1 - k = (t - k) + 1 /\ k \in 1..Len(d) /\ k \in 1..(t + 1)
      OBVIOUS
    <2>2. Power(w, t - k) \in Int /\ d[k] \in Int /\ Power(w, t + 1 - k) = w * Power(w, t - k)
      <3>1. d[k] \in Int
        BY <2>1
      <3>2. Power(w, t - k) \in Int /\ Power(w, (t - k) + 1) = w * Power(w, t - k)
        BY <1>0, <2>1
      <3> QED
        BY <3>1, <3>2, <2>1
    <2> DEFINE p == Power(w, t - k)
               x == d[k]
    <2>3. u[k] = (w * p) * x /\ s[k] = p * x
      BY <2>1, <2>2
    <2>4. p \in Int /\ x \in Int
      BY <2>2
    <2>5. (w * p) * x = w * (p * x) /\ p * x \in Int
      <3> HIDE DEF p, x
      <3> QED
        BY <2>4
    <2> QED
      BY <2>3, <2>5
  <1>2. s \in [1..t -> Int]
    BY <1>1
  <1>3. u[t + 1] = d[t + 1] /\ d[t + 1] \in Int
    <2>1. t + 1 \in 1..(t + 1) /\ t + 1 - (t + 1) = 0 /\ t + 1 \in 1..Len(d)
      OBVIOUS
    <2>2. u[t + 1] = Power(w, 0) * d[t + 1] /\ d[t + 1] \in Int
      BY <2>1
    <2>3. Power(w, 0) * d[t + 1] = d[t + 1]
      <3>1. Power(w, 0) = 1
        BY <1>0
      <3>2. 1 * d[t + 1] = d[t + 1]
        BY <2>2
      <3> QED
        BY <3>1, <3>2
    <2> HIDE DEF u
    <2> QED
      BY <2>2, <2>3
  <1>4. u \in [1..(t + 1) -> Int]
    <2>1. \A k \in 1..(t + 1) : u[k] \in Int
      <3>1. ASSUME NEW k \in 1..(t + 1) PROVE u[k] \in Int
        <4>1. CASE k = t + 1
          BY <4>1, <1>3
        <4>2. CASE k # t + 1
          <5>1. k \in 1..t
            BY <4>2
          <5>2. s[k] \in Int /\ u[k] = w * s[k]
            BY <5>1, <1>1
          <5> HIDE DEF u, s
          <5> QED
            BY <5>2
        <4> QED
          BY <4>1, <4>2
      <3> QED
        BY <3>1
    <2> QED
      BY <2>1
  <1>5. Behind(d, w, t + 1) = SumOf([k \in 1..t |-> u[k]]) + u[t + 1]
    <2>1. Behind(d, w, t + 1) = SumOf([k \in 1..(t + 1) |-> u[k]])
      <3>1. [k \in 1..(t + 1) |-> u[k]] = u
        OBVIOUS
      <3> QED
        BY SMTT(30), <3>1 DEF Behind
    <2> HIDE DEF u
    <2> QED
      BY <2>1, <1>4, SumOfFirst
  <1>6. SumOf([k \in 1..t |-> u[k]]) = w * SumOf([k \in 1..t |-> s[k]])
    <2>0. \A k \in 1..t : u[k] = w * s[k]
      BY <1>1
    <2> HIDE DEF u, s
    <2>1. [k \in 1..t |-> u[k]] = [k \in 1..t |-> w * s[k]]
      BY <2>0
    <2>2. SumOf([k \in 1..t |-> w * s[k]]) = w * SumOf([k \in 1..t |-> s[k]])
      BY <1>2, SumScaled
    <2> QED
      BY <2>1, <2>2
  <1>7. SumOf([k \in 1..t |-> s[k]]) = Behind(d, w, t)
    <2>1. [k \in 1..t |-> s[k]] = s
      OBVIOUS
    <2> QED
      BY <2>1 DEF Behind
  <1>8. Behind(d, w, t) \in Int
    <2>1. s \in Seq(Int)
      BY <1>2
    <2> QED
      BY <2>1, SumType DEF Behind
  <1>9. Behind(d, w, 0) = 0
    <2>1. [k \in 1..0 |-> Power(w, 0 - k) * d[k]] = <<>>
      OBVIOUS
    <2>2. <<>> \in Seq(Int) /\ Len(<<>>) = 0
      OBVIOUS
    <2> QED
      BY <2>1, <2>2, SumSteps DEF Behind
  <1> HIDE DEF s, u
  <1> QED
    BY <1>3, <1>5, <1>6, <1>7, <1>8, <1>9

(* No numbers have no sum.                                                 *)
LEMMA NoSum == \A d, w, t : Ahead(d, w, t, 0) = 0 /\ Behind(d, w, 0) = 0
  <1>1. <<>> \in Seq(Int) /\ Len(<<>>) = 0
    OBVIOUS
  <1>2. SumOf(<<>>) = 0
    BY <1>1, SumSteps
  <1>3. \A d, w, t : /\ [l \in 1..0 |-> Power(w, l - 1) * d[t + l - 1]] = <<>>
                     /\ [k \in 1..0 |-> Power(w, 0 - k) * d[k]] = <<>>
    OBVIOUS
  <1> QED
    BY <1>2, <1>3 DEF Ahead, Behind

(* What is behind is a number.                                             *)
LEMMA BehindType ==
    ASSUME NEW d \in Seq(Int), NEW w \in Int, NEW t \in 0..Len(d)
    PROVE  Behind(d, w, t) \in Int
  <1>1. CASE t < Len(d)
    BY <1>1, BehindStep
  <1>2. CASE t = Len(d)
    <2>1. CASE t = 0
      BY <2>1, NoSum
    <2>2. CASE t # 0
      <3> DEFINE r == t - 1
      <3>1. r \in Nat /\ r < Len(d) /\ t = r + 1 /\ t \in 1..Len(d)
        BY <1>2, <2>2
      <3>2. d[t] \in Int
        BY <3>1
      <3> HIDE DEF r
      <3>3. Behind(d, w, r) \in Int /\ Behind(d, w, r + 1) = w * Behind(d, w, r) + d[r + 1]
        BY <3>1, BehindStep
      <3> QED
        BY <3>1, <3>2, <3>3
    <2> QED
      BY <2>1, <2>2
  <1> QED
    BY <1>1, <1>2

(* Behind in the reversed sequence is ahead.                               *)
LEMMA BehindReversed ==
    ASSUME NEW d \in Seq(Int), NEW e \in Seq(Int), Len(e) = Len(d),
           \A k \in 1..Len(d) : e[k] = d[Len(d) + 1 - k], NEW w \in Int, NEW m \in 0..Len(d)
    PROVE  Behind(e, w, m) = Ahead(d, w, Len(d) + 1 - m, m)
  <1> DEFINE n == Len(d)
             P == {k \in Nat : k \in 0..n => Behind(e, w, k) = Ahead(d, w, n + 1 - k, k)}
  <1>0. n \in Nat /\ m \in Nat
    OBVIOUS
  <1>1. 0 \in P
    BY NoSum
  <1>2. ASSUME NEW k \in P PROVE k + 1 \in P
    <2> SUFFICES ASSUME k + 1 \in 0..n
                 PROVE  Behind(e, w, k + 1) = Ahead(d, w, n + 1 - (k + 1), k + 1)
      OBVIOUS
    <2> DEFINE t == n - k
    <2>0. k \in Nat
      OBVIOUS
    <2>1. k < n /\ t \in Nat \ {0} /\ t + k <= n /\ k \in 0..n /\ k + 1 \in 1..n /\ t \in 1..n
          /\ n + 1 - (k + 1) = t /\ n + 1 - k = t + 1
      <3> HIDE DEF P, n
      <3> QED
        BY <1>0, <2>0
    <2>2. Behind(e, w, k) = Ahead(d, w, t + 1, k)
      BY <2>1
    <2> HIDE DEF P, n, t
    <2>3. Behind(e, w, k + 1) = w * Behind(e, w, k) + e[k + 1]
      BY <2>0, <2>1, BehindStep DEF n
    <2>4. Ahead(d, w, t, k + 1) = d[t] + w * Ahead(d, w, t + 1, k)
      BY <2>0, <2>1, AheadFirst DEF n
    <2>5. e[k + 1] = d[t] /\ d[t] \in Int
      BY <2>0, <2>1 DEF n
    <2>6. Behind(e, w, k) \in Int
      BY <2>0, <2>1, BehindStep DEF n
    <2>7. w * Behind(e, w, k) \in Int
      BY <2>6
    <2> QED
      BY <2>0, <2>1, <2>2, <2>3, <2>4, <2>5, <2>7
  <1>3. P = Nat
    <2> HIDE DEF P
    <2>1. P \in SUBSET Nat
      BY DEF P
    <2> QED
      BY <2>1, <1>1, <1>2, Induction
  <1> QED
    BY <1>0, <1>3

(* Behind a place is what is behind it in a part, and what is behind the   *)
(* part.                                                                   *)
LEMMA BehindPart ==
    ASSUME NEW d \in Seq(Int), NEW p \in Seq(Int), NEW m \in Nat, m + Len(p) <= Len(d),
           \A t \in 1..Len(p) : p[t] = d[m + t], NEW w \in Int, NEW x \in 0..Len(p)
    PROVE  Behind(d, w, m + x) = Behind(p, w, x) + Power(w, x) * Behind(d, w, m)
  <1> DEFINE P == {t \in Nat : t \in 0..Len(p) =>
                        Behind(d, w, m + t) = Behind(p, w, t) + Power(w, t) * Behind(d, w, m)}
             b == Behind(d, w, m)
  <1>0. m \in 0..Len(d) /\ x \in Nat
    OBVIOUS
  <1>1. b \in Int
    BY <1>0, BehindType
  <1>2. 0 \in P
    <2>1. Power(w, 0) = 1
      BY PowerSteps
    <2>2. 1 * b = b /\ 0 + b = b
      BY <1>1
    <2>3. Behind(p, w, 0) = 0
      BY NoSum
    <2> QED
      BY <2>1, <2>2, <2>3
  <1>3. ASSUME NEW t \in P PROVE t + 1 \in P
    <2> SUFFICES ASSUME t + 1 \in 0..Len(p)
                 PROVE  Behind(d, w, m + (t + 1)) = Behind(p, w, t + 1) + Power(w, t + 1) * b
      OBVIOUS
    <2>1. t \in Nat /\ t < Len(p) /\ t \in 0..Len(p) /\ t + 1 \in 1..Len(p) /\ m + t \in Nat /\ m + t < Len(d)
          /\ m + (t + 1) = (m + t) + 1
      BY SMTT(30)
    <2>2. Behind(d, w, m + t) = Behind(p, w, t) + Power(w, t) * b
      BY <2>1
    <2> HIDE DEF P, b
    <2>3. Behind(d, w, (m + t) + 1) = w * Behind(d, w, m + t) + d[(m + t) + 1]
      BY <2>1, BehindStep
    <2>4. Behind(p, w, t) \in Int /\ Behind(p, w, t + 1) = w * Behind(p, w, t) + p[t + 1]
      BY <2>1, BehindStep
    <2>5. p[t + 1] = d[(m + t) + 1] /\ p[t + 1] \in Int
      BY SMTT(30), <2>1
    <2>6. Power(w, t) \in Int /\ Power(w, t + 1) = w * Power(w, t)
      BY <2>1, PowerSteps
    <2> DEFINE a == Behind(p, w, t)
               q == Power(w, t)
               z == p[t + 1]
    <2>7. a \in Int /\ q \in Int /\ z \in Int
      BY <2>4, <2>5, <2>6
    <2>8. Behind(d, w, (m + t) + 1) = w * (a + q * b) + z
      BY <2>2, <2>3, <2>5
    <2>9. Behind(p, w, t + 1) + Power(w, t + 1) * b = (w * a + z) + (w * q) * b
      BY <2>4, <2>6
    <2> HIDE DEF a, q, z
    <2>10. w * (a + q * b) + z = (w * a + z) + (w * q) * b
      <3>1. w * (a + q * b) = w * a + w * (q * b) /\ w * (q * b) = (w * q) * b
        BY <2>7, <1>1
      <3>2. w * a \in Int /\ w * (q * b) \in Int
        BY <2>7, <1>1
      <3> QED
        BY <3>1, <3>2, <2>7
    <2> QED
      BY <2>1, <2>8, <2>9, <2>10
  <1>4. P = Nat
    <2> HIDE DEF P
    <2>1. P \in SUBSET Nat
      BY DEF P
    <2> QED
      BY <2>1, <1>2, <1>3, Induction
  <1> QED
    BY <1>0, <1>4

(***************************************************************************)
(* The scan.                                                               *)
(***************************************************************************)
\* What the scan has after the first m numbers.
Scanned(d, w, m) == [t \in 1..m |-> Behind(d, w, t)]

(* The sums of a chunk by itself.                                          *)
LEMMA LocalIs ==
    ASSUME NEW p \in Seq(Int), NEW w \in Int
    PROVE  Local(p, w) \in Seq(Int) /\ Local(p, w) = Scanned(p, w, Len(p))
  <1>1. \A t \in 1..Len(p) : Behind(p, w, t) \in Int
    BY BehindType
  <1>2. Local(p, w) = Scanned(p, w, Len(p))
    BY DEF Local, Scanned, Behind
  <1>3. Scanned(p, w, Len(p)) \in Seq(Int)
    BY <1>1 DEF Scanned
  <1> QED
    BY <1>2, <1>3

(* Propagation leads from numbers to numbers.                              *)
LEMMA PropagatedType ==
    ASSUME NEW s \in Seq(Int), NEW r \in Seq(Int), NEW w \in Int
    PROVE  Propagated(s, r, w) \in Seq(Int)
  <1> DEFINE x == IF s = <<>> THEN 0 ELSE s[Len(s)]
             f == [t \in DOMAIN r |-> r[t] + (IF s = <<>> THEN 0 ELSE Power(w, t) * s[Len(s)])]
  <1>1. ASSUME NEW t \in DOMAIN r PROVE r[t] + (IF s = <<>> THEN 0 ELSE Power(w, t) * s[Len(s)]) \in Int
    <2>1. t \in Nat /\ r[t] \in Int
      OBVIOUS
    <2>2. Power(w, t) \in Int
      BY <2>1, PowerSteps
    <2>3. CASE s = <<>>
      BY <2>1, <2>3
    <2>4. CASE s # <<>>
      <3>1. s[Len(s)] \in Int
        BY <2>4
      <3>2. Power(w, t) * s[Len(s)] \in Int
        BY <3>1, <2>2
      <3> QED
        BY <2>1, <2>4, <3>2
    <2> QED
      BY <2>3, <2>4
  <1>2. f \in Seq(Int)
    <2>1. f \in [1..Len(r) -> Int]
      BY <1>1
    <2> QED
      BY <2>1
  <1> HIDE DEF f
  <1>3. s \o f \in Seq(Int)
    BY <1>2
  <1> QED
    BY <1>3 DEF Propagated, f

(* Two sequences of numbers, one after the other.                          *)
LEMMA OneAfterOther ==
    ASSUME NEW s \in Seq(Int), NEW f \in Seq(Int)
    PROVE  /\ s \o f \in Seq(Int) /\ Len(s \o f) = Len(s) + Len(f)
           /\ \A t \in 1..Len(s) : (s \o f)[t] = s[t]
           /\ \A t \in 1..Len(f) : (s \o f)[Len(s) + t] = f[t]
  OBVIOUS

(* Sequences of the same numbers are the same.                             *)
LEMMA SameNumbers ==
    ASSUME NEW s \in Seq(Int), NEW z \in Seq(Int), Len(s) = Len(z), \A t \in 1..Len(s) : s[t] = z[t]
    PROVE  s = z
  OBVIOUS

(* One chunk more.                                                         *)
LEMMA ScannedChunk ==
    ASSUME NEW d \in Seq(Int), NEW w \in Int, NEW m \in Nat, NEW e \in Nat, m <= e, e <= Len(d)
    PROVE  Propagated(Scanned(d, w, m), Local(SubSeq(d, m + 1, e), w), w) = Scanned(d, w, e)
  <1> DEFINE p == SubSeq(d, m + 1, e)
             s == Scanned(d, w, m)
             r == Local(p, w)
             f == [t \in DOMAIN r |-> r[t] + (IF s = <<>> THEN 0 ELSE Power(w, t) * s[Len(s)])]
  <1>0. e - m \in Nat
    OBVIOUS
  <1>1. p \in Seq(Int) /\ Len(p) = e - m /\ \A t \in 1..Len(p) : p[t] = d[m + t]
    <2>1. p = [t \in 1..(e - m) |-> d[m + t]]
      <3>1. e - (m + 1) + 1 = e - m /\ \A t : t + (m + 1) - 1 = t + m
        OBVIOUS
      <3> QED
        BY <3>1
    <2>2. \A t \in 1..(e - m) : d[m + t] \in Int
      OBVIOUS
    <2> QED
      BY <1>0, <2>1, <2>2
  <1>2. s \in Seq(Int) /\ Len(s) = m /\ \A t \in 1..m : s[t] = Behind(d, w, t)
    <2>1. \A t \in 1..m : Behind(d, w, t) \in Int
      BY BehindType
    <2> QED
      BY <2>1 DEF Scanned
  <1> HIDE DEF p
  <1>3. r \in Seq(Int) /\ Len(r) = e - m /\ \A t \in 1..(e - m) : r[t] = Behind(p, w, t)
    <2>1. r \in Seq(Int) /\ r = Scanned(p, w, e - m)
      BY <1>1, LocalIs
    <2> QED
      BY <2>1 DEF Scanned
  <1> HIDE DEF r, s
  <1>4. ASSUME NEW t \in 1..(e - m) PROVE f[t] = Behind(d, w, m + t)
    <2>1. t \in 0..Len(p) /\ t \in DOMAIN r /\ t \in Nat
      BY <1>0, <1>1, <1>3
    <2>2. Behind(d, w, m + t) = Behind(p, w, t) + Power(w, t) * Behind(d, w, m)
      <3>1. m + Len(p) <= Len(d)
        BY <1>1
      <3> QED
        BY <1>1, <2>1, <3>1, BehindPart
    <2>3. Power(w, t) \in Int /\ Behind(p, w, t) \in Int
      BY <1>1, <2>1, PowerSteps, BehindType
    <2>4. CASE s = <<>>
      <3>1. m = 0
        BY <2>4, <1>2
      <3>2. Behind(d, w, m) = 0
        BY <3>1, NoSum
      <3>3. Power(w, t) * 0 = 0
        BY <2>3
      <3>4. f[t] = r[t] + 0
        BY <2>1, <2>4
      <3> HIDE DEF f
      <3> QED
        BY <2>2, <2>3, <3>2, <3>3, <3>4, <1>3
    <2>5. CASE s # <<>>
      <3>1. m # 0 /\ m \in 1..m /\ Len(s) = m
        BY <2>5, <1>2
      <3>2. s[Len(s)] = Behind(d, w, m)
        BY <3>1, <1>2
      <3>3. f[t] = r[t] + Power(w, t) * s[Len(s)]
        BY <2>1, <2>5
      <3> HIDE DEF f
      <3> QED
        BY <2>2, <3>2, <3>3, <1>3
    <2> QED
      BY <2>4, <2>5
  <1>5. f \in Seq(Int) /\ Len(f) = e - m
    <2>1. DOMAIN f = 1..(e - m)
      BY <1>3
    <2>2. \A t \in 1..(e - m) : Behind(d, w, m + t) \in Int
      BY BehindType
    <2>3. f \in [1..(e - m) -> Int]
      <3> HIDE DEF f
      <3>1. f = [t \in 1..(e - m) |-> f[t]]
        BY <2>1 DEF f
      <3> QED
        BY <3>1, <2>2, <1>4
    <2> HIDE DEF f
    <2> QED
      BY SMTT(30), <2>3
  <1>6. Propagated(s, r, w) = s \o f
    BY DEF Propagated
  <1> HIDE DEF f
  <1>7. s \o f = Scanned(d, w, e)
    <2> DEFINE z == Scanned(d, w, e)
    <2>1. z \in Seq(Int) /\ Len(z) = e /\ \A t \in 1..e : z[t] = Behind(d, w, t)
      <3>1. \A t \in 1..e : Behind(d, w, t) \in Int
        BY BehindType
      <3> QED
        BY <3>1 DEF Scanned
    <2> HIDE DEF z
    <2>2. s \o f \in Seq(Int) /\ Len(s \o f) = e
      <3>1. m + (e - m) = e
        OBVIOUS
      <3> QED
        BY <1>2, <1>5, <3>1, OneAfterOther
    <2>3. ASSUME NEW t \in 1..e PROVE (s \o f)[t] = z[t]
      <3>1. CASE t <= m
        BY <3>1, <1>2, <1>5, <2>1
      <3>2. CASE t > m
        <4>1. (s \o f)[t] = f[t - m] /\ t - m \in 1..(e - m) /\ m + (t - m) = t
          <5>1. t - m \in 1..(e - m) /\ m + (t - m) = t
            BY <3>2
          <5>2. t - m \in 1..Len(f) /\ Len(s) + (t - m) = t
            BY <5>1, <1>2, <1>5
          <5>3. (s \o f)[Len(s) + (t - m)] = f[t - m]
            BY <5>2, <1>2, <1>5, OneAfterOther
          <5> QED
            BY <5>1, <5>2, <5>3
        <4> QED
          BY <4>1, <1>4, <2>1
      <3>3. t <= m \/ t > m
        OBVIOUS
      <3> QED
        BY <3>1, <3>2, <3>3
    <2>4. s \o f = z
      BY <2>1, <2>2, <2>3, SameNumbers
    <2> QED
      BY <2>4 DEF z
  <1> QED
    BY <1>6, <1>7 DEF p, r, s

\* The function that scan is defined by.
Goes(it, chunks, w) ==
    it = [t \in SUBSET DOMAIN chunks |->
            IF t = {} THEN <<>> ELSE Propagated(it[t \ {Max(t)}], Local(chunks[Max(t)], w), w)]

(* There is one.                                                           *)
LEMMA GoesExists ==
    ASSUME NEW n \in Nat, NEW chunks \in [1..n -> Seq(Int)], NEW w \in Int
    PROVE  \E it : Goes(it, chunks, w)
  <1> DEFINE V == Seq(Int)
             step(i, v) == Propagated(v, Local(chunks[i], w), w)
             h == [iv \in (1..n) \X V |-> step(iv[1], iv[2])]
  <1>1. ASSUME NEW i \in 1..n, NEW v \in V PROVE step(i, v) \in V
    <2>1. chunks[i] \in Seq(Int)
      OBVIOUS
    <2>2. Local(chunks[i], w) \in Seq(Int)
      BY <2>1, LocalIs
    <2> QED
      BY <2>2, PropagatedType
  <1> HIDE DEF step
  <1>2. h \in [(1..n) \X V -> V]
    <2> HIDE DEF V
    <2> QED
      BY <1>1
  <1>3. <<>> \in V
    OBVIOUS
  <1>4. PICK it : FoldsLeft(it, n, V, <<>>, h)
    <2> HIDE DEF V, h
    <2> QED
      BY <1>2, <1>3, FoldLeftExists
  <1>5. ASSUME NEW t \in SUBSET (1..n), t # {}
        PROVE  it[t] = Propagated(it[t \ {Max(t)}], Local(chunks[Max(t)], w), w)
    <2>1. Max(t) \in 1..n
      <3> HIDE DEF V, h
      <3>1. Max(t) \in t
        BY <1>5, LargestIn
      <3> QED
        BY <3>1
    <2>2. it[t \ {Max(t)}] \in V
      BY <1>4 DEF FoldsLeft
    <2>3. it[t] = h[<<Max(t), it[t \ {Max(t)}]>>]
      BY <1>4, <1>5 DEF FoldsLeft
    <2> HIDE DEF V
    <2>4. it[t] = step(Max(t), it[t \ {Max(t)}])
      BY <2>1, <2>2, <2>3
    <2> QED
      BY <2>4 DEF step
  <1> HIDE DEF V, h
  <1>6. it = [t \in SUBSET (1..n) |-> it[t]] /\ it[{}] = <<>> /\ DOMAIN chunks = 1..n
    BY <1>4 DEF FoldsLeft
  <1> QED
    BY <1>5, <1>6 DEF Goes

(* The chunks: of which each begins where the one before ended.            *)
LEMMA ChunksAre ==
    ASSUME NEW d \in Seq(Int), NEW K \in Nat \ {0}
    PROVE  \E n \in Nat : \E upto \in [0..n -> 0..Len(d)] :
                /\ Chunks(d, K) \in [1..n -> Seq(Int)] /\ upto[0] = 0 /\ upto[n] = Len(d)
                /\ \A c \in 1..n : upto[c - 1] <= upto[c] /\ Chunks(d, K)[c] = SubSeq(d, upto[c - 1] + 1, upto[c])
  <1> DEFINE L == Len(d)
             a == L + K - 1
             n == a \div K
             upto == [c \in 0..n |-> IF c * K <= L THEN c * K ELSE L]
  <1>1. L \in Nat /\ a \in Nat /\ a = L + K - 1
    OBVIOUS
  <1> HIDE DEF L, a
  <1>2. n \in Int /\ K * n <= a /\ a < K * n + K
    BY <1>1, Division
  <1> HIDE DEF n
  <1>3. n \in Nat
    <2>1. ASSUME n < 0 PROVE FALSE
      <3>1. n + 1 <= 0 /\ K * n + K = K * (n + 1)
        BY <1>2, <2>1
      <3>2. K * (n + 1) <= 0
        BY <3>1, <1>2
      <3> QED
        BY <3>1, <3>2, <1>1, <1>2
    <2> QED
      BY <2>1, <1>2
  <1>4. K * n = n * K /\ (n - 1) * K = n * K - K /\ n * K \in Int /\ n - 1 \in Int
    BY <1>3
  <1>5. L <= n * K /\ (n - 1) * K < L
    BY <1>1, <1>2, <1>3, <1>4
  <1>6. ASSUME NEW c \in 0..n
        PROVE  c * K \in Nat /\ upto[c] \in 0..L
    <2>1. c * K \in Nat
      BY <1>3
    <2> QED
      BY <2>1, <1>1
  <1>7. upto \in [0..n -> 0..L]
    BY <1>6
  <1>8. upto[0] = 0 /\ upto[n] = L
    <2>1. 0 \in 0..n /\ n \in 0..n /\ 0 * K = 0
      BY <1>3
    <2> QED
      BY <2>1, <1>1, <1>4, <1>5
  <1>9. ASSUME NEW c \in 1..n
        PROVE  /\ upto[c - 1] <= upto[c]
               /\ Chunk(d, K, c) = SubSeq(d, upto[c - 1] + 1, upto[c])
    <2>1. c - 1 \in 0..n /\ c \in 0..n /\ c - 1 \in Int /\ c - 1 <= n - 1 /\ c \in Int
      BY <1>3
    <2>2. (c - 1) * K \in Nat /\ c * K \in Nat /\ c * K = (c - 1) * K + K
      BY <2>1, <1>6
    <2>3. (c - 1) * K <= (n - 1) * K
      BY <2>1, <1>4, ProductGrows
    <2>4. upto[c - 1] = (c - 1) * K
      BY <2>1, <2>2, <2>3, <1>1, <1>4, <1>5
    <2>5. upto[c] = Min({c * K, L})
      BY <2>1, <2>2, <1>1, MinOfTwo
    <2>6. upto[c] = IF c * K <= L THEN c * K ELSE L
      BY <2>1
    <2> HIDE DEF upto
    <2>7. upto[c - 1] <= upto[c]
      BY <2>2, <2>3, <2>4, <2>6, <1>1, <1>4, <1>5
    <2> QED
      BY <2>4, <2>5, <2>7 DEF Chunk, L
  <1> HIDE DEF upto
  <1>10. Chunks(d, K) = [c \in 1..n |-> Chunk(d, K, c)]
    BY DEF Chunks, n, a, L
  <1>11. ASSUME NEW c \in 1..n PROVE Chunk(d, K, c) \in Seq(Int)
    <2>1. c - 1 \in 0..n /\ c \in 0..n
      BY <1>3
    <2>2. upto[c - 1] \in 0..L /\ upto[c] \in 0..L
      BY <2>1, <1>7
    <2> DEFINE x == upto[c - 1]
               y == upto[c]
    <2>3. x \in 0..L /\ y \in 0..L
      BY <2>2
    <2> HIDE DEF x, y
    <2>4. SubSeq(d, x + 1, y) \in Seq(Int)
      BY <2>3, <1>1 DEF L
    <2> QED
      BY <2>4, <1>9 DEF x, y
  <1>12. Chunks(d, K) \in [1..n -> Seq(Int)]
    BY <1>10, <1>11
  <1>13. \A c \in 1..n : Chunks(d, K)[c] = SubSeq(d, upto[c - 1] + 1, upto[c])
    BY <1>9, <1>10
  <1> QED
    BY <1>3, <1>7, <1>8, <1>9, <1>12, <1>13 DEF L

(* However a sequence is cut into chunks, the scan has at each place the   *)
(* discounted sum of all before it.                                        *)
LEMMA ScanIs ==
    ASSUME NEW d \in Seq(Int), NEW w \in Int, NEW K \in Nat \ {0}
    PROVE  scan(d, w, K) = Scanned(d, w, Len(d))
  <1> DEFINE chunks == Chunks(d, K)
             jt == CHOOSE it : Goes(it, chunks, w)
  <1>0. PICK n \in Nat : \E upto \in [0..n -> 0..Len(d)] :
                /\ chunks \in [1..n -> Seq(Int)] /\ upto[0] = 0 /\ upto[n] = Len(d)
                /\ \A c \in 1..n : upto[c - 1] <= upto[c] /\ chunks[c] = SubSeq(d, upto[c - 1] + 1, upto[c])
    BY ChunksAre
  <1>1. PICK upto \in [0..n -> 0..Len(d)] :
                /\ chunks \in [1..n -> Seq(Int)] /\ upto[0] = 0 /\ upto[n] = Len(d)
                /\ \A c \in 1..n : upto[c - 1] <= upto[c] /\ chunks[c] = SubSeq(d, upto[c - 1] + 1, upto[c])
    BY <1>0
  <1> HIDE DEF chunks
  <1>2. Goes(jt, chunks, w)
    BY <1>1, GoesExists
  <1>3. scan(d, w, K) = jt[DOMAIN chunks]
    BY DEF scan, FoldLeft, MapThenFoldSet, Goes, chunks
  <1> HIDE DEF jt
  <1>4. DOMAIN chunks = 1..n
    BY <1>1
  <1>5. jt[1..0] = <<>>
    <2>1. 1..0 = {} /\ 1..0 \in SUBSET DOMAIN chunks
      BY <1>4
    <2> QED
      BY <1>2, <2>1 DEF Goes
  <1>6. ASSUME NEW i \in 1..n PROVE jt[1..i] = Propagated(jt[1..(i - 1)], Local(chunks[i], w), w)
    <2> DEFINE k == i - 1
    <2>1. k \in Nat /\ i = k + 1
      OBVIOUS
    <2>2. Max(1..i) = i /\ (1..i) \ {i} = 1..k /\ 1..i # {}
      <3> HIDE DEF k
      <3> QED
        BY <2>1, LastNumber
    <2>3. 1..i \in SUBSET DOMAIN chunks
      BY <1>4
    <2> QED
      BY <1>2, <2>2, <2>3 DEF Goes
  <1> DEFINE P == {i \in Nat : i \in 0..n => jt[1..i] = Scanned(d, w, upto[i])}
  <1>7. 0 \in P
    <2>1. Scanned(d, w, 0) = <<>>
      BY DEF Scanned
    <2> QED
      BY <2>1, <1>1, <1>5
  <1>8. ASSUME NEW i \in P PROVE i + 1 \in P
    <2> SUFFICES ASSUME i + 1 \in 0..n PROVE jt[1..(i + 1)] = Scanned(d, w, upto[i + 1])
      OBVIOUS
    <2>1. i \in 0..n /\ i + 1 \in 1..n /\ (i + 1) - 1 = i
      BY <1>1
    <2>2. jt[1..i] = Scanned(d, w, upto[i])
      BY <2>1
    <2> HIDE DEF P
    <2>3. jt[1..(i + 1)] = Propagated(jt[1..i], Local(chunks[i + 1], w), w)
      BY <2>1, <1>6
    <2>4. upto[i] \in Nat /\ upto[i + 1] \in Nat /\ upto[i] <= upto[i + 1] /\ upto[i + 1] <= Len(d)
          /\ chunks[i + 1] = SubSeq(d, upto[i] + 1, upto[i + 1])
      <3>1. upto[i] \in 0..Len(d) /\ upto[i + 1] \in 0..Len(d)
        <4>1. i + 1 \in 0..n
          BY <2>1
        <4> QED
          BY <4>1, <2>1, <1>1
      <3>2. upto[(i + 1) - 1] <= upto[i + 1] /\ chunks[i + 1] = SubSeq(d, upto[(i + 1) - 1] + 1, upto[i + 1])
        BY <2>1, <1>1
      <3>3. upto[i] \in Nat /\ upto[i + 1] \in Nat /\ upto[i + 1] <= Len(d)
        <4> HIDE <1>1
        <4> QED
          BY <3>1
      <3> QED
        BY <2>1, <3>2, <3>3
    <2>5. Propagated(Scanned(d, w, upto[i]), Local(SubSeq(d, upto[i] + 1, upto[i + 1]), w), w)
            = Scanned(d, w, upto[i + 1])
      BY <2>4, ScannedChunk
    <2> QED
      BY <2>2, <2>3, <2>4, <2>5
  <1>9. P = Nat
    <2> HIDE DEF P
    <2>1. P \in SUBSET Nat
      BY DEF P
    <2> QED
      BY <2>1, <1>7, <1>8, Induction
  <1>10. n \in 0..n
    BY <1>1
  <1> QED
    BY <1>1, <1>3, <1>4, <1>9, <1>10

(* The differences are numbers, one a step.                                *)
LEMMA DeltasType ==
    ASSUME NEW r \in Seq(Int), NEW v \in Seq(Int), Len(v) = Len(r), NEW g \in Int
    PROVE  /\ deltas(r, v, g) \in Seq(Int) /\ Len(deltas(r, v, g)) = Len(r)
           /\ \A t \in 1..Len(r) : deltas(r, v, g)[t] = r[t] - v[t] + (IF t < Len(v) THEN g * v[t + 1] ELSE 0)
  <1> DEFINE x(t) == r[t] - v[t] + (IF t < Len(v) THEN g * v[t + 1] ELSE 0)
  <1>1. ASSUME NEW t \in 1..Len(r) PROVE x(t) \in Int
    <2>1. CASE t < Len(v)
      <3>1. t + 1 \in 1..Len(v)
        BY <2>1
      <3>2. g * v[t + 1] \in Int
        BY <3>1
      <3>3. r[t] \in Int /\ v[t] \in Int
        OBVIOUS
      <3>4. x(t) = r[t] - v[t] + g * v[t + 1]
        BY <2>1
      <3>5. \A a, b, c \in Int : a - b + c \in Int
        OBVIOUS
      <3> HIDE DEF x
      <3>6. r[t] - v[t] + g * v[t + 1] \in Int
        BY <3>2, <3>3, <3>5
      <3> QED
        BY <3>4, <3>6
    <2>2. CASE ~(t < Len(v))
      BY <2>2
    <2> QED
      BY <2>1, <2>2
  <1> HIDE DEF x
  <1>2. deltas(r, v, g) = [t \in 1..Len(r) |-> x(t)]
    BY DEF deltas, x
  <1>3. deltas(r, v, g) \in [1..Len(r) -> Int]
    BY <1>1, <1>2
  <1>4. \A t \in 1..Len(r) : deltas(r, v, g)[t] = x(t)
    BY <1>2
  <1>5. deltas(r, v, g) \in Seq(Int) /\ Len(deltas(r, v, g)) = Len(r)
    <2>1. Len(r) \in Nat
      OBVIOUS
    <2> QED
      BY <1>3, <2>1, FirstNumbers
  <1> QED
    BY <1>4, <1>5 DEF x

\* The definition of the advantages by what is ahead.
LEMMA GaeIs ==
    ASSUME NEW r \in Seq(Int), NEW v \in Seq(Int), Len(v) = Len(r), NEW g \in Int, NEW l \in Int
    PROVE  gae(r, v, g, l) = [t \in 1..Len(r) |-> Ahead(deltas(r, v, g), g * l, t, Len(r) + 1 - t)]
  <1> DEFINE d == deltas(r, v, g)
  <1>1. d \in Seq(Int) /\ Len(d) = Len(r)
    BY DeltasType
  <1>2. DOMAIN d = 1..Len(r) /\ \A t \in 1..Len(r) : Len(r) - t + 1 = Len(r) + 1 - t
    BY <1>1
  <1>3. gae(r, v, g, l) = [t \in DOMAIN d |-> SumOf([k \in 1..(Len(d) - t + 1) |-> Power(g * l, k - 1) * d[t + k - 1]])]
    BY DEF gae
  <1> HIDE DEF d
  <1> QED
    BY <1>1, <1>2, <1>3 DEF d, Ahead

(* The advantages of a row do not depend on how the scan is cut.           *)
THEOREM ChunksDoNotMatter ==
    ASSUME NEW r \in Seq(Int), NEW v \in Seq(Int), Len(v) = Len(r), NEW g \in Int, NEW l \in Int,
           NEW K \in Nat \ {0}
    PROVE  chunked_gae(r, v, g, l, K) = gae(r, v, g, l)
  <1> DEFINE d == deltas(r, v, g)
             w == g * l
             e == Reverse(d)
             n == Len(r)
  <1>1. d \in Seq(Int) /\ Len(d) = n /\ n \in Nat /\ w \in Int
    BY DeltasType
  <1>2. gae(r, v, g, l) = [t \in 1..n |-> Ahead(d, w, t, n + 1 - t)]
    BY GaeIs
  <1> HIDE DEF d, w
  <1>3. e \in Seq(Int) /\ Len(e) = n /\ \A k \in 1..n : e[k] = d[n + 1 - k]
    <2>1. e = [k \in 1..n |-> d[n - k + 1]]
      BY <1>1 DEF Reverse
    <2>2. \A k \in 1..n : n - k + 1 \in 1..n /\ n - k + 1 = n + 1 - k
      BY <1>1
    <2> HIDE DEF e, n
    <2>3. e \in [1..n -> Int]
      BY <1>1, <2>1, <2>2
    <2>4. \A k \in 1..n : e[k] = d[n + 1 - k]
      BY <2>1, <2>2
    <2> QED
      BY <1>1, <2>3, <2>4
  <1>4. chunked_gae(r, v, g, l, K) = Reverse(scan(e, w, K))
    BY DEF chunked_gae, d, w
  <1> HIDE DEF e, n
  <1>5. scan(e, w, K) = Scanned(e, w, n)
    BY <1>1, <1>3, ScanIs
  <1>6. Scanned(e, w, n) = [t \in 1..n |-> Ahead(d, w, n + 1 - t, t)]
    <2>1. \A t \in 1..n : Behind(e, w, t) = Ahead(d, w, n + 1 - t, t)
      <3>1. ASSUME NEW t \in 1..n PROVE Behind(e, w, t) = Ahead(d, w, n + 1 - t, t)
        <4>1. t \in 0..Len(d) /\ Len(d) = n
          BY <1>1
        <4>2. \A k \in 1..Len(d) : e[k] = d[Len(d) + 1 - k]
          BY <1>1, <1>3
        <4>3. Behind(e, w, t) = Ahead(d, w, Len(d) + 1 - t, t)
          BY <4>1, <4>2, <1>1, <1>3, BehindReversed
        <4> QED
          BY <4>1, <4>3
      <3> QED
        BY <3>1
    <2> QED
      BY <2>1 DEF Scanned
  <1> DEFINE s == [t \in 1..n |-> Ahead(d, w, n + 1 - t, t)]
  <1>7. Len(s) = n /\ Reverse(s) = [t \in 1..n |-> s[n - t + 1]]
    <2>1. Len(s) = n
      BY <1>1
    <2> HIDE DEF s
    <2> QED
      BY <2>1 DEF Reverse
  <1>8. ASSUME NEW t \in 1..n PROVE s[n - t + 1] = Ahead(d, w, t, n + 1 - t)
    <2>1. n - t + 1 \in 1..n /\ n + 1 - (n - t + 1) = t /\ n - t + 1 = n + 1 - t
      BY <1>1
    <2> QED
      BY <2>1
  <1>9. Reverse(s) = [t \in 1..n |-> Ahead(d, w, t, n + 1 - t)]
    <2> HIDE DEF s
    <2> QED
      BY <1>7, <1>8
  <1> QED
    BY <1>2, <1>4, <1>5, <1>6, <1>9

(* Nor do they depend on what is behind the row.                           *)
LEMMA AheadSame ==
    ASSUME NEW d \in Seq(Int), NEW e \in Seq(Int), Len(d) <= Len(e), NEW w \in Int,
           \A k \in 1..Len(d) : e[k] = d[k], \A k \in 1..Len(e) : k > Len(d) => e[k] = 0,
           NEW t \in 1..Len(d)
    PROVE  Ahead(e, w, t, Len(e) + 1 - t) = Ahead(d, w, t, Len(d) + 1 - t)
  <1> DEFINE n == Len(d) + 1 - t
             P == {m \in Nat : n + m <= Len(e) + 1 - t => Ahead(e, w, t, n + m) = Ahead(d, w, t, n)}
  <1>0. n \in Nat /\ n + (Len(e) - Len(d)) = Len(e) + 1 - t /\ Len(e) - Len(d) \in Nat /\ t \in Nat \ {0}
        /\ t + n = Len(d) + 1
    OBVIOUS
  <1>1. 0 \in P
    <2>1. \A l \in 1..n : e[t + l - 1] = d[t + l - 1]
      OBVIOUS
    <2>2. [l \in 1..n |-> Power(w, l - 1) * e[t + l - 1]] = [l \in 1..n |-> Power(w, l - 1) * d[t + l - 1]]
      BY <2>1
    <2>3. n + 0 = n
      BY <1>0
    <2>4. Ahead(e, w, t, n) = Ahead(d, w, t, n)
      BY <2>2 DEF Ahead
    <2> HIDE DEF n
    <2> QED
      BY <2>3, <2>4
  <1>2. ASSUME NEW m \in P PROVE m + 1 \in P
    <2> SUFFICES ASSUME n + (m + 1) <= Len(e) + 1 - t
                 PROVE  Ahead(e, w, t, n + (m + 1)) = Ahead(d, w, t, n)
      BY DEF P
    <2>1. Ahead(e, w, t, n + m) = Ahead(d, w, t, n)
      OBVIOUS
    <2> DEFINE j == n + m
    <2>2. j \in Nat /\ t + j <= Len(e) /\ n + (m + 1) = j + 1 /\ t + j \in 1..Len(e) /\ t + j > Len(d)
      BY SMTT(30)
    <2>3. e[t + j] = 0
      BY <2>2
    <2> HIDE DEF P, n, j
    <2>4. Ahead(e, w, t, j) \in Int /\ Ahead(e, w, t, j + 1) = Ahead(e, w, t, j) + Power(w, j) * e[t + j]
      BY <1>0, <2>2, AheadStep
    <2>5. Power(w, j) * e[t + j] = 0
      <3>1. Power(w, j) \in Int
        BY <2>2, PowerSteps
      <3> QED
        BY <3>1, <2>3
    <2> QED
      BY <2>1, <2>2, <2>4, <2>5 DEF j
  <1>3. P = Nat
    <2> HIDE DEF P
    <2>1. P \in SUBSET Nat
      BY DEF P
    <2> QED
      BY <2>1, <1>1, <1>2, Induction
  <1>4. Len(e) - Len(d) \in P
    BY <1>0, <1>3
  <1>5. n + (Len(e) - Len(d)) <= Len(e) + 1 - t
    BY <1>0
  <1>6. Ahead(e, w, t, n + (Len(e) - Len(d))) = Ahead(d, w, t, n)
    BY <1>4, <1>5
  <1> QED
    BY <1>0, <1>6

\* A row with zeros behind it.
Lengthened(s, longest) == s \o [i \in 1..(longest - Len(s)) |-> 0]

(* What such a row holds.                                                  *)
LEMMA FilledHolds ==
    ASSUME NEW s \in Seq(Int), NEW longest \in Nat, Len(s) <= longest
    PROVE  /\ Lengthened(s, longest) \in Seq(Int) /\ Len(Lengthened(s, longest)) = longest
           /\ \A k \in 1..Len(s) : Lengthened(s, longest)[k] = s[k]
           /\ \A k \in 1..longest : k > Len(s) => Lengthened(s, longest)[k] = 0
  <1> DEFINE z == [i \in 1..(longest - Len(s)) |-> 0]
  <1>0. longest - Len(s) \in Nat /\ Len(s) + (longest - Len(s)) = longest
    OBVIOUS
  <1>1. z \in Seq(Int) /\ Len(z) = longest - Len(s) /\ \A k \in 1..(longest - Len(s)) : z[k] = 0
    OBVIOUS
  <1>2. Lengthened(s, longest) = s \o z
    BY DEF Lengthened
  <1> HIDE DEF z
  <1>3. ASSUME NEW k \in 1..longest, k > Len(s) PROVE (s \o z)[k] = 0
    <2>1. k - Len(s) \in 1..(longest - Len(s)) /\ Len(s) + (k - Len(s)) = k
      BY <1>3
    <2>2. (s \o z)[Len(s) + (k - Len(s))] = z[k - Len(s)]
      BY <2>1, <1>1, OneAfterOther
    <2> QED
      BY <1>1, <2>1, <2>2
  <1> QED
    BY <1>0, <1>1, <1>2, <1>3, OneAfterOther

(* The differences of a row that is filled up are those of the row.        *)
LEMMA DeltasFilled ==
    ASSUME NEW r \in Seq(Int), NEW v \in Seq(Int), Len(v) = Len(r), NEW g \in Int,
           NEW longest \in Nat, Len(r) <= longest
    PROVE  /\ \A k \in 1..Len(r) : deltas(Lengthened(r, longest), Lengthened(v, longest), g)[k] = deltas(r, v, g)[k]
           /\ \A k \in 1..longest : k > Len(r) => deltas(Lengthened(r, longest), Lengthened(v, longest), g)[k] = 0
  <1> DEFINE R == Lengthened(r, longest)
             V == Lengthened(v, longest)
             e == deltas(R, V, g)
             d == deltas(r, v, g)
  <1>1. /\ R \in Seq(Int) /\ Len(R) = longest /\ \A k \in 1..Len(r) : R[k] = r[k]
        /\ \A k \in 1..longest : k > Len(r) => R[k] = 0
    BY FilledHolds
  <1>2. /\ V \in Seq(Int) /\ Len(V) = longest /\ \A k \in 1..Len(r) : V[k] = v[k]
        /\ \A k \in 1..longest : k > Len(r) => V[k] = 0
    BY FilledHolds
  <1> HIDE DEF R, V
  <1>3. \A t \in 1..longest : e[t] = R[t] - V[t] + (IF t < longest THEN g * V[t + 1] ELSE 0)
    <2>1. \A t \in 1..Len(R) : e[t] = R[t] - V[t] + (IF t < Len(V) THEN g * V[t + 1] ELSE 0)
      <3>1. Len(V) = Len(R)
        BY <1>1, <1>2
      <3> QED
        BY <3>1, <1>1, <1>2, DeltasType
    <2> HIDE DEF e
    <2> QED
      BY <2>1, <1>1, <1>2
  <1>4. \A t \in 1..Len(r) : d[t] = r[t] - v[t] + (IF t < Len(r) THEN g * v[t + 1] ELSE 0)
    BY DeltasType
  <1>5. g * 0 = 0
    OBVIOUS
  <1> HIDE DEF d, e
  <1>6. ASSUME NEW k \in 1..Len(r) PROVE e[k] = d[k]
    <2>1. k \in 1..longest /\ R[k] = r[k] /\ V[k] = v[k]
      BY <1>1, <1>2
    <2>2. (IF k < longest THEN g * V[k + 1] ELSE 0) = (IF k < Len(r) THEN g * v[k + 1] ELSE 0)
      <3>1. CASE k < Len(r)
        <4>1. k + 1 \in 1..Len(r) /\ k < longest
          BY <3>1
        <4> QED
          BY <3>1, <4>1, <1>2
      <3>2. CASE ~(k < Len(r)) /\ k < longest
        <4>1. k + 1 \in 1..longest /\ k + 1 > Len(r)
          BY <3>2
        <4>2. V[k + 1] = 0
          BY <4>1, <1>2
        <4> QED
          BY <3>2, <4>2, <1>5
      <3>3. CASE ~(k < Len(r)) /\ ~(k < longest)
        BY <3>3
      <3> QED
        BY <3>1, <3>2, <3>3
    <2> QED
      BY <2>1, <2>2, <1>3, <1>4
  <1>7. ASSUME NEW k \in 1..longest, k > Len(r) PROVE e[k] = 0
    <2>1. R[k] = 0 /\ V[k] = 0
      BY <1>7, <1>1, <1>2
    <2>2. (IF k < longest THEN g * V[k + 1] ELSE 0) = 0
      <3>1. CASE k < longest
        <4>1. k + 1 \in 1..longest /\ k + 1 > Len(r)
          BY <3>1, <1>7
        <4>2. V[k + 1] = 0
          BY <4>1, <1>2
        <4> QED
          BY <3>1, <4>2, <1>5
      <3>2. CASE ~(k < longest)
        BY <3>2
      <3> QED
        BY <3>1, <3>2
    <2>3. e[k] = 0 - 0 + 0
      BY <2>1, <2>2, <1>3
    <2> QED
      BY <2>3
  <1> QED
    BY <1>6, <1>7 DEF d, e, R, V

(* The advantages of a row in a batch are those of the row by itself.      *)
LEMMA RowIs ==
    ASSUME NEW r \in Seq(Int), NEW v \in Seq(Int), Len(v) = Len(r), NEW g \in Int, NEW l \in Int,
           NEW K \in Nat \ {0}, NEW longest \in Nat, Len(r) <= longest
    PROVE  SubSeq(chunked_gae(Lengthened(r, longest), Lengthened(v, longest), g, l, K), 1, Len(r)) = gae(r, v, g, l)
  <1> DEFINE R == Lengthened(r, longest)
             V == Lengthened(v, longest)
             e == deltas(R, V, g)
             d == deltas(r, v, g)
             w == g * l
             n == Len(r)
  <1>1. R \in Seq(Int) /\ Len(R) = longest /\ V \in Seq(Int) /\ Len(V) = longest
    BY FilledHolds
  <1>2. d \in Seq(Int) /\ Len(d) = n /\ w \in Int
    BY DeltasType
  <1>3. /\ \A k \in 1..n : e[k] = d[k]
        /\ \A k \in 1..longest : k > n => e[k] = 0
    BY DeltasFilled
  <1> HIDE DEF R, V
  <1>4. e \in Seq(Int) /\ Len(e) = longest
    BY <1>1, DeltasType
  <1>5. chunked_gae(R, V, g, l, K) = [t \in 1..longest |-> Ahead(e, w, t, longest + 1 - t)]
    <2>1. Len(V) = Len(R)
      BY <1>1
    <2>2. chunked_gae(R, V, g, l, K) = gae(R, V, g, l)
      BY <1>1, <2>1, ChunksDoNotMatter
    <2>3. gae(R, V, g, l) = [t \in 1..Len(R) |-> Ahead(e, w, t, Len(R) + 1 - t)]
      BY SMTT(30), <1>1, <2>1, GaeIs
    <2> HIDE DEF e, w
    <2> QED
      BY <1>1, <2>2, <2>3
  <1>6. gae(r, v, g, l) = [t \in 1..n |-> Ahead(d, w, t, n + 1 - t)]
    BY GaeIs
  <1> HIDE DEF d, e, w
  <1>7. ASSUME NEW t \in 1..n PROVE Ahead(e, w, t, longest + 1 - t) = Ahead(d, w, t, n + 1 - t)
    <2>1. \A k \in 1..Len(d) : e[k] = d[k]
      BY <1>2, <1>3
    <2>2. \A k \in 1..Len(e) : k > Len(d) => e[k] = 0
      BY <1>2, <1>3, <1>4
    <2>3. Len(d) <= Len(e) /\ t \in 1..Len(d)
      BY <1>2, <1>4
    <2>4. Ahead(e, w, t, Len(e) + 1 - t) = Ahead(d, w, t, Len(d) + 1 - t)
      BY <1>2, <1>4, <2>1, <2>2, <2>3, AheadSame
    <2> QED
      BY <2>4, <1>2, <1>4
  <1>8. SubSeq(chunked_gae(R, V, g, l, K), 1, n) = [t \in 1..n |-> Ahead(e, w, t, longest + 1 - t)]
    <2> DEFINE f == [t \in 1..longest |-> Ahead(e, w, t, longest + 1 - t)]
    <2>1. ASSUME NEW t \in 1..longest PROVE Ahead(e, w, t, longest + 1 - t) \in Int
      <3>1. t \in Nat \ {0} /\ longest + 1 - t \in Nat /\ t + (longest + 1 - t) <= Len(e) + 1
        BY <1>4
      <3> QED
        BY <3>1, <1>2, <1>4, AheadType
    <2>2. f \in Seq(Int) /\ Len(f) = longest
      BY <2>1
    <2>3. n \in Nat /\ n <= longest
      OBVIOUS
    <2>4. \A t \in 1..n : f[t] = Ahead(e, w, t, longest + 1 - t)
      BY <2>3
    <2> HIDE DEF f, n
    <2>5. SubSeq(f, 1, n) = [t \in 1..n |-> f[t]]
      BY <2>2, <2>3
    <2> QED
      BY <2>4, <2>5, <1>5 DEF f
  <1>9. SubSeq(chunked_gae(R, V, g, l, K), 1, n) = [t \in 1..n |-> Ahead(d, w, t, n + 1 - t)]
    BY <1>7, <1>8
  <1> QED
    BY <1>6, <1>9 DEF R, V

(* The advantages of a batch are, row by row, the discounted sums of the   *)
(* row's own differences, whatever the other rows, the padding to the      *)
(* longest and the chunks of the scan.                                     *)
THEOREM AdvantagesByDefinition ==
    ASSUME NEW n \in Nat, NEW rewards \in [1..n -> Seq(Int)], NEW values \in [1..n -> Seq(Int)],
           \A i \in 1..n : Len(values[i]) = Len(rewards[i]),
           NEW gamma \in Int, NEW lambdas \in [1..n -> Int], NEW decoupled \in BOOLEAN, NEW K \in Nat \ {0}
    PROVE  get_advantages_and_returns_batch(rewards, values, gamma, lambdas, decoupled, K).advantages
                = [i \in 1..n |-> gae(rewards[i], values[i], gamma, lambdas[i])]
  <1> DEFINE longest == Max({Len(rewards[i]) : i \in DOMAIN rewards})
  <1>1. DOMAIN rewards = 1..n
    OBVIOUS
  <1>2. ASSUME NEW i \in 1..n PROVE longest \in Nat /\ Len(rewards[i]) <= longest
    <2> DEFINE T == {Len(rewards[j]) : j \in 1..n}
    <2>1. T \in SUBSET Nat /\ Len(rewards[i]) \in T
      <3>1. \A j \in 1..n : rewards[j] \in Seq(Int)
        OBVIOUS
      <3>2. \A j \in 1..n : Len(rewards[j]) \in Nat
        BY <3>1
      <3> QED
        BY <3>2
    <2>2. IsFiniteSet(T)
      <3> DEFINE f == [j \in 1..n |-> Len(rewards[j])]
      <3>1. IsFiniteSet(1..n)
        BY FS_Interval
      <3>2. f \in Surjection(1..n, T)
        BY DEF Surjection
      <3> HIDE DEF f, T
      <3> QED
        BY <3>1, <3>2, FS_Surjection
    <2>3. \E b \in Nat : \A x \in T : x <= b
      <3> DEFINE Q == {U \in SUBSET T : \E b \in Nat : \A x \in U : x <= b}
      <3> HIDE DEF T
      <3>1. {} \in Q
        <4>1. 0 \in Nat
          OBVIOUS
        <4> QED
          BY <4>1
      <3>2. ASSUME NEW U \in Q, NEW x \in T, x \notin U PROVE U \cup {x} \in Q
        <4>1. PICK b \in Nat : \A y \in U : y <= b
          OBVIOUS
        <4>2. x \in Nat /\ U \in SUBSET Nat
          BY <2>1
        <4>3. \A y \in U \cup {x} : y <= b + x
          BY <4>1, <4>2
        <4>4. b + x \in Nat
          BY <4>1, <4>2
        <4> QED
          BY <4>3, <4>4
      <3>3. Q = SUBSET T
        <4> HIDE DEF Q
        <4>1. Q \in SUBSET (SUBSET T)
          BY DEF Q
        <4> QED
          BY <4>1, <3>1, <3>2, <2>2, SubsetInduction
      <3> QED
        BY <3>3
    <2>4. longest = Max(T)
      BY <1>1
    <2> HIDE DEF T, longest
    <2>5. PICK b \in Nat : \A x \in T : x <= b
      BY <2>3
    <2>6. T # {}
      BY <2>1
    <2>7. \E x \in T : \A y \in T : y <= x
      BY <2>1, <2>5, <2>6, GreatestNumber
    <2>8. Max(T) \in T /\ \A y \in T : y <= Max(T)
      <3>1. \E x \in T : \A y \in T : x >= y
        BY <2>7, <2>1
      <3>2. Max(T) \in T /\ \A y \in T : Max(T) >= y
        BY <3>1 DEF Max
      <3> QED
        BY <3>2, <2>1
    <2> QED
      BY <2>1, <2>4, <2>8
  <1>3. get_advantages_and_returns_batch(rewards, values, gamma, lambdas, decoupled, K).advantages
            = [i \in DOMAIN rewards |->
                SubSeq(chunked_gae(Lengthened(rewards[i], longest), Lengthened(values[i], longest), gamma, lambdas[i], K),
                       1, Len(rewards[i]))]
    BY DEF get_advantages_and_returns_batch, Lengthened
  <1> HIDE DEF longest
  <1>4. ASSUME NEW i \in 1..n
        PROVE  SubSeq(chunked_gae(Lengthened(rewards[i], longest), Lengthened(values[i], longest), gamma, lambdas[i], K),
                      1, Len(rewards[i])) = gae(rewards[i], values[i], gamma, lambdas[i])
    <2>1. /\ rewards[i] \in Seq(Int) /\ values[i] \in Seq(Int) /\ lambdas[i] \in Int
          /\ Len(values[i]) = Len(rewards[i]) /\ longest \in Nat /\ Len(rewards[i]) <= longest
      BY <1>2
    <2> QED
      BY SMTT(30), <2>1, RowIs
  <1> QED
    BY <1>1, <1>3, <1>4

(* With reinforce_plus_plus the reward is discounted from the last token   *)
(* that counts; behind it there is nothing.                                *)
THEOREM RewardDiscountedFromLast ==
    ASSUME NEW mask \in Seq({0, 1}), \E t \in 1..Len(mask) : mask[t] = 1, NEW reward \in Int, NEW gamma \in Int
    PROVE  LET last == Max({t \in DOMAIN mask : mask[t] = 1})
           IN  /\ last \in 1..Len(mask) /\ mask[last] = 1 /\ \A t \in 1..Len(mask) : mask[t] = 1 => t <= last
               /\ get_reinforce_plus_plus_returns(reward, mask, gamma)
                    = [t \in 1..Len(mask) |-> IF t <= last THEN Power(gamma, last - t) * reward ELSE 0]
  <1> DEFINE n == Len(mask)
             T == {t \in DOMAIN mask : mask[t] = 1}
             last == Max(T)
             r == terminal(reward, mask)
             next(g, t) == r[t] + (IF t = n THEN 0 ELSE gamma * g[t + 1])
             E(g) == g = [t \in 1..n |-> next(g, t)]
             f == CHOOSE g : E(g)
             z == [t \in 1..n |-> IF t <= last THEN Power(gamma, last - t) * reward ELSE 0]
  <1>1. n \in Nat /\ DOMAIN mask = 1..n
    OBVIOUS
  <1>2. last \in 1..n /\ mask[last] = 1 /\ \A t \in 1..n : mask[t] = 1 => t <= last
    <2>1. T \in SUBSET Nat /\ T # {} /\ T \in SUBSET (1..n)
      BY <1>1
    <2>2. \A t \in T : t <= n
      BY <2>1
    <2>3. \E x \in T : \A y \in T : y <= x
      <3> HIDE DEF T, n
      <3> QED
        BY <1>1, <2>1, <2>2, GreatestNumber
    <2>4. \E x \in T : \A y \in T : x >= y
      BY <2>1, <2>3
    <2>5. last \in T /\ \A y \in T : last >= y
      <3> HIDE DEF T
      <3> QED
        BY <2>4 DEF Max
    <2> HIDE DEF last
    <2> QED
      BY <2>1, <2>5, <1>1
  <1>3. r = [t \in 1..n |-> IF t = last THEN reward ELSE 0]
    BY <1>1 DEF terminal
  <1> HIDE DEF last, T, r, n
  <1>4. ASSUME NEW t \in 1..n
        PROVE  z[t] \in Int /\ z[t] = r[t] + (IF t = n THEN 0 ELSE gamma * z[t + 1])
    <2>0. t \in Nat /\ last \in Nat /\ r[t] = (IF t = last THEN reward ELSE 0) /\ (t # n => t + 1 \in 1..n) /\ last <= n
      BY <1>1, <1>2, <1>3
    <2>1. CASE t > last
      <3>1. z[t] = 0 /\ r[t] = 0 /\ (t # n => z[t + 1] = 0)
        BY <2>0, <2>1
      <3>2. gamma * 0 = 0
        OBVIOUS
      <3> HIDE DEF z
      <3> QED
        BY <3>1, <3>2
    <2>2. CASE t = last
      <3>1. last - t = 0 /\ Power(gamma, 0) = 1 /\ 1 * reward = reward
        BY <2>0, <2>2, PowerSteps
      <3>2. z[t] = Power(gamma, last - t) * reward
        BY <2>0, <2>2
      <3>3. t # n => z[t + 1] = 0
        BY <2>0, <2>2
      <3>4. gamma * 0 = 0
        OBVIOUS
      <3>5. z[t] = reward /\ r[t] = reward
        BY <3>1, <3>2, <2>0, <2>2
      <3> HIDE DEF z
      <3> QED
        BY <3>3, <3>4, <3>5
    <2>3. CASE t < last
      <3> DEFINE j == last - (t + 1)
      <3>1. j \in Nat /\ last - t = j + 1 /\ t # n /\ t + 1 <= last /\ r[t] = 0 /\ t + 1 \in 1..n
        BY <2>0, <2>3
      <3>2. z[t] = Power(gamma, j + 1) * reward /\ z[t + 1] = Power(gamma, j) * reward
        <4>1. z[t] = Power(gamma, last - t) * reward
          BY <2>0, <2>3
        <4>2. z[t + 1] = Power(gamma, last - (t + 1)) * reward
          BY <3>1
        <4> HIDE DEF z
        <4> QED
          BY <3>1, <4>1, <4>2
      <3> HIDE DEF j, z
      <3>3. Power(gamma, j) \in Int /\ Power(gamma, j + 1) = gamma * Power(gamma, j)
        BY <3>1, PowerSteps
      <3>4. \A p \in Int : (gamma * p) * reward = gamma * (p * reward) /\ gamma * (p * reward) \in Int
        OBVIOUS
      <3>5. z[t] = gamma * z[t + 1] /\ z[t] \in Int
        BY <3>2, <3>3, <3>4
      <3> QED
        BY <3>1, <3>5
    <2> QED
      BY <2>0, <2>1, <2>2, <2>3
  <1>5. E(z)
    <2>1. z = [t \in 1..n |-> z[t]]
      OBVIOUS
    <2> HIDE DEF z
    <2> QED
      BY <1>4, <2>1
  <1> HIDE DEF z
  <1>6. E(f)
    BY <1>5
  <1>7. Len(r) = n /\ DOMAIN r = 1..n
    BY <1>1, <1>3
  <1>8. get_reinforce_plus_plus_returns(reward, mask, gamma) = [t \in 1..n |-> f[t]]
    <2>1. get_reinforce_plus_plus_returns(reward, mask, gamma) = discounted(r, gamma)
      BY DEF get_reinforce_plus_plus_returns, r
    <2>2. discounted(r, gamma) = [t \in DOMAIN r |-> (CHOOSE g : g = [x \in 1..Len(r) |->
                r[x] + (IF x = Len(r) THEN 0 ELSE gamma * g[x + 1])])[t]]
      BY DEF discounted
    <2> QED
      BY <2>1, <2>2, <1>7
  <1> HIDE DEF f
  <1> DEFINE P == {k \in Nat : k < n => f[n - k] = z[n - k]}
  <1>9. 0 \in P
    <2> SUFFICES ASSUME 0 < n PROVE f[n - 0] = z[n - 0]
      OBVIOUS
    <2>1. n - 0 = n /\ n \in 1..n
      BY <1>1
    <2> QED
      BY <2>1, <1>4, <1>6
  <1>10. ASSUME NEW k \in P PROVE k + 1 \in P
    <2> SUFFICES ASSUME k + 1 < n PROVE f[n - (k + 1)] = z[n - (k + 1)]
      OBVIOUS
    <2> DEFINE t == n - (k + 1)
    <2>1. t \in 1..n /\ t # n /\ t + 1 = n - k /\ k < n
      BY <1>1
    <2>2. f[t + 1] = z[t + 1]
      BY <2>1
    <2> HIDE DEF P, t
    <2>3. f[t] = r[t] + gamma * f[t + 1]
      BY <2>1, <1>6
    <2>4. z[t] = r[t] + gamma * z[t + 1]
      BY <2>1, <1>4
    <2> QED
      BY <2>2, <2>3, <2>4 DEF t
  <1>11. P = Nat
    <2> HIDE DEF P
    <2>1. P \in SUBSET Nat
      BY DEF P
    <2> QED
      BY <2>1, <1>9, <1>10, Induction
  <1>12. ASSUME NEW t \in 1..n PROVE f[t] = z[t]
    <2>1. n - t \in Nat /\ n - t < n /\ n - (n - t) = t
      BY <1>1
    <2>2. n - t \in P
      BY <2>1, <1>11
    <2> QED
      BY <2>1, <2>2
  <1>13. [t \in 1..n |-> f[t]] = z
    <2>1. z = [t \in 1..n |-> z[t]]
      BY DEF z
    <2> QED
      BY <2>1, <1>12
  <1> QED
    BY <1>2, <1>8, <1>13 DEF z, last, T, n

(***************************************************************************)
(* Sorting.                                                                *)
(***************************************************************************)
\* B orders the first n numbers.
StrictOrder(B, n) ==
    /\ \A i \in 1..n : <<i, i>> \notin B
    /\ \A i, j \in 1..n : i # j => <<i, j>> \in B \/ <<j, i>> \in B
    /\ \A i, j, l \in 1..n : <<i, j>> \in B /\ <<j, l>> \in B => <<i, l>> \in B

\* p takes each of the first n numbers once.
Rearranges(p, n) ==
    /\ p \in [1..n -> 1..n]
    /\ \A i, j \in 1..n : p[i] = p[j] => i = j
    /\ \A j \in 1..n : \E i \in 1..n : p[i] = j

(* A sequence arranged by an order has the same elements, in that order.   *)
LEMMA Arranging ==
    ASSUME NEW n \in Nat, NEW s, DOMAIN s = 1..n, NEW B, StrictOrder(B, n)
    PROVE  \E p : /\ Rearranges(p, n) /\ Arranged(s, B) = [i \in 1..n |-> s[p[i]]]
                  /\ \A i, j \in 1..n : i < j => <<p[i], p[j]>> \in B
  <1> DEFINE S == 1..n
             below(j) == {l \in S : <<l, j>> \in B}
             key == [j \in S |-> Cardinality(below(j))]
             p == [i \in S |-> CHOOSE j \in S : Cardinality(below(j)) = i - 1]
  <1>0. IsFiniteSet(S) /\ Cardinality(S) = n
    BY FS_Interval
  <1>1. ASSUME NEW j \in S PROVE below(j) \in SUBSET S /\ IsFiniteSet(below(j)) /\ Cardinality(below(j)) \in Nat
    <2>1. below(j) \in SUBSET S
      OBVIOUS
    <2> HIDE DEF below, S
    <2> QED
      BY <2>1, <1>0, FS_Subset, FS_CardinalityType
  <1>2. ASSUME NEW i \in S, NEW j \in S, <<i, j>> \in B
        PROVE  Cardinality(below(i)) < Cardinality(below(j))
    <2>1. below(i) \in SUBSET below(j) /\ i \in below(j) /\ i \notin below(i)
      BY <1>2 DEF StrictOrder
    <2>2. IsFiniteSet(below(j)) /\ Cardinality(below(i)) \in Nat /\ Cardinality(below(j)) \in Nat
      BY <1>1
    <2> HIDE DEF below
    <2> QED
      BY <2>1, <2>2, FS_Subset
  <1>3. key \in [S -> Int] /\ \A j \in S : key[j] = Cardinality(below(j)) /\ key[j] \in Nat
    <2> HIDE DEF below
    <2> QED
      BY <1>1
  <1>4. \A i, j \in S : <<i, j>> \in B => key[i] < key[j]
    <2> HIDE DEF below, key
    <2> QED
      BY <1>2, <1>3
  <1>5. \A i, j \in S : i # j => <<i, j>> \in B \/ <<j, i>> \in B
    BY DEF StrictOrder
  <1> HIDE DEF key
  <1> HIDE DEF S, below
  <1>6. ASSUME NEW i \in S, NEW j \in S, key[i] = key[j] PROVE i = j
    <2>1. key[i] \in Nat /\ key[j] \in Nat /\ ~(key[i] < key[j]) /\ ~(key[j] < key[i])
      BY <1>3, <1>6
    <2> QED
      BY <2>1, <1>4, <1>5
  <1> USE DEF S
  <1>7. ASSUME NEW j \in S PROVE Place(key, S, j) = key[j]
    <2>1. ASSUME NEW y \in S PROVE key[y] < key[j] <=> <<y, j>> \in B
      <3> HIDE DEF S
      <3>1. key[y] \in Nat /\ key[j] \in Nat
        BY <1>3
      <3>2. key[y] < key[j] => y # j /\ ~(key[j] < key[y])
        BY <3>1
      <3>3. key[y] < key[j] => <<y, j>> \in B
        BY <3>2, <1>4, <1>5
      <3> QED
        BY <3>3, <1>4
    <2>2. {y \in S : key[y] < key[j]} = below(j)
      BY <2>1 DEF below
    <2> HIDE DEF below
    <2> QED
      BY <2>2, <1>3 DEF Place
  <1>8. /\ \A j \in S : key[j] + 1 \in 1..n
        /\ \A i \in 1..n : \E j \in S : key[j] = i - 1
    <2> HIDE DEF S
    <2>1. \A x, y \in S : key[x] = key[y] => x = y
      BY <1>6
    <2>2. /\ \A x \in S : Place(key, S, x) + 1 \in 1..Cardinality(S)
          /\ \A i \in 1..Cardinality(S) : \E x \in S : Place(key, S, x) = i - 1
      BY <1>0, <1>3, <2>1, PlacesFilled
    <2> QED
      BY <1>0, <1>7, <2>2
  <1>9. ASSUME NEW i \in S PROVE p[i] \in S /\ key[p[i]] = i - 1
    <2>1. \E j \in S : Cardinality(below(j)) = i - 1
      BY <1>3, <1>8
    <2> HIDE DEF below
    <2> QED
      BY <2>1, <1>3
  <1>10. Arranged(s, B) = [i \in S |-> s[p[i]]]
    BY DEF Arranged, below
  <1>p. p = [i \in S |-> p[i]]
    OBVIOUS
  <1> HIDE DEF p, below
  <1>11. p \in [S -> S]
    BY <1>9, <1>p
  <1>12. ASSUME NEW i \in S, NEW j \in S, p[i] = p[j] PROVE i = j
    <2>1. i - 1 = j - 1
      BY <1>9, <1>12
    <2> QED
      BY <2>1
  <1>13. ASSUME NEW j \in S PROVE \E i \in S : p[i] = j
    <2>1. key[j] + 1 \in S /\ (key[j] + 1) - 1 = key[j]
      BY <1>3, <1>8
    <2>2. key[p[key[j] + 1]] = key[j] /\ p[key[j] + 1] \in S
      BY <2>1, <1>9
    <2> QED
      BY <2>1, <2>2, <1>6
  <1>14. ASSUME NEW i \in S, NEW j \in S, i < j PROVE <<p[i], p[j]>> \in B
    <2>1. p[i] \in S /\ p[j] \in S /\ key[p[i]] = i - 1 /\ key[p[j]] = j - 1
      BY <1>9
    <2>2. key[p[i]] < key[p[j]] /\ key[p[i]] \in Nat /\ key[p[j]] \in Nat
      BY <2>1, <1>14, <1>3
    <2>3. p[i] # p[j] /\ ~(<<p[j], p[i]>> \in B)
      BY <2>1, <2>2, <1>4
    <2> QED
      BY <2>1, <2>3, <1>5
  <1> QED
    BY <1>10, <1>11, <1>12, <1>13, <1>14 DEF Rearranges

(* The places of the first n numbers in the order of their lengths.        *)
LEMMA ShortestIs ==
    ASSUME NEW n \in Nat, NEW lengths \in [1..n -> Int]
    PROVE  Rearranges(Shortest(lengths), n)
  <1> DEFINE s == [i \in DOMAIN lengths |-> i]
             B == {p \in PlacePairs(lengths) : lengths[p[1]] < lengths[p[2]] \/ (lengths[p[1]] = lengths[p[2]] /\ p[1] < p[2])}
  <1>1. DOMAIN lengths = 1..n /\ DOMAIN s = 1..n /\ \A i \in 1..n : s[i] = i /\ lengths[i] \in Int
    OBVIOUS
  <1>2. \A i, j \in 1..n : <<i, j>> \in B <=> lengths[i] < lengths[j] \/ (lengths[i] = lengths[j] /\ i < j)
    BY <1>1 DEF PlacePairs
  <1> HIDE DEF B
  <1>3. StrictOrder(B, n)
    <2>1. \A i \in 1..n : <<i, i>> \notin B
      BY <1>1, <1>2
    <2>2. \A i, j \in 1..n : i # j => <<i, j>> \in B \/ <<j, i>> \in B
      BY <1>1, <1>2
    <2>3. \A i, j, l \in 1..n : <<i, j>> \in B /\ <<j, l>> \in B => <<i, l>> \in B
      BY <1>1, <1>2
    <2> QED
      BY <2>1, <2>2, <2>3 DEF StrictOrder
  <1> HIDE DEF s
  <1>4. PICK p : Rearranges(p, n) /\ Arranged(s, B) = [i \in 1..n |-> s[p[i]]]
    <2>1. \E p : /\ Rearranges(p, n) /\ Arranged(s, B) = [i \in 1..n |-> s[p[i]]]
                  /\ \A i, j \in 1..n : i < j => <<p[i], p[j]>> \in B
      BY <1>1, <1>3, Arranging
    <2> QED
      BY <2>1
  <1>5. [i \in 1..n |-> s[p[i]]] = p
    BY <1>1, <1>4 DEF Rearranges
  <1> QED
    BY <1>4, <1>5 DEF Shortest, s, B

(***************************************************************************)
(* Sets of items, by their total lengths.                                  *)
(***************************************************************************)
\* The function that Total is defined by.
Totals(it, lengths, items) ==
    it = [t \in SUBSET DOMAIN items |-> IF t = {} THEN 0 ELSE it[t \ {Max(t)}] + lengths[items[Max(t)]]]

(* There is one.                                                           *)
LEMMA TotalsExist ==
    ASSUME NEW n \in Nat, NEW lengths \in [1..n -> Nat], NEW items \in Seq(1..n)
    PROVE  \E it : Totals(it, lengths, items)
  <1> DEFINE m == Len(items)
             h == [iv \in (1..m) \X Nat |-> iv[2] + lengths[items[iv[1]]]]
  <1>1. m \in Nat /\ DOMAIN items = 1..m
    OBVIOUS
  <1>2. h \in [(1..m) \X Nat -> Nat]
    BY SMTT(30)
  <1>3. PICK it : FoldsLeft(it, m, Nat, 0, h)
    <2>1. 0 \in Nat
      OBVIOUS
    <2> HIDE DEF m, h
    <2> QED
      BY <1>1, <1>2, <2>1, FoldLeftExists
  <1>4. ASSUME NEW t \in SUBSET (1..m), t # {} PROVE it[t] = it[t \ {Max(t)}] + lengths[items[Max(t)]]
    <2>1. Max(t) \in 1..m
      <3> HIDE DEF m, h
      <3>1. Max(t) \in t
        BY <1>1, <1>4, LargestIn
      <3> QED
        BY <3>1
    <2>2. it[t \ {Max(t)}] \in Nat
      BY <1>3 DEF FoldsLeft
    <2>3. it[t] = h[<<Max(t), it[t \ {Max(t)}]>>]
      BY <1>3, <1>4 DEF FoldsLeft
    <2> QED
      BY <2>1, <2>2, <2>3
  <1> HIDE DEF m, h
  <1>5. it = [t \in SUBSET DOMAIN items |-> it[t]] /\ it[{}] = 0
    BY <1>1, <1>3 DEF FoldsLeft
  <1> QED
    BY <1>1, <1>4, <1>5 DEF Totals

(* A total is a natural number.                                            *)
LEMMA TotalType ==
    ASSUME NEW n \in Nat, NEW lengths \in [1..n -> Nat], NEW items \in Seq(1..n)
    PROVE  Total(lengths, items) \in Nat
  <1> DEFINE m == Len(items)
             jt == CHOOSE it : Totals(it, lengths, items)
             f == [i \in 0..m |-> jt[1..i]]
             P == {i \in Nat : i \in 0..m => f[i] \in Nat}
  <1>1. m \in Nat /\ DOMAIN items = 1..m
    OBVIOUS
  <1>2. Totals(jt, lengths, items)
    BY TotalsExist
  <1>3. Total(lengths, items) = jt[DOMAIN items]
    BY DEF Total, FoldLeft, MapThenFoldSet, Totals
  <1> HIDE DEF jt
  <1>4. f[0] = 0 /\ f[m] = Total(lengths, items)
    <2>1. 1..0 = {} /\ 1..0 \in SUBSET DOMAIN items
      OBVIOUS
    <2> HIDE DEF m
    <2> QED
      BY <1>1, <1>2, <1>3, <2>1 DEF Totals
  <1>5. ASSUME NEW i \in 1..m PROVE f[i] = f[i - 1] + lengths[items[i]]
    <2> DEFINE k == i - 1
    <2>1. k \in Nat /\ k \in 0..m /\ i = k + 1 /\ i \in 0..m
      OBVIOUS
    <2>2. Max(1..i) = i /\ (1..i) \ {i} = 1..k /\ 1..i # {}
      <3> HIDE DEF k
      <3> QED
        BY <2>1, LastNumber
    <2>3. 1..i \in SUBSET DOMAIN items
      BY <1>1
    <2> HIDE DEF m, k
    <2>4. jt[1..i] = jt[1..k] + lengths[items[i]]
      BY <1>2, <2>2, <2>3 DEF Totals
    <2> QED
      BY <2>1, <2>4 DEF k
  <1> HIDE DEF f, m
  <1>6. 0 \in P
    BY <1>4
  <1>7. ASSUME NEW i \in P PROVE i + 1 \in P
    <2> SUFFICES ASSUME i + 1 \in 0..m PROVE f[i + 1] \in Nat
      OBVIOUS
    <2>1. i \in 0..m /\ i + 1 \in 1..m /\ (i + 1) - 1 = i
      BY <1>1
    <2>2. items[i + 1] \in 1..n
      BY <1>1, <2>1 DEF m
    <2>3. lengths[items[i + 1]] \in Nat
      BY <2>2
    <2>4. f[i + 1] = f[i] + lengths[items[i + 1]]
      BY <2>1, <1>5
    <2> QED
      BY SMTT(30), <2>1, <2>3, <2>4
  <1>8. P = Nat
    <2> HIDE DEF P
    <2>1. P \in SUBSET Nat
      BY DEF P
    <2> QED
      BY <2>1, <1>6, <1>7, Induction
  <1>9. m \in 0..m /\ m \in P
    BY <1>1, <1>8
  <1> QED
    BY <1>4, <1>9

(* The total of nothing.                                                   *)
LEMMA NoTotal == ASSUME NEW n \in Nat, NEW lengths \in [1..n -> Nat] PROVE Total(lengths, <<>>) = 0
  <1> DEFINE items == <<>>
             jt == CHOOSE it : Totals(it, lengths, items)
  <1>1. items \in Seq(1..n) /\ DOMAIN items = {}
    OBVIOUS
  <1> HIDE DEF items
  <1>2. Totals(jt, lengths, items)
    BY <1>1, TotalsExist
  <1>3. Total(lengths, items) = jt[DOMAIN items]
    BY DEF Total, FoldLeft, MapThenFoldSet, Totals
  <1> HIDE DEF jt
  <1>4. jt[{}] = 0
    BY <1>1, <1>2 DEF Totals
  <1> QED
    BY <1>1, <1>3, <1>4 DEF items

(* Below is an order; of two different sets of items one is below the      *)
(* other, nothing is below all else.                                       *)
LEMMA BelowOrders ==
    ASSUME NEW n \in Nat, NEW lengths \in [1..n -> Nat], NEW s \in Seq(1..n), NEW t \in Seq(1..n), NEW u \in Seq(1..n)
    PROVE  /\ ~Below(lengths, s, s)
           /\ Below(lengths, s, t) => ~Below(lengths, t, s)
           /\ Below(lengths, s, t) /\ Below(lengths, t, u) => Below(lengths, s, u)
           /\ s # <<>> /\ t # <<>> /\ s[1] # t[1] => Below(lengths, s, t) \/ Below(lengths, t, s)
           /\ s = <<>> /\ t # <<>> => Below(lengths, s, t)
  <1> DEFINE a == Total(lengths, s)
             b == Total(lengths, t)
             c == Total(lengths, u)
  <1>1. a \in Nat /\ b \in Nat /\ c \in Nat
    BY TotalType
  <1>2. s = <<>> => a = 0
    BY NoTotal
  <1>3. /\ Below(lengths, s, s) = Precedes(a, s, a, s) /\ Below(lengths, s, t) = Precedes(a, s, b, t)
        /\ Below(lengths, t, s) = Precedes(b, t, a, s) /\ Below(lengths, t, u) = Precedes(b, t, c, u)
        /\ Below(lengths, s, u) = Precedes(a, s, c, u)
    BY DEF Below
  <1> HIDE DEF a, b, c
  <1>4. ASSUME NEW x \in Seq(1..n)
        PROVE  Len(x) \in Nat /\ (x # <<>> => x[1] \in Nat /\ Len(x) > 0) /\ (x = <<>> => Len(x) = 0)
    <2>1. ASSUME x # <<>> PROVE x[1] \in Nat /\ Len(x) > 0
      <3>1. 1 \in 1..Len(x)
        BY <2>1
      <3>2. x[1] \in 1..n
        BY <3>1
      <3> QED
        BY <3>1, <3>2
    <2> QED
      BY <2>1
  <1>5. /\ Len(s) \in Nat /\ (s # <<>> => s[1] \in Nat /\ Len(s) > 0) /\ (s = <<>> => Len(s) = 0)
        /\ Len(t) \in Nat /\ (t # <<>> => t[1] \in Nat /\ Len(t) > 0) /\ (t = <<>> => Len(t) = 0)
        /\ Len(u) \in Nat /\ (u # <<>> => u[1] \in Nat /\ Len(u) > 0) /\ (u = <<>> => Len(u) = 0)
    BY <1>4
  <1> DEFINE x == Len(s)
             y == Len(t)
             z == Len(u)
             f == s[1]
             g == t[1]
  <1>p. /\ Precedes(a, s, a, s) <=> (a < a \/ (a = a /\ x < x) \/ (a = a /\ x = x /\ s # <<>> /\ f < f))
        /\ Precedes(a, s, b, t) <=> (a < b \/ (a = b /\ x < y) \/ (a = b /\ x = y /\ s # <<>> /\ f < g))
        /\ Precedes(b, t, a, s) <=> (b < a \/ (b = a /\ y < x) \/ (b = a /\ y = x /\ t # <<>> /\ g < f))
    BY DEF Precedes
  <1>n. x \in Nat /\ y \in Nat /\ (s # <<>> => f \in Nat /\ x > 0) /\ (t # <<>> => g \in Nat /\ y > 0)
        /\ (s = <<>> => x = 0) /\ (t = <<>> => y = 0)
    BY <1>5
  <1>8. Precedes(a, s, b, t) /\ Precedes(b, t, c, u) => Precedes(a, s, c, u)
    BY SMTT(30), <1>1, <1>5 DEF Precedes
  <1>d. s # <<>> /\ t # <<>> /\ s[1] # t[1] => f # g
    OBVIOUS
  <1> HIDE DEF x, y, z, f, g
  <1>6. ~Precedes(a, s, a, s)
    BY <1>1, <1>n, <1>p
  <1>7. Precedes(a, s, b, t) => ~Precedes(b, t, a, s)
    BY <1>1, <1>n, <1>p
  <1>9. s # <<>> /\ t # <<>> /\ s[1] # t[1] => Precedes(a, s, b, t) \/ Precedes(b, t, a, s)
    BY <1>1, <1>n, <1>p, <1>d
  <1>10. s = <<>> /\ t # <<>> => Precedes(a, s, b, t)
    BY <1>1, <1>2, <1>5 DEF Precedes
  <1> QED
    BY <1>3, <1>6, <1>7, <1>8, <1>9, <1>10

\* Of two of the sets, unless they are the same, one is below the other.
Comparable(lengths, sets, k) ==
    \A i, j \in 1..k : sets[i] = sets[j] \/ Below(lengths, sets[i], sets[j]) \/ Below(lengths, sets[j], sets[i])

(* Decreasing has the same sets, and those with nothing last.              *)
LEMMA DecreasingIs ==
    ASSUME NEW n \in Nat, NEW lengths \in [1..n -> Nat], NEW k \in Nat,
           NEW sets \in [1..k -> Seq(1..n)], Comparable(lengths, sets, k)
    PROVE  \E p : /\ Rearranges(p, k) /\ Decreasing(lengths, sets) = [i \in 1..k |-> sets[p[i]]]
                  /\ \A i, j \in 1..k : i < j /\ sets[p[i]] = <<>> => sets[p[j]] = <<>>
  <1> DEFINE B == {p \in PlacePairs(sets) :
                    \/ Below(lengths, sets[p[2]], sets[p[1]])
                    \/ ~Below(lengths, sets[p[1]], sets[p[2]]) /\ p[1] < p[2]}
             b(i, j) == Below(lengths, sets[i], sets[j])
  <1>1. DOMAIN sets = 1..k /\ \A i \in 1..k : sets[i] \in Seq(1..n)
    OBVIOUS
  <1>2. \A i, j \in 1..k : <<i, j>> \in B <=> b(j, i) \/ (~b(i, j) /\ i < j)
    BY <1>1 DEF PlacePairs
  <1>3. \A i, j, l \in 1..k : /\ ~b(i, i) /\ (b(i, j) => ~b(j, i)) /\ (b(i, j) /\ b(j, l) => b(i, l))
                              /\ (sets[i] = <<>> /\ sets[j] # <<>> => b(i, j))
                              /\ (sets[i] = sets[j] \/ b(i, j) \/ b(j, i))
    <2>1. ASSUME NEW i \in 1..k, NEW j \in 1..k, NEW l \in 1..k
          PROVE  /\ ~b(i, i) /\ (b(i, j) => ~b(j, i)) /\ (b(i, j) /\ b(j, l) => b(i, l))
                 /\ (sets[i] = <<>> /\ sets[j] # <<>> => b(i, j))
                 /\ (sets[i] = sets[j] \/ b(i, j) \/ b(j, i))
      <3>1. sets[i] \in Seq(1..n) /\ sets[j] \in Seq(1..n) /\ sets[l] \in Seq(1..n)
        OBVIOUS
      <3>2. sets[i] = sets[j] \/ b(i, j) \/ b(j, i)
        BY DEF Comparable
      <3> QED
        BY <3>1, <3>2, BelowOrders
    <2> HIDE DEF b
    <2> QED
      BY <2>1
  <1>4. \A i, j, l \in 1..k : sets[i] = sets[j] => (b(i, l) => b(j, l)) /\ (b(l, i) => b(l, j))
    OBVIOUS
  <1> HIDE DEF B, b
  <1>5. StrictOrder(B, k)
    <2>1. \A i \in 1..k : <<i, i>> \notin B
      BY <1>2, <1>3
    <2>2. ASSUME NEW i \in 1..k, NEW j \in 1..k, i # j PROVE <<i, j>> \in B \/ <<j, i>> \in B
      <3>1. i < j \/ j < i
        BY <2>2
      <3> QED
        BY <3>1, <1>2
    <2>3. ASSUME NEW i \in 1..k, NEW j \in 1..k, NEW l \in 1..k, <<i, j>> \in B, <<j, l>> \in B
          PROVE  <<i, l>> \in B
      <3>1. b(j, i) \/ (~b(i, j) /\ i < j)
        BY <2>3, <1>2
      <3>2. b(l, j) \/ (~b(j, l) /\ j < l)
        BY <2>3, <1>2
      <3>3. b(l, i) \/ (~b(i, l) /\ i < l)
        <4>1. CASE b(j, i) /\ b(l, j)
          BY <4>1, <1>3
        <4>2. CASE ~b(j, i) /\ b(l, j)
          <5>1. sets[i] = sets[j]
            BY <4>2, <3>1, <1>3
          <5> QED
            BY <5>1, <4>2, <1>4
        <4>3. CASE b(j, i) /\ ~b(l, j)
          <5>1. sets[j] = sets[l]
            BY <4>3, <3>2, <1>3
          <5> QED
            BY <5>1, <4>3, <1>4
        <4>4. CASE ~b(j, i) /\ ~b(l, j)
          <5>1. sets[i] = sets[j] /\ sets[j] = sets[l] /\ i < j /\ j < l
            BY <4>4, <3>1, <3>2, <1>3
          <5>2. i < l
            BY <5>1
          <5>3. ~b(i, l)
            BY <5>1, <1>3, <1>4
          <5> QED
            BY <5>2, <5>3
        <4> QED
          BY <4>1, <4>2, <4>3, <4>4
      <3> QED
        BY <3>3, <1>2
    <2> QED
      BY <2>1, <2>2, <2>3 DEF StrictOrder
  <1>6. \E p : /\ Rearranges(p, k) /\ Arranged(sets, B) = [i \in 1..k |-> sets[p[i]]]
               /\ \A i, j \in 1..k : i < j => <<p[i], p[j]>> \in B
    BY <1>1, <1>5, Arranging
  <1>7. PICK p : /\ Rearranges(p, k) /\ Arranged(sets, B) = [i \in 1..k |-> sets[p[i]]]
                 /\ \A i, j \in 1..k : i < j => <<p[i], p[j]>> \in B
    BY <1>6
  <1>8. ASSUME NEW i \in 1..k, NEW j \in 1..k, i < j, sets[p[i]] = <<>> PROVE sets[p[j]] = <<>>
    <2>1. p[i] \in 1..k /\ p[j] \in 1..k /\ <<p[i], p[j]>> \in B
      BY <1>7, <1>8 DEF Rearranges
    <2>2. ~b(p[i], p[j])
      BY <2>1, <1>2, <1>3
    <2> QED
      BY <2>1, <2>2, <1>3, <1>8
  <1>9. Decreasing(lengths, sets) = Arranged(sets, B)
    BY DEF Decreasing, B
  <1> QED
    BY <1>7, <1>8, <1>9

(***************************************************************************)
(* The states of the differencing method.                                  *)
(***************************************************************************)
\* x is an item of one of the sets.
HasItem(sets, k, x) == \E i \in 1..k : \E a \in 1..Len(sets[i]) : sets[i][a] = x

\* No item is in two places.
Apart(sets, k) ==
    \A i, j \in 1..k : \A a \in 1..Len(sets[i]) : \A b \in 1..Len(sets[j]) : sets[i][a] = sets[j][b] => i = j /\ a = b

\* Where a set has nothing no other has two items.
Thin(sets, k) == (\E i \in 1..k : sets[i] = <<>>) => \A j \in 1..k : Len(sets[j]) <= 1

Even(sets, k) == \A i, j \in 1..k : Len(sets[i]) = Len(sets[j])

\* k sets, the first of them with an item, those without one last.
State(s, n, k) ==
    /\ s \in [1..k -> Seq(1..n)]
    /\ Apart(s, k) /\ Thin(s, k)
    /\ s[1] # <<>>
    /\ \A i, j \in 1..k : i < j /\ s[i] = <<>> => s[j] = <<>>

(* Items that are apart are so in another order of the sets.               *)
LEMMA ApartRearranged ==
    ASSUME NEW k, NEW sets, NEW d, NEW p, Apart(sets, k),
           \A i \in 1..k : p[i] \in 1..k /\ d[i] = sets[p[i]],
           \A i, j \in 1..k : p[i] = p[j] => i = j
    PROVE  Apart(d, k)
  <1> SUFFICES ASSUME NEW i \in 1..k, NEW j \in 1..k, NEW a \in 1..Len(d[i]), NEW b \in 1..Len(d[j]), d[i][a] = d[j][b]
               PROVE  i = j /\ a = b
    BY DEF Apart
  <1>1. /\ p[i] \in 1..k /\ p[j] \in 1..k /\ a \in 1..Len(sets[p[i]]) /\ b \in 1..Len(sets[p[j]])
        /\ sets[p[i]][a] = sets[p[j]][b]
    OBVIOUS
  <1>2. p[i] = p[j] /\ a = b
    BY <1>1 DEF Apart
  <1> QED
    BY <1>2

(* Sets in decreasing order are a state with the same items.               *)
LEMMA DecreasingKeeps ==
    ASSUME NEW n \in Nat, NEW lengths \in [1..n -> Nat], NEW k \in Nat,
           NEW sets \in [1..k -> Seq(1..n)], Apart(sets, k), Thin(sets, k), \E i \in 1..k : sets[i] # <<>>
    PROVE  /\ State(Decreasing(lengths, sets), n, k)
           /\ \A x : HasItem(Decreasing(lengths, sets), k, x) <=> HasItem(sets, k, x)
           /\ Even(sets, k) => Even(Decreasing(lengths, sets), k)
  <1> DEFINE d == Decreasing(lengths, sets)
  <1>t. ASSUME NEW i \in 1..k PROVE sets[i] \in Seq(1..n) /\ (sets[i] # <<>> => 1 \in 1..Len(sets[i]))
    <2>1. sets[i] \in Seq(1..n)
      OBVIOUS
    <2> QED
      BY <2>1
  <1>1. Comparable(lengths, sets, k)
    <2> SUFFICES ASSUME NEW i \in 1..k, NEW j \in 1..k, sets[i] # sets[j]
                 PROVE  Below(lengths, sets[i], sets[j]) \/ Below(lengths, sets[j], sets[i])
      BY DEF Comparable
    <2>1. sets[i] \in Seq(1..n) /\ sets[j] \in Seq(1..n)
      BY <1>t
    <2>2. CASE sets[i] = <<>>
      <3>1. sets[j] # <<>>
        BY <2>2
      <3> QED
        BY <2>1, <2>2, <3>1, BelowOrders
    <2>3. CASE sets[j] = <<>>
      <3>1. sets[i] # <<>>
        BY <2>3
      <3> QED
        BY <2>1, <2>3, <3>1, BelowOrders
    <2>4. CASE sets[i] # <<>> /\ sets[j] # <<>>
      <3>1. sets[i][1] # sets[j][1]
        <4>1. 1 \in 1..Len(sets[i]) /\ 1 \in 1..Len(sets[j])
          BY <2>4, <1>t
        <4> QED
          BY <4>1 DEF Apart
      <3> QED
        BY <2>1, <2>4, <3>1, BelowOrders
    <2> QED
      BY <2>2, <2>3, <2>4
  <1>2. PICK p : /\ Rearranges(p, k) /\ d = [i \in 1..k |-> sets[p[i]]]
                 /\ \A i, j \in 1..k : i < j /\ sets[p[i]] = <<>> => sets[p[j]] = <<>>
    BY <1>1, DecreasingIs
  <1> HIDE DEF d
  <1>3. \A i \in 1..k : p[i] \in 1..k /\ d[i] = sets[p[i]]
    BY <1>2 DEF Rearranges
  <1>4. d \in [1..k -> Seq(1..n)]
    <2>1. \A i \in 1..k : sets[p[i]] \in Seq(1..n)
      BY <1>3, <1>t
    <2> QED
      BY <1>2, <2>1
  <1>5. Apart(d, k)
    <2>1. \A i, j \in 1..k : p[i] = p[j] => i = j
      BY <1>2 DEF Rearranges
    <2> QED
      BY <2>1, <1>3, ApartRearranged
  <1>6. Thin(d, k)
    <2> SUFFICES ASSUME NEW i \in 1..k, d[i] = <<>>, NEW j \in 1..k PROVE Len(d[j]) <= 1
      BY DEF Thin
    <2>1. p[i] \in 1..k /\ sets[p[i]] = <<>> /\ p[j] \in 1..k /\ d[j] = sets[p[j]]
      BY <1>3
    <2> QED
      BY <2>1 DEF Thin
  <1>7. \A i, j \in 1..k : i < j /\ d[i] = <<>> => d[j] = <<>>
    BY <1>2, <1>3
  <1>8. d[1] # <<>>
    <2> SUFFICES ASSUME d[1] = <<>> PROVE FALSE
      OBVIOUS
    <2>1. PICK i \in 1..k : sets[i] # <<>>
      OBVIOUS
    <2>2. PICK j \in 1..k : p[j] = i
      BY <1>2 DEF Rearranges
    <2>3. d[j] # <<>>
      BY <2>1, <2>2, <1>3
    <2>4. 1 \in 1..k /\ (j = 1 \/ 1 < j)
      OBVIOUS
    <2> QED
      BY <2>3, <2>4, <1>7
  <1>9. State(d, n, k)
    BY <1>4, <1>5, <1>6, <1>7, <1>8 DEF State
  <1>10. ASSUME NEW x PROVE HasItem(d, k, x) <=> HasItem(sets, k, x)
    <2>1. ASSUME HasItem(d, k, x) PROVE HasItem(sets, k, x)
      <3>1. PICK i \in 1..k : \E a \in 1..Len(d[i]) : d[i][a] = x
        BY <2>1 DEF HasItem
      <3>2. p[i] \in 1..k /\ \E a \in 1..Len(sets[p[i]]) : sets[p[i]][a] = x
        BY <3>1, <1>3
      <3> QED
        BY <3>2 DEF HasItem
    <2>2. ASSUME HasItem(sets, k, x) PROVE HasItem(d, k, x)
      <3>1. PICK i \in 1..k : \E a \in 1..Len(sets[i]) : sets[i][a] = x
        BY <2>2 DEF HasItem
      <3>2. PICK j \in 1..k : p[j] = i
        BY <1>2 DEF Rearranges
      <3>3. d[j] = sets[i]
        BY <3>2, <1>3
      <3> QED
        BY <3>1, <3>3 DEF HasItem
    <2> QED
      BY <2>1, <2>2
  <1>11. Even(sets, k) => Even(d, k)
    BY ZenonT(30), <1>3 DEF Even
  <1> QED
    BY <1>9, <1>10, <1>11 DEF d

(* Two states without a common item merge into one with the items of both. *)
LEMMA MergeKeeps ==
    ASSUME NEW n \in Nat, NEW lengths \in [1..n -> Nat], NEW k \in Nat, k > 0,
           NEW s, NEW t, State(s, n, k), State(t, n, k), \A x : ~(HasItem(s, k, x) /\ HasItem(t, k, x))
    PROVE  /\ State(Merge(lengths, s, t), n, k)
           /\ \A x : HasItem(Merge(lengths, s, t), k, x) <=> HasItem(s, k, x) \/ HasItem(t, k, x)
           /\ Even(s, k) /\ Even(t, k) => Even(Merge(lengths, s, t), k)
  <1> DEFINE sets == [i \in 1..k |-> s[i] \o t[k + 1 - i]]
  <1>1. s \in [1..k -> Seq(1..n)] /\ t \in [1..k -> Seq(1..n)]
    BY DEF State
  <1>2. DOMAIN s = 1..k /\ Len(t) = k
    <2>1. t \in Seq(Seq(1..n)) /\ DOMAIN t = 1..k
      BY <1>1
    <2> QED
      BY <1>1, <2>1
  <1>3. Merge(lengths, s, t) = Decreasing(lengths, sets)
    BY <1>2 DEF Merge
  <1> DEFINE m(i) == k + 1 - i
             ls(i) == Len(s[i])
             lt(i) == Len(t[i])
             lw(i) == Len(sets[i])
  <1>m. \A i \in 1..k : m(i) \in 1..k /\ m(m(i)) = i /\ \A j \in 1..k : (m(i) = m(j) => i = j) /\ (j < i => m(i) < m(j))
    OBVIOUS
  <1>e. ASSUME NEW i \in 1..k PROVE s[i] \in Seq(1..n) /\ t[i] \in Seq(1..n) /\ sets[i] = s[i] \o t[m(i)]
    BY <1>1
  <1> HIDE DEF sets, m
  <1>4. ASSUME NEW i \in 1..k
        PROVE  /\ ls(i) \in Nat /\ lt(i) \in Nat /\ lw(i) = ls(i) + lt(m(i)) /\ sets[i] \in Seq(1..n)
               /\ \A a \in 1..lw(i) : sets[i][a] = IF a <= ls(i) THEN s[i][a] ELSE t[m(i)][a - ls(i)]
    <2> DEFINE u == s[i]
               v == t[m(i)]
    <2>1. m(i) \in 1..k
      BY <1>m
    <2>2. u \in Seq(1..n) /\ v \in Seq(1..n) /\ t[i] \in Seq(1..n) /\ sets[i] = u \o v
      BY <1>e, <2>1
    <2>3. ls(i) = Len(u) /\ lt(m(i)) = Len(v) /\ lt(i) \in Nat
      BY <2>2
    <2> HIDE DEF u, v
    <2>5. /\ Len(u) \in Nat /\ Len(v) \in Nat /\ Len(u \o v) = Len(u) + Len(v) /\ u \o v \in Seq(1..n)
          /\ \A a \in 1..(Len(u) + Len(v)) : (u \o v)[a] = IF a <= Len(u) THEN u[a] ELSE v[a - Len(u)]
      BY <2>2, ConcatProperties
    <2>6. /\ lw(i) = ls(i) + lt(m(i)) /\ ls(i) \in Nat
          /\ \A a \in 1..lw(i) : sets[i][a] = IF a <= ls(i) THEN u[a] ELSE v[a - ls(i)]
      BY <2>2, <2>3, <2>5
    <2> QED
      BY <2>2, <2>3, <2>5, <2>6 DEF u, v
  <1>5. sets \in [1..k -> Seq(1..n)]
    <2>1. \A i \in 1..k : sets[i] \in Seq(1..n)
      BY <1>4
    <2> QED
      BY <2>1 DEF sets
  <1>z. \A i \in 1..k : (ls(i) = 0 <=> s[i] = <<>>) /\ (lt(i) = 0 <=> t[i] = <<>>) /\ (lw(i) = 0 <=> sets[i] = <<>>)
    <2>1. ASSUME NEW i \in 1..k
          PROVE  (ls(i) = 0 <=> s[i] = <<>>) /\ (lt(i) = 0 <=> t[i] = <<>>) /\ (lw(i) = 0 <=> sets[i] = <<>>)
      BY <1>e, <1>4
    <2> HIDE DEF ls, lt, lw
    <2> QED
      BY <2>1
  <1>s. /\ \A i, j \in 1..k : \A a \in 1..ls(i) : \A b \in 1..ls(j) : s[i][a] = s[j][b] => i = j /\ a = b
        /\ (\E i \in 1..k : s[i] = <<>>) => \A j \in 1..k : ls(j) <= 1
        /\ \A i, j \in 1..k : i < j /\ s[i] = <<>> => s[j] = <<>>
    BY DEF State, Apart, Thin
  <1>t. /\ \A i, j \in 1..k : \A a \in 1..lt(i) : \A b \in 1..lt(j) : t[i][a] = t[j][b] => i = j /\ a = b
        /\ (\E i \in 1..k : t[i] = <<>>) => \A j \in 1..k : lt(j) <= 1
        /\ \A i, j \in 1..k : i < j /\ t[i] = <<>> => t[j] = <<>>
    BY DEF State, Apart, Thin
  <1>h. \A x : /\ HasItem(s, k, x) <=> \E i \in 1..k : \E a \in 1..ls(i) : s[i][a] = x
               /\ HasItem(t, k, x) <=> \E i \in 1..k : \E a \in 1..lt(i) : t[i][a] = x
               /\ HasItem(sets, k, x) <=> \E i \in 1..k : \E a \in 1..lw(i) : sets[i][a] = x
    BY DEF HasItem
  <1>a. /\ Apart(sets, k) <=> \A i, j \in 1..k : \A a \in 1..lw(i) : \A b \in 1..lw(j) : sets[i][a] = sets[j][b] => i = j /\ a = b
        /\ Thin(sets, k) <=> ((\E i \in 1..k : sets[i] = <<>>) => \A j \in 1..k : lw(j) <= 1)
        /\ Even(sets, k) <=> \A i, j \in 1..k : lw(i) = lw(j)
    BY DEF Apart, Thin, Even
  <1>v. /\ Even(s, k) <=> \A i, j \in 1..k : ls(i) = ls(j)
        /\ Even(t, k) <=> \A i, j \in 1..k : lt(i) = lt(j)
    BY DEF Even
  <1> HIDE DEF ls, lt, lw
  <1>6. ASSUME NEW i \in 1..k, NEW a \in 1..lw(i)
        PROVE  \/ a \in 1..ls(i) /\ sets[i][a] = s[i][a]
               \/ a - ls(i) \in 1..lt(m(i)) /\ sets[i][a] = t[m(i)][a - ls(i)]
    <2>1. m(i) \in 1..k
      BY <1>m
    <2>2. ls(i) \in Nat /\ lt(m(i)) \in Nat /\ lw(i) = ls(i) + lt(m(i))
      BY <2>1, <1>4
    <2>3. CASE a <= ls(i)
      <3>1. sets[i][a] = s[i][a] /\ a \in 1..ls(i)
        BY <2>2, <2>3, <1>4
      <3> QED
        BY <3>1
    <2>4. CASE ~(a <= ls(i))
      <3>1. sets[i][a] = t[m(i)][a - ls(i)] /\ a - ls(i) \in 1..lt(m(i))
        BY SMTT(30), <2>2, <2>4, <1>4
      <3> QED
        BY <3>1
    <2> QED
      BY <2>3, <2>4
  <1>7. Apart(sets, k)
    <2> SUFFICES ASSUME NEW i \in 1..k, NEW j \in 1..k, NEW a \in 1..lw(i), NEW b \in 1..lw(j),
                        sets[i][a] = sets[j][b]
                 PROVE  i = j /\ a = b
      BY <1>a
    <2> DEFINE x == sets[i][a]
               i2 == m(i)
               j2 == m(j)
               a2 == a - ls(i)
               b2 == b - ls(j)
    <2>1. i2 \in 1..k /\ j2 \in 1..k /\ (i2 = j2 => i = j)
      BY <1>m
    <2>2. \/ a \in 1..ls(i) /\ x = s[i][a]
          \/ a2 \in 1..lt(i2) /\ x = t[i2][a2]
      BY <1>6
    <2>3. \/ b \in 1..ls(j) /\ x = s[j][b]
          \/ b2 \in 1..lt(j2) /\ x = t[j2][b2]
      BY <1>6
    <2>e. a2 = b2 /\ i = j => a = b
      <3>1. ls(i) \in Nat /\ ls(j) \in Nat
        BY <1>4
      <3> QED
        BY <3>1
    <2> HIDE DEF x, i2, j2, a2, b2
    <2>4. CASE (a \in 1..ls(i) /\ x = s[i][a]) /\ (b \in 1..ls(j) /\ x = s[j][b])
      <3>1. s[i][a] = s[j][b]
        BY <2>4
      <3> QED
        BY <2>4, <1>s, <3>1
    <2>5. CASE (a2 \in 1..lt(i2) /\ x = t[i2][a2]) /\ (b2 \in 1..lt(j2) /\ x = t[j2][b2])
      <3>1. i2 = j2 /\ a2 = b2
        <4>1. t[i2][a2] = t[j2][b2]
          BY <2>5
        <4> QED
          BY <2>1, <2>5, <1>t, <4>1
      <3> QED
        BY <3>1, <2>1, <2>e
    <2>6. CASE (a \in 1..ls(i) /\ x = s[i][a]) /\ (b2 \in 1..lt(j2) /\ x = t[j2][b2])
      <3>1. HasItem(s, k, x) /\ HasItem(t, k, x)
        BY ZenonT(30), <2>1, <2>6, <1>h
      <3> QED
        BY <3>1
    <2>7. CASE (a2 \in 1..lt(i2) /\ x = t[i2][a2]) /\ (b \in 1..ls(j) /\ x = s[j][b])
      <3>1. HasItem(s, k, x) /\ HasItem(t, k, x)
        BY ZenonT(30), <2>1, <2>7, <1>h
      <3> QED
        BY <3>1
    <2> QED
      BY <2>2, <2>3, <2>4, <2>5, <2>6, <2>7
  <1>8. ASSUME NEW i \in 1..k, sets[i] = <<>> PROVE s[i] = <<>> /\ t[m(i)] = <<>>
    <2>1. lw(i) = 0 /\ m(i) \in 1..k
      BY <1>8, <1>z, <1>m
    <2>2. ls(i) \in Nat /\ lt(m(i)) \in Nat /\ lw(i) = ls(i) + lt(m(i))
      BY <2>1, <1>4
    <2>3. ls(i) = 0 /\ lt(m(i)) = 0
      BY <2>1, <2>2
    <2> QED
      BY <2>1, <2>3, <1>z
  <1>9. Thin(sets, k)
    <2> SUFFICES ASSUME NEW i \in 1..k, sets[i] = <<>>, NEW j \in 1..k PROVE lw(j) <= 1
      BY <1>a
    <2>1. s[i] = <<>> /\ t[m(i)] = <<>> /\ m(i) \in 1..k /\ m(j) \in 1..k
      BY <1>m, <1>8
    <2>2. ls(j) <= 1 /\ lt(m(j)) <= 1 /\ ls(j) \in Nat /\ lt(m(j)) \in Nat /\ lw(j) = ls(j) + lt(m(j))
      BY <2>1, <1>4, <1>s, <1>t
    <2>3. CASE i <= j
      <3>1. i = j \/ i < j
        BY <2>3
      <3>2. ls(j) = 0
        BY <2>1, <3>1, <1>s, <1>z
      <3> QED
        BY <2>2, <3>2
    <2>4. CASE j < i
      <3>1. m(i) < m(j)
        BY <2>4, <1>m
      <3>2. lt(m(j)) = 0
        BY <2>1, <3>1, <1>t, <1>z
      <3> QED
        BY <2>2, <3>2
    <2> QED
      BY <2>3, <2>4
  <1>10. \E i \in 1..k : sets[i] # <<>>
    <2>1. 1 \in 1..k /\ s[1] # <<>>
      BY DEF State
    <2> QED
      BY <2>1, <1>8
  <1>11. ASSUME NEW x PROVE HasItem(sets, k, x) <=> HasItem(s, k, x) \/ HasItem(t, k, x)
    <2>1. ASSUME HasItem(sets, k, x) PROVE HasItem(s, k, x) \/ HasItem(t, k, x)
      <3>1. PICK i \in 1..k : \E a \in 1..lw(i) : sets[i][a] = x
        BY <2>1, <1>h
      <3>2. PICK a \in 1..lw(i) : sets[i][a] = x
        BY <3>1
      <3>3. m(i) \in 1..k
        BY <1>m
      <3> QED
        BY <3>2, <3>3, <1>6, <1>h
    <2>2. ASSUME HasItem(s, k, x) PROVE HasItem(sets, k, x)
      <3>1. PICK i \in 1..k : \E a \in 1..ls(i) : s[i][a] = x
        BY <2>2, <1>h
      <3>2. PICK a \in 1..ls(i) : s[i][a] = x
        BY <3>1
      <3>3. ls(i) \in Nat /\ lt(m(i)) \in Nat /\ lw(i) = ls(i) + lt(m(i))
        BY <1>4, <1>m
      <3>4. a \in 1..lw(i) /\ a <= ls(i)
        BY <3>3
      <3>5. sets[i][a] = x
        BY <3>2, <3>4, <1>4
      <3> QED
        BY <3>4, <3>5, <1>h
    <2>3. ASSUME HasItem(t, k, x) PROVE HasItem(sets, k, x)
      <3>1. PICK j \in 1..k : \E a \in 1..lt(j) : t[j][a] = x
        BY <2>3, <1>h
      <3>2. PICK a \in 1..lt(j) : t[j][a] = x
        BY <3>1
      <3> DEFINE i == m(j)
      <3>3. i \in 1..k /\ m(i) = j
        BY <1>m
      <3> HIDE DEF i
      <3>4. ls(i) \in Nat /\ lt(j) \in Nat /\ lw(i) = ls(i) + lt(j)
        BY <3>3, <1>4
      <3>5. ls(i) + a \in 1..lw(i) /\ ~(ls(i) + a <= ls(i)) /\ (ls(i) + a) - ls(i) = a
        BY <3>4
      <3>6. sets[i][ls(i) + a] = t[j][(ls(i) + a) - ls(i)]
        BY <3>3, <3>5, <1>4
      <3>7. sets[i][ls(i) + a] = x
        BY <3>2, <3>5, <3>6
      <3> QED
        BY <3>3, <3>5, <3>7, <1>h
    <2> QED
      BY <2>1, <2>2, <2>3
  <1>12. Even(s, k) /\ Even(t, k) => Even(sets, k)
    <2> SUFFICES ASSUME Even(s, k), Even(t, k), NEW i \in 1..k, NEW j \in 1..k
                 PROVE  lw(i) = lw(j)
      BY <1>a
    <2>1. ls(i) = ls(j)
      BY <1>v
    <2>2. lt(m(i)) = lt(m(j))
      BY <1>m, <1>v
    <2> QED
      BY <2>1, <2>2, <1>4
  <1>13. /\ State(Decreasing(lengths, sets), n, k)
         /\ \A x : HasItem(Decreasing(lengths, sets), k, x) <=> HasItem(sets, k, x)
         /\ Even(sets, k) => Even(Decreasing(lengths, sets), k)
    BY <1>5, <1>7, <1>9, <1>10, DecreasingKeeps
  <1> QED
    BY <1>3, <1>11, <1>12, <1>13

\* m states without a common item.
Family(H, m, n, k) ==
    /\ IsFiniteSet(H) /\ Cardinality(H) = m
    /\ \A s \in H : State(s, n, k)
    /\ \A s, t \in H : \A x : HasItem(s, k, x) /\ HasItem(t, k, x) => s = t

\* They have all of the first n numbers; where the parts are to be equal they are in each.
Sharing(H, n, k, even) ==
    /\ \A x \in 1..n : \E s \in H : HasItem(s, k, x)
    /\ even => \A s \in H : Even(s, k)

(* The first set of a state holds an item; what it spreads is a number.    *)
LEMMA StateHolds ==
    ASSUME NEW n \in Nat, NEW lengths \in [1..n -> Nat], NEW k \in Nat \ {0}, NEW s, State(s, n, k)
    PROVE  /\ s \in [1..k -> Seq(1..n)] /\ s[1] \in Seq(1..n) /\ s[1] # <<>>
           /\ 1 \in 1..k /\ HasItem(s, k, s[1][1]) /\ Spread(lengths, s) \in Int
  <1>1. s \in [1..k -> Seq(1..n)] /\ s[1] # <<>> /\ 1 \in 1..k
    BY DEF State
  <1>2. Len(s) = k
    <2>1. s \in Seq(Seq(1..n)) /\ DOMAIN s = 1..k
      BY <1>1
    <2> QED
      BY <2>1
  <1>3. s[1] \in Seq(1..n) /\ s[Len(s)] \in Seq(1..n)
    <2>1. k \in 1..k
      OBVIOUS
    <2> QED
      BY <1>1, <1>2, <2>1
  <1>4. Total(lengths, s[1]) \in Int /\ Total(lengths, s[Len(s)]) \in Int
    <2>1. Total(lengths, s[1]) \in Nat /\ Total(lengths, s[Len(s)]) \in Nat
      BY <1>3, TotalType
    <2> QED
      BY <2>1
  <1>5. 1 \in 1..Len(s[1])
    BY <1>1, <1>3
  <1>6. HasItem(s, k, s[1][1])
    BY <1>1, <1>5 DEF HasItem
  <1>7. Spread(lengths, s) \in Int
    BY <1>4 DEF Spread
  <1> QED
    BY <1>1, <1>3, <1>6, <1>7

(* One of the states goes before all others.                               *)
LEMMA PoppedIs ==
    ASSUME NEW n \in Nat, NEW lengths \in [1..n -> Nat], NEW k \in Nat \ {0}, NEW m \in Nat \ {0},
           NEW H, Family(H, m, n, k)
    PROVE  Popped(lengths, H) \in H
  <1> DEFINE first(s, t) == \/ Spread(lengths, s) > Spread(lengths, t)
                            \/ Spread(lengths, s) = Spread(lengths, t) /\ Below(lengths, t[1], s[1])
  <1>1. \A s, t, u \in H : /\ ~first(s, s) /\ (first(s, t) /\ first(t, u) => first(s, u))
                           /\ (s # t => first(s, t) \/ first(t, s))
    <2> SUFFICES ASSUME NEW s \in H, NEW t \in H, NEW u \in H
                 PROVE  /\ ~first(s, s) /\ (first(s, t) /\ first(t, u) => first(s, u))
                        /\ (s # t => first(s, t) \/ first(t, s))
      OBVIOUS
    <2> DEFINE x == Spread(lengths, s)
               y == Spread(lengths, t)
               z == Spread(lengths, u)
               b(v, w) == Below(lengths, v[1], w[1])
    <2>1. /\ x \in Int /\ y \in Int /\ z \in Int
          /\ s[1] \in Seq(1..n) /\ t[1] \in Seq(1..n) /\ u[1] \in Seq(1..n)
          /\ s[1] # <<>> /\ t[1] # <<>> /\ HasItem(s, k, s[1][1]) /\ HasItem(t, k, t[1][1])
      BY StateHolds DEF Family
    <2>2. ASSUME s # t PROVE s[1][1] # t[1][1]
      BY <2>1, <2>2 DEF Family
    <2>3. /\ ~b(s, s) /\ (b(t, s) /\ b(u, t) => b(u, s))
          /\ (s # t => b(t, s) \/ b(s, t))
      <3>1. ~b(s, s)
        BY <2>1, BelowOrders
      <3>2. b(t, s) /\ b(u, t) => b(u, s)
        BY <2>1, BelowOrders
      <3>3. s # t => b(t, s) \/ b(s, t)
        BY <2>1, <2>2, BelowOrders
      <3> QED
        BY <3>1, <3>2, <3>3
    <2>4. /\ first(s, s) <=> (x > x \/ (x = x /\ b(s, s)))
          /\ first(s, t) <=> (x > y \/ (x = y /\ b(t, s)))
          /\ first(t, s) <=> (y > x \/ (y = x /\ b(s, t)))
          /\ first(t, u) <=> (y > z \/ (y = z /\ b(u, t)))
          /\ first(s, u) <=> (x > z \/ (x = z /\ b(u, s)))
      OBVIOUS
    <2> HIDE DEF first, x, y, z, b
    <2>5. ~first(s, s)
      BY <2>1, <2>3, <2>4
    <2>6. s # t => first(s, t) \/ first(t, s)
      BY <2>1, <2>3, <2>4
    <2>7. first(s, t) /\ first(t, u) => first(s, u)
      BY <2>1, <2>3, <2>4
    <2> QED
      BY <2>5, <2>6, <2>7
  <1>2. Popped(lengths, H) = CHOOSE s \in H : \A t \in H \ {s} : first(s, t)
    BY DEF Popped
  <1> HIDE DEF first
  <1>3. PICK q \in Bijection(1..m, H) : TRUE
    <2>1. ExistsBijection(1..m, H)
      BY FS_CardinalityType DEF Family
    <2> QED
      BY <2>1 DEF ExistsBijection
  <1>4. /\ \A i \in 1..m : q[i] \in H
        /\ \A i, j \in 1..m : i # j => q[i] # q[j]
        /\ \A s \in H : \E i \in 1..m : q[i] = s
    BY <1>3 DEF Bijection, Injection, Surjection, IsInjective
  <1> DEFINE B == {pq \in (1..m) \X (1..m) : first(q[pq[1]], q[pq[2]])}
             id == [i \in 1..m |-> i]
  <1>5. \A i, j \in 1..m : <<i, j>> \in B <=> first(q[i], q[j])
    OBVIOUS
  <1>i. DOMAIN id = 1..m
    OBVIOUS
  <1> HIDE DEF B, id
  <1>6. StrictOrder(B, m)
    BY <1>1, <1>4, <1>5 DEF StrictOrder
  <1>7. \E p : /\ Rearranges(p, m) /\ Arranged(id, B) = [i \in 1..m |-> id[p[i]]]
               /\ \A i, j \in 1..m : i < j => <<p[i], p[j]>> \in B
    BY <1>6, <1>i, Arranging
  <1>8. PICK p : Rearranges(p, m) /\ \A i, j \in 1..m : i < j => <<p[i], p[j]>> \in B
    BY <1>7
  <1> DEFINE s == q[p[1]]
  <1>9. 1 \in 1..m /\ p[1] \in 1..m /\ s \in H
    <2>1. 1 \in 1..m
      OBVIOUS
    <2>2. p[1] \in 1..m
      BY <2>1, <1>8 DEF Rearranges
    <2> QED
      BY <2>1, <2>2, <1>4
  <1>10. ASSUME NEW t \in H \ {s} PROVE first(s, t)
    <2>1. PICK i \in 1..m : q[i] = t
      BY <1>4
    <2>2. PICK j \in 1..m : p[j] = i
      BY <1>8 DEF Rearranges
    <2>3. j # 1
      BY <2>1, <2>2
    <2>4. <<p[1], p[j]>> \in B
      BY <2>3, <1>8, <1>9
    <2> QED
      BY <2>1, <2>2, <2>4, <1>5, <1>9
  <1> HIDE DEF s
  <1> QED
    BY <1>2, <1>9, <1>10

(* A step makes one state of two.                                          *)
LEMMA WithNextKeeps ==
    ASSUME NEW n \in Nat, NEW lengths \in [1..n -> Nat], NEW k \in Nat \ {0}, NEW m \in Nat, m > 1,
           NEW H, Family(H, m, n, k), NEW even \in BOOLEAN, Sharing(H, n, k, even)
    PROVE  /\ Family(WithNext(lengths, H, Popped(lengths, H)), m - 1, n, k)
           /\ Sharing(WithNext(lengths, H, Popped(lengths, H)), n, k, even)
  <1> DEFINE s == Popped(lengths, H)
             G == H \ {s}
             t == Popped(lengths, G)
             u == Merge(lengths, s, t)
             F == G \ {t}
             W == F \cup {u}
  <1>1. s \in H
    BY PoppedIs
  <1>2. Family(G, m - 1, n, k)
    <2>1. IsFiniteSet(G) /\ Cardinality(G) = m - 1
      BY <1>1, FS_RemoveElement DEF Family
    <2> HIDE DEF s
    <2> QED
      BY <2>1 DEF Family
  <1>3. t \in G
    <2>1. m - 1 \in Nat \ {0}
      OBVIOUS
    <2> HIDE DEF G
    <2> QED
      BY <2>1, <1>2, PoppedIs
  <1>4. WithNext(lengths, H, s) = W
    <2>1. (H \ {s, t}) \cup {u} = W
      <3> HIDE DEF s, t, u
      <3> QED
        OBVIOUS
    <2> QED
      BY <2>1 DEF WithNext, Merged
  <1>5. IsFiniteSet(F) /\ Cardinality(F) = m - 2
    <2>1. IsFiniteSet(G) /\ Cardinality(G) = m - 1
      BY <1>2 DEF Family
    <2>2. IsFiniteSet(F) /\ Cardinality(F) = (m - 1) - 1
      <3> HIDE DEF G, t
      <3> QED
        BY <2>1, <1>3, FS_RemoveElement
    <2> QED
      BY <2>2
  <1> HIDE DEF t
  <1>6. t \in H /\ t # s /\ F \in SUBSET H /\ s \notin F /\ t \notin F /\ \A v \in H : v = s \/ v = t \/ v \in F
    BY <1>3
  <1> HIDE DEF s, G, F
  <1>7. State(s, n, k) /\ State(t, n, k) /\ \A x : ~(HasItem(s, k, x) /\ HasItem(t, k, x))
    BY <1>1, <1>6 DEF Family
  <1>8. /\ State(u, n, k)
        /\ \A x : HasItem(u, k, x) <=> HasItem(s, k, x) \/ HasItem(t, k, x)
        /\ Even(s, k) /\ Even(t, k) => Even(u, k)
    <2>1. k \in Nat /\ k > 0
      OBVIOUS
    <2> QED
      BY <2>1, <1>7, MergeKeeps
  <1> HIDE DEF u
  <1>9. ASSUME NEW v \in F, NEW x PROVE ~(HasItem(u, k, x) /\ HasItem(v, k, x))
    <2> SUFFICES ASSUME HasItem(u, k, x), HasItem(v, k, x) PROVE FALSE
      OBVIOUS
    <2>1. v \in H /\ (HasItem(s, k, x) \/ HasItem(t, k, x))
      BY <1>6, <1>8
    <2>2. v = s \/ v = t
      BY <2>1, <1>1, <1>6 DEF Family
    <2> QED
      BY <2>2, <1>6
  <1>10. u \notin F
    <2>1. HasItem(u, k, u[1][1])
      BY <1>8, StateHolds
    <2> QED
      BY <2>1, <1>9
  <1>11. IsFiniteSet(W) /\ Cardinality(W) = m - 1
    <2>1. IsFiniteSet(W) /\ Cardinality(W) = Cardinality(F) + 1
      BY <1>5, <1>10, FS_AddElement
    <2> QED
      BY <2>1, <1>5
  <1>12. Family(W, m - 1, n, k)
    <2>1. \A v \in W : State(v, n, k)
      BY <1>6, <1>8 DEF Family
    <2>2. ASSUME NEW v \in W, NEW w \in W, NEW x, HasItem(v, k, x), HasItem(w, k, x) PROVE v = w
      <3>1. CASE v \in F /\ w \in F
        BY <3>1, <2>2, <1>6 DEF Family
      <3>2. CASE v = u \/ w = u
        BY <3>2, <2>2, <1>9
      <3> QED
        BY <3>1, <3>2
    <2> QED
      BY <2>1, <2>2, <1>11 DEF Family
  <1>13. Sharing(W, n, k, even)
    <2>1. ASSUME NEW x \in 1..n PROVE \E v \in W : HasItem(v, k, x)
      <3>1. PICK v \in H : HasItem(v, k, x)
        BY DEF Sharing
      <3> QED
        BY <3>1, <1>6, <1>8
    <2>2. ASSUME even, NEW v \in W PROVE Even(v, k)
      BY <2>2, <1>1, <1>6, <1>8 DEF Sharing
    <2> QED
      BY <2>1, <2>2 DEF Sharing
  <1> QED
    BY <1>4, <1>12, <1>13 DEF s

(* What is left at the end is one state with all items.                    *)
LEMMA DifferencedIs ==
    ASSUME NEW n \in Nat, NEW lengths \in [1..n -> Nat], NEW k \in Nat \ {0}, NEW m \in Nat \ {0},
           NEW H, Family(H, m, n, k), NEW even \in BOOLEAN, Sharing(H, n, k, even)
    PROVE  /\ State(Differenced(lengths, H), n, k)
           /\ \A x \in 1..n : HasItem(Differenced(lengths, H), k, x)
           /\ even => Even(Differenced(lengths, H), k)
  <1> DEFINE W(G) == WithNext(lengths, G, Popped(lengths, G))
             c == m - 1
             Good(G, i) == Family(G, m - i, n, k) /\ Sharing(G, n, k, even)
             Steps(l) == l[0] = H /\ \A i \in Nat : i < c /\ Good(l[i], i) => l[i + 1] = W(l[i])
             V == SUBSET [1..k -> Seq(1..n)]
             h == [iv \in Nat \X V |-> IF W(iv[2]) \in V THEN W(iv[2]) ELSE iv[2]]
             E(l) == l = [i \in 0..c |-> IF i = 0 THEN H ELSE W(l[i - 1])]
             left == CHOOSE l : E(l)
  <1>1. c \in Nat /\ Cardinality(H) - 1 = c
    BY DEF Family
  <1>2. \A G, i : Good(G, i) => G \in V
    BY DEF Family, State
  <1>3. ASSUME NEW G, NEW i \in Nat, i < c, Good(G, i) PROVE Good(W(G), i + 1)
    <2>1. m - i \in Nat /\ m - i > 1 /\ (m - i) - 1 = m - (i + 1)
      BY <1>3
    <2> DEFINE a == m - i
    <2>2. a \in Nat /\ a > 1 /\ Family(G, a, n, k) /\ Sharing(G, n, k, even)
      BY <2>1, <1>3
    <2> HIDE DEF a
    <2>3. Family(W(G), a - 1, n, k) /\ Sharing(W(G), n, k, even)
      BY <2>2, WithNextKeeps
    <2>4. a - 1 = m - (i + 1)
      BY <2>1 DEF a
    <2> QED
      BY <2>3, <2>4
  <1>4. Good(H, 0)
    <2>1. m - 0 = m
      OBVIOUS
    <2> QED
      BY <2>1
  <1>s. \A l : Steps(l) <=> l[0] = H /\ \A i \in Nat : i < c /\ Good(l[i], i) => l[i + 1] = W(l[i])
    OBVIOUS
  <1>e. \A l : E(l) <=> l = [i \in 0..c |-> IF i = 0 THEN H ELSE W(l[i - 1])]
    OBVIOUS
  <1>d. Differenced(lengths, H) = CHOOSE s \in left[c] : TRUE
    BY <1>1 DEF Differenced
  <1>h. h \in [Nat \X V -> V] /\ \A i \in Nat, G \in V : W(G) \in V => h[<<i, G>>] = W(G)
    <2> HIDE DEF V, W
    <2> QED
      OBVIOUS
  <1>g. \A G : Good(G, c) => Family(G, 1, n, k) /\ Sharing(G, n, k, even)
    <2>1. m - c = 1
      OBVIOUS
    <2> QED
      BY <2>1
  <1>c. E(left) <=> \E l : E(l)
    OBVIOUS
  <1> HIDE DEF W, c, Good, Steps, V, h, E, left
  <1>5. ASSUME NEW l, Steps(l), NEW i \in Nat, i <= c PROVE Good(l[i], i)
    <2> DEFINE P == {j \in Nat : j <= c => Good(l[j], j)}
    <2>1. 0 \in P
      BY <1>4, <1>5, <1>s
    <2>2. ASSUME NEW j \in P PROVE j + 1 \in P
      <3> SUFFICES ASSUME j + 1 <= c PROVE Good(l[j + 1], j + 1)
        OBVIOUS
      <3>1. j \in Nat /\ j < c
        BY <1>1
      <3>2. Good(l[j], j)
        BY <3>1, <1>1
      <3>3. l[j + 1] = W(l[j])
        BY <3>1, <3>2, <1>5, <1>s
      <3> QED
        BY <3>1, <3>2, <3>3, <1>3
    <2>3. P = Nat
      <3>1. P \in SUBSET Nat
        OBVIOUS
      <3> HIDE DEF P
      <3> QED
        BY <3>1, <2>1, <2>2, Induction
    <2>4. i \in P
      BY <2>3
    <2> QED
      BY <2>4, <1>5
  <1>6. \E l : E(l)
    <2>1. H \in V
      BY <1>2, <1>4
    <2>2. PICK f : Recursive(f, V, H, h)
      BY <2>1, <1>h, Recursion
    <2>3. f[0] = H /\ \A i \in Nat : f[i] \in V /\ f[i + 1] = h[<<i, f[i]>>]
      BY <2>2 DEF Recursive
    <2>4. ASSUME NEW i \in Nat, i < c, Good(f[i], i) PROVE f[i + 1] = W(f[i])
      <3>1. W(f[i]) \in V
        BY <2>4, <1>2, <1>3
      <3> QED
        BY <3>1, <2>3, <1>h
    <2>5. Steps(f)
      BY <2>3, <2>4, <1>s
    <2> DEFINE l == [i \in 0..c |-> f[i]]
    <2>6. ASSUME NEW i \in 0..c PROVE l[i] = IF i = 0 THEN H ELSE W(l[i - 1])
      <3>1. CASE i = 0
        BY <3>1, <2>3
      <3>2. CASE i # 0
        <4>1. i - 1 \in Nat /\ i - 1 < c /\ i - 1 <= c /\ (i - 1) + 1 = i /\ i - 1 \in 0..c
          BY <3>2, <1>1
        <4>2. f[i] = W(f[i - 1])
          <5>1. Good(f[i - 1], i - 1)
            BY <4>1, <2>5, <1>5
          <5> QED
            BY <4>1, <5>1, <2>4
        <4>3. l[i] = f[i] /\ l[i - 1] = f[i - 1]
          BY <4>1
        <4> QED
          BY <3>2, <4>2, <4>3
      <3> QED
        BY <3>1, <3>2
    <2>7. l = [i \in 0..c |-> IF i = 0 THEN H ELSE W(l[i - 1])]
      <3>1. l = [i \in 0..c |-> l[i]]
        OBVIOUS
      <3> HIDE DEF l
      <3> QED
        BY <3>1, <2>6
    <2> HIDE DEF l
    <2> QED
      BY <2>7, <1>e
  <1>7. left = [i \in 0..c |-> IF i = 0 THEN H ELSE W(left[i - 1])]
    BY <1>6, <1>c, <1>e
  <1>8. Steps(left)
    <2>1. left[0] = H
      <3>1. 0 \in 0..c
        BY <1>1
      <3> QED
        BY <3>1, <1>7
    <2>2. ASSUME NEW i \in Nat, i < c PROVE left[i + 1] = W(left[i])
      <3>1. i + 1 \in 0..c /\ i + 1 # 0 /\ (i + 1) - 1 = i
        BY <2>2, <1>1
      <3> QED
        BY <3>1, <1>7
    <2> QED
      BY <2>1, <2>2, <1>s
  <1>9. Family(left[c], 1, n, k) /\ Sharing(left[c], n, k, even)
    <2>1. c <= c
      BY <1>1
    <2> QED
      BY <2>1, <1>1, <1>8, <1>5, <1>g
  <1>10. PICK s : left[c] = {s}
    BY <1>9, FS_Singleton DEF Family
  <1>11. Differenced(lengths, H) = s
    BY <1>d, <1>10
  <1> QED
    BY <1>9, <1>10, <1>11 DEF Family, Sharing

(* With at least as many items as sets no set has nothing.                 *)
LEMMA NoneEmpty ==
    ASSUME NEW n \in Nat, NEW k \in 1..n, NEW s, State(s, n, k), \A x \in 1..n : HasItem(s, k, x)
    PROVE  \A i \in 1..k : s[i] # <<>>
  <1> SUFFICES ASSUME NEW e \in 1..k, s[e] = <<>> PROVE FALSE
    OBVIOUS
  <1>1. s \in [1..k -> Seq(1..n)] /\ k \in 1..k
    BY DEF State
  <1>2. s[k] = <<>>
    <2>1. e = k \/ e < k
      OBVIOUS
    <2> QED
      BY <2>1, <1>1 DEF State
  <1>3. ASSUME NEW i \in 1..k PROVE Len(s[i]) \in Nat /\ Len(s[i]) <= 1 /\ (s[i] = <<>> => Len(s[i]) = 0)
    <2>1. s[i] \in Seq(1..n)
      BY <1>1
    <2>2. Len(s[i]) <= 1
      BY DEF State, Thin
    <2> QED
      BY <2>1, <2>2
  <1> DEFINE at(x) == CHOOSE i \in 1..k : \E a \in 1..Len(s[i]) : s[i][a] = x
             g == [x \in 1..n |-> at(x)]
  <1>4. ASSUME NEW x \in 1..n
        PROVE  g[x] \in 1..(k - 1) /\ s[g[x]][1] = x
    <2>1. \E i \in 1..k : \E a \in 1..Len(s[i]) : s[i][a] = x
      BY DEF HasItem
    <2>2. g[x] \in 1..k /\ \E a \in 1..Len(s[g[x]]) : s[g[x]][a] = x
      BY <2>1
    <2> DEFINE i == g[x]
    <2> HIDE DEF g
    <2>3. PICK a \in 1..Len(s[i]) : s[i][a] = x
      BY <2>2
    <2> HIDE DEF i
    <2>4. i \in 1..k /\ Len(s[i]) \in Nat /\ Len(s[i]) <= 1 /\ (s[i] = <<>> => Len(s[i]) = 0)
      <3>1. i \in 1..k
        BY <2>2 DEF i
      <3> QED
        BY <3>1, <1>3
    <2> DEFINE z == Len(s[i])
    <2>z. z = Len(s[i])
      OBVIOUS
    <2> HIDE DEF z
    <2>5. a = 1 /\ z # 0
      BY <2>3, <2>4, <2>z
    <2>6. i # k
      BY <2>4, <2>5, <2>z, <1>2
    <2>7. i \in 1..(k - 1)
      BY <2>4, <2>6
    <2> QED
      BY <2>3, <2>5, <2>7 DEF i
  <1>5. g = [x \in 1..n |-> g[x]]
    <2> HIDE DEF at
    <2> QED
      OBVIOUS
  <1> HIDE DEF g
  <1>6. g \in [1..n -> 1..(k - 1)]
    BY <1>4, <1>5
  <1>7. \A x, y \in 1..n : g[x] = g[y] => x = y
    BY <1>4
  <1>8. g \in Injection(1..n, 1..(k - 1))
    BY <1>6, <1>7 DEF Injection, IsInjective
  <1>9. IsFiniteSet(1..(k - 1)) /\ Cardinality(1..(k - 1)) = k - 1 /\ Cardinality(1..n) = n
    <2>1. 1 \in Int /\ k - 1 \in Int /\ n \in Int /\ k - 1 >= 0
      OBVIOUS
    <2>2. /\ IsFiniteSet(1..(k - 1))
          /\ Cardinality(1..(k - 1)) = IF 1 > k - 1 THEN 0 ELSE (k - 1) - 1 + 1
          /\ Cardinality(1..n) = IF 1 > n THEN 0 ELSE n - 1 + 1
      BY <2>1, FS_Interval
    <2> QED
      BY <2>1, <2>2
  <1>10. n <= k - 1
    <2>1. Cardinality(1..n) <= Cardinality(1..(k - 1))
      BY <1>8, <1>9, FS_Injection
    <2> QED
      BY <2>1, <1>9
  <1> QED
    BY <1>10

(* Sets that are equal in number have each their share of the items.       *)
LEMMA EvenShares ==
    ASSUME NEW n \in Nat, NEW k \in Nat \ {0}, NEW s, State(s, n, k), \A x \in 1..n : HasItem(s, k, x), Even(s, k)
    PROVE  \A i \in 1..k : Len(s[i]) * k = n
  <1> DEFINE c == Len(s[1])
             P == (1..k) \X (1..c)
             g == [p \in P |-> s[p[1]][p[2]]]
  <1>1. s \in [1..k -> Seq(1..n)] /\ 1 \in 1..k
    BY DEF State
  <1>2. c \in Nat /\ \A i \in 1..k : Len(s[i]) = c
    <2>1. s[1] \in Seq(1..n)
      BY <1>1
    <2> QED
      BY <2>1, <1>1 DEF Even
  <1> HIDE DEF c
  <1>3. ASSUME NEW i \in 1..k, NEW a \in 1..c PROVE s[i][a] \in 1..n
    <2> DEFINE z == s[i]
    <2>1. z \in Seq(1..n) /\ a \in 1..Len(z)
      BY <1>1, <1>2
    <2> HIDE DEF z
    <2>2. z[a] \in 1..n
      BY <2>1
    <2> QED
      BY <2>2 DEF z
  <1>4. g \in [P -> 1..n]
    BY <1>3
  <1>5. ASSUME NEW p \in P, NEW q \in P, g[p] = g[q] PROVE p = q
    <2>1. p = <<p[1], p[2]>> /\ q = <<q[1], q[2]>> /\ p[1] \in 1..k /\ q[1] \in 1..k /\ p[2] \in 1..c /\ q[2] \in 1..c
      OBVIOUS
    <2>2. s[p[1]][p[2]] = s[q[1]][q[2]] /\ p[2] \in 1..Len(s[p[1]]) /\ q[2] \in 1..Len(s[q[1]])
      BY <2>1, <1>2, <1>5
    <2> DEFINE i == p[1]
               a == p[2]
               j == q[1]
               b == q[2]
    <2>3. s[i][a] = s[j][b] /\ i \in 1..k /\ j \in 1..k /\ a \in 1..Len(s[i]) /\ b \in 1..Len(s[j])
      BY <2>1, <2>2
    <2>4. p = <<i, a>> /\ q = <<j, b>>
      BY <2>1
    <2> HIDE DEF i, j, a, b, P, g
    <2>5. i = j /\ a = b
      BY <2>3 DEF State, Apart
    <2> QED
      BY <2>4, <2>5
  <1>6. ASSUME NEW x \in 1..n PROVE \E p \in P : g[p] = x
    <2>1. PICK i \in 1..k : \E a \in 1..Len(s[i]) : s[i][a] = x
      BY DEF HasItem
    <2>2. PICK a \in 1..c : s[i][a] = x
      BY <2>1, <1>2
    <2>3. <<i, a>> \in P /\ g[<<i, a>>] = x
      BY <2>2
    <2> QED
      BY <2>3
  <1> HIDE DEF g
  <1>7. IsFiniteSet(P) /\ Cardinality(P) = k * c
    <2>1. IsFiniteSet(1..k) /\ IsFiniteSet(1..c) /\ Cardinality(1..k) = k /\ Cardinality(1..c) = c
      <3>1. 1 \in Int /\ k \in Int /\ c \in Int /\ c >= 0 /\ k >= 1
        BY <1>2
      <3>2. /\ IsFiniteSet(1..k) /\ IsFiniteSet(1..c)
            /\ Cardinality(1..k) = IF 1 > k THEN 0 ELSE k - 1 + 1
            /\ Cardinality(1..c) = IF 1 > c THEN 0 ELSE c - 1 + 1
        BY <3>1, FS_Interval
      <3> QED
        BY <3>1, <3>2
    <2>2. IsFiniteSet(P) /\ Cardinality(P) = Cardinality(1..k) * Cardinality(1..c)
      BY <2>1, FS_Product
    <2> QED
      BY <2>1, <2>2
  <1> HIDE DEF P
  <1>8. g \in Bijection(P, 1..n)
    BY <1>4, <1>5, <1>6 DEF Bijection, Injection, Surjection, IsInjective
  <1>9. Cardinality(1..n) = Cardinality(P)
    <2>1. ExistsBijection(P, 1..n)
      BY <1>8 DEF ExistsBijection
    <2> QED
      BY <2>1, <1>7, FS_Bijection
  <1>10. Cardinality(1..n) = n
    <2>1. 1 \in Int /\ n \in Int
      OBVIOUS
    <2>2. Cardinality(1..n) = IF 1 > n THEN 0 ELSE n - 1 + 1
      BY <2>1, FS_Interval
    <2> QED
      BY <2>2
  <1>11. c * k = n
    BY <1>2, <1>7, <1>9, <1>10
  <1> QED
    BY <1>2, <1>11

(* A quotient without a remainder.                                         *)
LEMMA ExactQuotient == ASSUME NEW a \in Int, NEW d \in Nat \ {0}, a % d = 0 PROVE a = d * (a \div d)
  OBVIOUS

\* x is in one of the c blocks of a size.
InBlock(size, c, x) ==
    \E y \in 0..(c - 1) : /\ y * size <= x /\ x < (y + 1) * size
                          /\ \A z \in Int : z * size <= x /\ x < (z + 1) * size => z = y

(* Every position is.                                                      *)
LEMMA BlockOf ==
    ASSUME NEW size \in Nat \ {0}, NEW c \in Nat, NEW x \in Nat, x < c * size
    PROVE  InBlock(size, c, x)
  <1>1. \E y \in 0..(c - 1) : /\ y * size <= x /\ x < (y + 1) * size
                              /\ \A z \in Int : z * size <= x /\ x < (z + 1) * size => z = y
    BY ChunkOfPosition
  <1> QED
    BY <1>1 DEF InBlock

\* The sets the states are opened with are apart and have all of the first n numbers.
Opens(order, n, k, size) ==
    /\ n \div size \in Nat \ {0}
    /\ \A o \in 1..(n \div size) :
          /\ Opening(order, k, size, o) \in [1..k -> Seq(1..n)]
          /\ Apart(Opening(order, k, size, o), k) /\ Thin(Opening(order, k, size, o), k)
          /\ Opening(order, k, size, o)[1] # <<>>
          /\ (size = k => Even(Opening(order, k, size, o), k))
    /\ \A o, u \in 1..(n \div size) : \A x :
          HasItem(Opening(order, k, size, o), k, x) /\ HasItem(Opening(order, k, size, u), k, x) => o = u
    /\ \A x \in 1..n : \E o \in 1..(n \div size) : HasItem(Opening(order, k, size, o), k, x)

(* The first states share all items, the shortest k in the first of them.  *)
LEMMA OpeningIs ==
    ASSUME NEW n \in Nat \ {0}, NEW k \in Nat \ {0}, NEW size \in {1, k}, n % size = 0,
           NEW order, Rearranges(order, n)
    PROVE  Opens(order, n, k, size)
  <1> DEFINE c == n \div size
             place(o, i) == (o - 1) * size + i
             Op(o) == Opening(order, k, size, o)
  <1>1. size \in Nat \ {0} /\ size <= k /\ k \in Nat
    OBVIOUS
  <1>2. c \in Nat \ {0} /\ c * size = n
    <2>1. c \in Int /\ size * c <= n /\ n < size * c + size
      BY <1>1, Division
    <2>2. size * c = n
      <3>1. n = size * (n \div size)
        BY <1>1, ExactQuotient
      <3> QED
        BY <3>1
    <2> HIDE DEF c
    <2>3. c > 0
      <3>1. CASE c <= 0
        <4>1. c * size <= 0 * size
          BY <3>1, <2>1, <1>1, ProductGrows
        <4> QED
          BY <4>1, <2>2, <2>1, <1>1
      <3> QED
        BY <3>1, <2>1
    <2> QED
      BY <2>1, <2>2, <2>3, <1>1
  <1> HIDE DEF c
  <1>3. ASSUME NEW o \in 1..c, NEW i \in 1..size PROVE place(o, i) \in 1..n
    <2>1. (o - 1) * size >= 0 /\ o * size <= n /\ (o - 1) * size \in Int
      <3>1. 0 * size <= (o - 1) * size /\ (o - 1) * size \in Int
        BY <1>1, ProductGrows
      <3>2. o * size <= c * size
        BY <1>1, <1>2, ProductGrows
      <3> QED
        BY <3>1, <3>2, <1>1, <1>2
    <2>2. (o - 1) * size = o * size - size
      BY <1>1
    <2> QED
      BY <2>1, <2>2, <1>1
  <1>4. ASSUME NEW o \in 1..c, NEW i \in 1..size, NEW u \in 1..c, NEW j \in 1..size, place(o, i) = place(u, j)
        PROVE  o = u /\ i = j
    <2> DEFINE x == place(o, i) - 1
               a == o - 1
               b == u - 1
    <2>1. x \in Nat /\ x < c * size
      BY <1>2, <1>3
    <2>2. a \in Int /\ b \in Int /\ (a + 1) * size = a * size + size /\ (b + 1) * size = b * size + size
      BY <1>1, NextProduct
    <2>3. a * size <= x /\ x < (a + 1) * size
      <3>1. a * size \in Int /\ x = a * size + i - 1
        BY <1>1
      <3> HIDE DEF x, a
      <3> QED
        BY <3>1, <2>2, <1>1
    <2>4. b * size <= x /\ x < (b + 1) * size
      <3>1. b * size \in Int /\ x = b * size + j - 1
        BY <1>1, <1>4
      <3> HIDE DEF x, b
      <3> QED
        BY <3>1, <2>2, <1>1
    <2> HIDE DEF x
    <2>5. a = b
      <3> HIDE DEF a, b
      <3>0. size \in Nat \ {0} /\ c \in Nat /\ x \in Nat /\ x < c * size
        BY <1>1, <1>2, <2>1
      <3>1. InBlock(size, c, x)
        BY <3>0, BlockOf
      <3> QED
        BY <3>1, <2>2, <2>3, <2>4 DEF InBlock
    <2>6. o = u
      BY <2>5
    <2>7. (o - 1) * size \in Int
      BY <1>1
    <2> QED
      BY <2>6, <2>7, <1>4
  <1>5. ASSUME NEW x \in 1..n PROVE \E o \in 1..c : \E i \in 1..size : place(o, i) = x
    <2> DEFINE w == x - 1
    <2>1. w \in Nat /\ w < c * size
      BY <1>2
    <2>2. PICK y \in 0..(c - 1) : y * size <= w /\ w < (y + 1) * size
      <3>0. size \in Nat \ {0} /\ c \in Nat /\ w \in Nat /\ w < c * size
        BY <1>1, <1>2, <2>1
      <3> HIDE DEF w
      <3>1. InBlock(size, c, w)
        BY <3>0, BlockOf
      <3> QED
        BY <3>1 DEF InBlock
    <2>3. (y + 1) * size = y * size + size /\ y * size \in Int
      BY <1>1, NextProduct
    <2>4. y + 1 \in 1..c /\ (y + 1) - 1 = y
      BY <1>2
    <2>5. x - y * size \in 1..size
      BY <2>2, <2>3, <1>1
    <2>6. place(y + 1, x - y * size) = x
      BY <2>3, <2>4
    <2> HIDE DEF place
    <2> QED
      BY <2>4, <2>5, <2>6
  <1>o. order \in [1..n -> 1..n] /\ (\A i, j \in 1..n : order[i] = order[j] => i = j) /\ \A j \in 1..n : \E i \in 1..n : order[i] = j
    BY DEF Rearranges
  <1>p. \A o : Op(o) = [i \in 1..k |-> IF i <= size THEN <<order[place(o, i)]>> ELSE <<>>]
    BY DEF Opening
  <1> HIDE DEF place, Op
  <1>6. ASSUME NEW o \in 1..c, NEW i \in 1..k
        PROVE  /\ i \in 1..size => /\ Op(o)[i] = <<order[place(o, i)]>> /\ Len(Op(o)[i]) = 1
                                   /\ Op(o)[i][1] = order[place(o, i)] /\ order[place(o, i)] \in 1..n
               /\ ~(i \in 1..size) => Op(o)[i] = <<>> /\ Len(Op(o)[i]) = 0
               /\ Op(o)[i] \in Seq(1..n) /\ Len(Op(o)[i]) <= 1
    <2>1. CASE i \in 1..size
      <3>1. order[place(o, i)] \in 1..n
        BY <1>o, <1>3, <2>1
      <3>2. Op(o)[i] = <<order[place(o, i)]>>
        BY <1>p, <2>1, <1>1
      <3> QED
        BY <2>1, <3>1, <3>2
    <2>2. CASE ~(i \in 1..size)
      <3>1. Op(o)[i] = <<>>
        BY <1>p, <2>2, <1>1
      <3> QED
        BY <2>2, <3>1
    <2> QED
      BY <2>1, <2>2
  <1>7. ASSUME NEW o \in 1..c, NEW x
        PROVE  HasItem(Op(o), k, x) <=> \E i \in 1..size : order[place(o, i)] = x
    <2>1. ASSUME HasItem(Op(o), k, x) PROVE \E i \in 1..size : order[place(o, i)] = x
      <3>1. PICK i \in 1..k : \E a \in 1..Len(Op(o)[i]) : Op(o)[i][a] = x
        BY <2>1 DEF HasItem
      <3>2. PICK a \in 1..Len(Op(o)[i]) : Op(o)[i][a] = x
        BY <3>1
      <3>3. CASE i \in 1..size
        <4>1. Len(Op(o)[i]) = 1 /\ Op(o)[i][1] = order[place(o, i)]
          BY <3>3, <1>6
        <4>2. a = 1
          BY <3>2, <4>1
        <4> QED
          BY <3>2, <3>3, <4>1, <4>2
      <3>4. CASE ~(i \in 1..size)
        <4>1. Len(Op(o)[i]) = 0
          BY <3>4, <1>6
        <4> QED
          BY <3>2, <4>1
      <3> QED
        BY <3>3, <3>4
    <2>2. ASSUME NEW i \in 1..size, order[place(o, i)] = x PROVE HasItem(Op(o), k, x)
      <3>1. i \in 1..k
        BY <1>1
      <3>2. 1 \in 1..Len(Op(o)[i]) /\ Op(o)[i][1] = x
        BY <3>1, <2>2, <1>6
      <3> QED
        BY <3>1, <3>2 DEF HasItem
    <2> QED
      BY <2>1, <2>2
  <1>8. ASSUME NEW o \in 1..c
        PROVE  /\ Op(o) \in [1..k -> Seq(1..n)] /\ Apart(Op(o), k) /\ Thin(Op(o), k)
               /\ Op(o)[1] # <<>> /\ (size = k => Even(Op(o), k))
    <2>1. Op(o) \in [1..k -> Seq(1..n)]
      <3>1. Op(o) = [i \in 1..k |-> Op(o)[i]]
        BY <1>p
      <3>2. \A i \in 1..k : Op(o)[i] \in Seq(1..n)
        BY <1>6
      <3> QED
        BY <3>1, <3>2
    <2>2. Apart(Op(o), k)
      <3> SUFFICES ASSUME NEW i \in 1..k, NEW j \in 1..k, NEW a \in 1..Len(Op(o)[i]), NEW b \in 1..Len(Op(o)[j]),
                          Op(o)[i][a] = Op(o)[j][b]
                   PROVE  i = j /\ a = b
        BY DEF Apart
      <3>1. i \in 1..size /\ Len(Op(o)[i]) = 1 /\ Op(o)[i][1] = order[place(o, i)]
        <4>1. CASE ~(i \in 1..size)
          <5>1. Len(Op(o)[i]) = 0
            BY <4>1, <1>6
          <5> QED
            BY <5>1
        <4> QED
          BY <4>1, <1>6
      <3>2. j \in 1..size /\ Len(Op(o)[j]) = 1 /\ Op(o)[j][1] = order[place(o, j)]
        <4>1. CASE ~(j \in 1..size)
          <5>1. Len(Op(o)[j]) = 0
            BY <4>1, <1>6
          <5> QED
            BY <5>1
        <4> QED
          BY <4>1, <1>6
      <3>3. a = 1 /\ b = 1
        BY <3>1, <3>2
      <3>4. order[place(o, i)] = order[place(o, j)] /\ place(o, i) \in 1..n /\ place(o, j) \in 1..n
        BY <3>1, <3>2, <3>3, <1>3
      <3>5. place(o, i) = place(o, j)
        BY <3>4, <1>o
      <3> QED
        BY <3>1, <3>2, <3>3, <3>5, <1>4
    <2>3. Thin(Op(o), k)
      BY <1>6 DEF Thin
    <2>4. Op(o)[1] # <<>>
      <3>1. 1 \in 1..k /\ 1 \in 1..size
        BY <1>1
      <3>2. Op(o)[1] = <<order[place(o, 1)]>>
        BY ZenonT(30), <3>1, <1>6
      <3> QED
        BY <3>2
    <2>5. size = k => Even(Op(o), k)
      BY ZenonT(30), <1>6 DEF Even
    <2> QED
      BY <2>1, <2>2, <2>3, <2>4, <2>5
  <1>9. ASSUME NEW o \in 1..c, NEW u \in 1..c, NEW x, HasItem(Op(o), k, x), HasItem(Op(u), k, x) PROVE o = u
    <2>1. PICK i \in 1..size : order[place(o, i)] = x
      BY <1>7, <1>9
    <2>2. PICK j \in 1..size : order[place(u, j)] = x
      BY <1>7, <1>9
    <2>3. place(o, i) \in 1..n /\ place(u, j) \in 1..n
      BY <1>3
    <2>4. place(o, i) = place(u, j)
      BY <2>1, <2>2, <2>3, <1>o
    <2> QED
      BY <2>4, <1>4
  <1>10. ASSUME NEW x \in 1..n PROVE \E o \in 1..c : HasItem(Op(o), k, x)
    <2>1. PICK y \in 1..n : order[y] = x
      BY <1>o
    <2>2. PICK o \in 1..c : \E i \in 1..size : place(o, i) = y
      BY <1>5
    <2>3. HasItem(Op(o), k, x)
      BY <2>1, <2>2, <1>7
    <2> QED
      BY <2>3
  <1> QED
    BY <1>2, <1>8, <1>9, <1>10 DEF c, Op, Opens

(* The order of the numbers is one of the places of an injective sequence. *)
LEMMA Ascends ==
    ASSUME NEW m \in Nat, NEW n \in Nat, NEW z \in [1..m -> 1..n], \A i, j \in 1..m : z[i] = z[j] => i = j
    PROVE  \E p : /\ Rearranges(p, m)
                  /\ Arranged(z, {q \in PlacePairs(z) : z[q[1]] < z[q[2]]}) = [i \in 1..m |-> z[p[i]]]
                  /\ \A i, j \in 1..m : i < j => z[p[i]] < z[p[j]]
  <1> DEFINE B == {q \in PlacePairs(z) : z[q[1]] < z[q[2]]}
  <1>1. DOMAIN z = 1..m /\ \A i \in 1..m : z[i] \in Int
    OBVIOUS
  <1>2. \A i, j \in 1..m : <<i, j>> \in B <=> z[i] < z[j]
    BY <1>1 DEF PlacePairs
  <1> HIDE DEF B
  <1>3. StrictOrder(B, m)
    <2>1. \A i \in 1..m : <<i, i>> \notin B
      BY <1>1, <1>2
    <2>2. \A i, j \in 1..m : i # j => <<i, j>> \in B \/ <<j, i>> \in B
      BY <1>1, <1>2
    <2>3. \A i, j, l \in 1..m : <<i, j>> \in B /\ <<j, l>> \in B => <<i, l>> \in B
      BY <1>1, <1>2
    <2> QED
      BY <2>1, <2>2, <2>3 DEF StrictOrder
  <1>4. \E p : /\ Rearranges(p, m) /\ Arranged(z, B) = [i \in 1..m |-> z[p[i]]]
               /\ \A i, j \in 1..m : i < j => <<p[i], p[j]>> \in B
    BY <1>1, <1>3, Arranging
  <1>5. PICK p : /\ Rearranges(p, m) /\ Arranged(z, B) = [i \in 1..m |-> z[p[i]]]
                 /\ \A i, j \in 1..m : i < j => <<p[i], p[j]>> \in B
    BY <1>4
  <1>6. \A i, j \in 1..m : i < j => z[p[i]] < z[p[j]]
    <2>1. \A i \in 1..m : p[i] \in 1..m
      BY <1>5 DEF Rearranges
    <2> QED
      BY <2>1, <1>2, <1>5
  <1> QED
    BY <1>5, <1>6 DEF B

(* The parts in order: each as long as before, increasing, of the same     *)
(* items.                                                                  *)
LEMMA InOrderIs ==
    ASSUME NEW n \in Nat, NEW k \in Nat, NEW s \in [1..k -> Seq(1..n)], Apart(s, k)
    PROVE  /\ InOrder(s) \in [1..k -> Seq(1..n)] /\ Apart(InOrder(s), k)
           /\ \A x : HasItem(s, k, x) => HasItem(InOrder(s), k, x)
           /\ \A i \in 1..k : Len(InOrder(s)[i]) = Len(s[i])
           /\ \A i \in 1..k : \A a, b \in 1..Len(s[i]) : a < b => InOrder(s)[i][a] < InOrder(s)[i][b]
  <1> DEFINE r == InOrder(s)
             B(z) == {q \in PlacePairs(z) : z[q[1]] < z[q[2]]}
             Is(i, p) == /\ Rearranges(p, Len(s[i]))
                         /\ r[i] = [a \in 1..Len(s[i]) |-> s[i][p[a]]]
                         /\ \A a, b \in 1..Len(s[i]) : a < b => s[i][p[a]] < s[i][p[b]]
  <1>1. DOMAIN s = 1..k /\ r = [i \in 1..k |-> Arranged(s[i], B(s[i]))]
    BY DEF InOrder
  <1>2. ASSUME NEW i \in 1..k PROVE \E p : Is(i, p)
    <2> DEFINE z == s[i]
               m == Len(z)
    <2>1. z \in Seq(1..n)
      OBVIOUS
    <2>2. m \in Nat /\ z \in [1..m -> 1..n]
      BY <2>1
    <2>3. \A a, b \in 1..m : z[a] = z[b] => a = b
      BY DEF Apart
    <2>4. r[i] = Arranged(z, B(z))
      BY <1>1
    <2> HIDE DEF z, m, r
    <2>5. \E p : /\ Rearranges(p, m) /\ Arranged(z, B(z)) = [a \in 1..m |-> z[p[a]]]
                 /\ \A a, b \in 1..m : a < b => z[p[a]] < z[p[b]]
      BY <2>2, <2>3, Ascends
    <2>6. \E p : /\ Rearranges(p, m) /\ r[i] = [a \in 1..m |-> z[p[a]]]
                 /\ \A a, b \in 1..m : a < b => z[p[a]] < z[p[b]]
      BY <2>4, <2>5
    <2> QED
      BY <2>6 DEF z, m
  <1> DEFINE q(i) == CHOOSE p : Is(i, p)
  <1>3. \A i \in 1..k : Is(i, q(i))
    <2> HIDE DEF Is
    <2> QED
      BY <1>2
  <1> DEFINE ls(i) == Len(s[i])
             lr(i) == Len(r[i])
  <1> HIDE DEF q
  <1>4. ASSUME NEW i \in 1..k
        PROVE  /\ ls(i) \in Nat /\ lr(i) = ls(i) /\ r[i] \in Seq(1..n)
               /\ \A a \in 1..ls(i) : q(i)[a] \in 1..ls(i) /\ r[i][a] = s[i][q(i)[a]]
               /\ \A a, b \in 1..ls(i) : q(i)[a] = q(i)[b] => a = b
               /\ \A a \in 1..ls(i) : \E b \in 1..ls(i) : q(i)[b] = a
               /\ \A a, b \in 1..ls(i) : a < b => r[i][a] < r[i][b]
    <2> DEFINE z == s[i]
               m == Len(z)
               p == q(i)
               y == r[i]
    <2>1. z \in Seq(1..n)
      OBVIOUS
    <2>2. m \in Nat /\ z \in [1..m -> 1..n]
      BY <2>1
    <2>3. /\ Rearranges(p, m) /\ y = [a \in 1..m |-> z[p[a]]]
          /\ \A a, b \in 1..m : a < b => z[p[a]] < z[p[b]]
      BY <1>3
    <2>m. m = ls(i) /\ lr(i) = Len(y)
      OBVIOUS
    <2> HIDE DEF z, m, p, y, r, ls, lr
    <2>4. \A a \in 1..m : p[a] \in 1..m /\ z[p[a]] \in 1..n
      BY <2>2, <2>3 DEF Rearranges
    <2>5. y \in Seq(1..n) /\ Len(y) = m
      <3>1. y \in [1..m -> 1..n]
        BY <2>3, <2>4
      <3>2. y \in Seq(1..n)
        BY <2>2, <3>1
      <3>3. DOMAIN y = 1..m
        BY <3>1
      <3> QED
        BY <3>2, <3>3, <2>2, LenProperties
    <2>6. \A a \in 1..m : y[a] = z[p[a]]
      BY <2>3
    <2>7. /\ \A a, b \in 1..m : p[a] = p[b] => a = b
          /\ \A a \in 1..m : \E b \in 1..m : p[b] = a
          /\ \A a, b \in 1..m : a < b => y[a] < y[b]
      BY <2>3, <2>6 DEF Rearranges
    <2> QED
      BY <2>2, <2>4, <2>5, <2>6, <2>7, <2>m DEF z, p, y
  <1>5. r \in [1..k -> Seq(1..n)]
    <2>1. r = [i \in 1..k |-> r[i]]
      <3> HIDE DEF B
      <3> QED
        BY <1>1
    <2> HIDE DEF r
    <2> QED
      BY <2>1, <1>4
  <1>s. \A i, j \in 1..k : \A a \in 1..ls(i) : \A b \in 1..ls(j) : s[i][a] = s[j][b] => i = j /\ a = b
    BY DEF Apart
  <1>r. Apart(r, k) <=> \A i, j \in 1..k : \A a \in 1..lr(i) : \A b \in 1..lr(j) : r[i][a] = r[j][b] => i = j /\ a = b
    BY DEF Apart
  <1>h. \A x : /\ HasItem(s, k, x) <=> \E i \in 1..k : \E a \in 1..ls(i) : s[i][a] = x
               /\ HasItem(r, k, x) <=> \E i \in 1..k : \E a \in 1..lr(i) : r[i][a] = x
    BY DEF HasItem
  <1>e. \A i \in 1..k : ls(i) = Len(s[i]) /\ lr(i) = Len(r[i])
    OBVIOUS
  <1> HIDE DEF r, ls, lr, Is, B
  <1>6. Apart(r, k)
    <2> SUFFICES ASSUME NEW i \in 1..k, NEW j \in 1..k, NEW a \in 1..lr(i), NEW b \in 1..lr(j), r[i][a] = r[j][b]
                 PROVE  i = j /\ a = b
      BY <1>r
    <2> DEFINE c == q(i)[a]
               d == q(j)[b]
    <2>0. a \in 1..ls(i) /\ b \in 1..ls(j)
      BY <1>4
    <2>1. c \in 1..ls(i) /\ d \in 1..ls(j) /\ s[i][c] = s[j][d]
      BY <2>0, <1>4
    <2>2. i = j /\ c = d => a = b
      BY <2>0, <1>4
    <2> HIDE DEF c, d
    <2>3. i = j /\ c = d
      BY <2>1, <1>s
    <2> QED
      BY <2>2, <2>3
  <1>7. ASSUME NEW x, HasItem(s, k, x) PROVE HasItem(r, k, x)
    <2>1. PICK i \in 1..k : \E a \in 1..ls(i) : s[i][a] = x
      BY <1>7, <1>h
    <2>2. PICK a \in 1..ls(i) : s[i][a] = x
      BY <2>1
    <2>3. PICK b \in 1..ls(i) : q(i)[b] = a
      BY <1>4
    <2>4. b \in 1..lr(i) /\ r[i][b] = x
      BY <2>2, <2>3, <1>4
    <2> QED
      BY <2>4, <1>h
  <1> QED
    BY <1>4, <1>5, <1>6, <1>7, <1>e DEF r

(***************************************************************************)
(* get_seqlen_balanced_partitions (utils/seqlen_balancing.py) deals every  *)
(* sample to one of the parts, none of which is empty, each in the order   *)
(* of the samples; when they are to be equal in number each has its share. *)
(* The assertions of the function hold for all lengths: "number of items"  *)
(* and the divisibility are what it asks of its callers.                   *)
(***************************************************************************)
THEOREM PartitionsShareOut ==
    ASSUME NEW lengths \in Seq(Nat), NEW k \in 1..Len(lengths), NEW equal_size \in BOOLEAN,
           equal_size => Len(lengths) % k = 0
    PROVE  LET parts == get_seqlen_balanced_partitions(lengths, k, equal_size)
           IN  /\ parts \in [1..k -> Seq(1..Len(lengths))]
               /\ \A i \in 1..k : /\ parts[i] # <<>>
                                  /\ \A a, b \in 1..Len(parts[i]) : a < b => parts[i][a] < parts[i][b]
                                  /\ equal_size => Len(parts[i]) * k = Len(lengths)
               /\ \A x \in 1..Len(lengths) : \E i \in 1..k : \E a \in 1..Len(parts[i]) : parts[i][a] = x
               /\ \A i, j \in 1..k : \A a \in 1..Len(parts[i]) : \A b \in 1..Len(parts[j]) :
                     parts[i][a] = parts[j][b] => i = j /\ a = b
  <1> DEFINE n == Len(lengths)
             size == IF equal_size THEN k ELSE 1
             Op(o) == Opening(Shortest(lengths), k, size, o)
             O == 1..(n \div size)
             H == {Decreasing(lengths, Op(o)) : o \in O}
             s == karmarkar_karp(lengths, k, equal_size)
             r == InOrder(s)
             order == Shortest(lengths)
  <1>1. /\ n \in Nat \ {0} /\ k \in Nat \ {0} /\ lengths \in [1..n -> Nat] /\ lengths \in [1..n -> Int]
        /\ size \in {1, k} /\ (equal_size => size = k)
    <2>1. n \in Nat /\ lengths \in [1..n -> Nat]
      OBVIOUS
    <2>2. k \in 1..n
      OBVIOUS
    <2> HIDE DEF n
    <2> QED
      BY <2>1, <2>2
  <1>k. k \in 1..n /\ (equal_size => n % k = 0)
    OBVIOUS
  <1>2. s = Differenced(lengths, H)
    BY DEF karmarkar_karp
  <1>p. get_seqlen_balanced_partitions(lengths, k, equal_size) = r
    BY DEF get_seqlen_balanced_partitions
  <1>z. n % size = 0
    <2>1. n % 1 = 0
      BY <1>1
    <2> QED
      BY <2>1, <1>k
  <1> HIDE DEF n, size
  <1>3. Rearranges(order, n)
    BY <1>1, ShortestIs
  <1>d. \A o : Op(o) = Opening(order, k, size, o)
    OBVIOUS
  <1> HIDE DEF order, Op
  <1>4. /\ n \div size \in Nat \ {0}
        /\ \A o \in O : /\ Op(o) \in [1..k -> Seq(1..n)] /\ Apart(Op(o), k) /\ Thin(Op(o), k)
                        /\ Op(o)[1] # <<>> /\ (size = k => Even(Op(o), k))
        /\ \A o, u \in O : \A x : HasItem(Op(o), k, x) /\ HasItem(Op(u), k, x) => o = u
        /\ \A x \in 1..n : \E o \in O : HasItem(Op(o), k, x)
    <2>1. Opens(order, n, k, size)
      <3> HIDE DEF O
      <3> QED
        BY <1>1, <1>3, <1>z, OpeningIs
    <2> QED
      BY <2>1, <1>d DEF Opens
  <1>o. IsFiniteSet(O) /\ 1 \in O
    <2>1. 1 \in Int /\ n \div size \in Int /\ n \div size >= 1
      BY <1>4
    <2> QED
      BY <2>1, FS_Interval
  <1> HIDE DEF O
  <1> DEFINE D(o) == Decreasing(lengths, Op(o))
  <1>5. ASSUME NEW o \in O
        PROVE  State(D(o), n, k) /\ (\A x : HasItem(D(o), k, x) <=> HasItem(Op(o), k, x)) /\ (equal_size => Even(D(o), k))
    <2>1. n \in Nat /\ k \in Nat /\ \E i \in 1..k : Op(o)[i] # <<>>
      <3>1. 1 \in 1..k
        BY <1>1
      <3> QED
        BY <3>1, <1>1, <1>4
    <2>2. /\ State(D(o), n, k) /\ (\A x : HasItem(D(o), k, x) <=> HasItem(Op(o), k, x))
          /\ Even(Op(o), k) => Even(D(o), k)
      BY <2>1, <1>1, <1>4, DecreasingKeeps
    <2> QED
      BY <2>2, <1>1, <1>4
  <1>6. H = {D(o) : o \in O}
    OBVIOUS
  <1> HIDE DEF D, H
  <1>7. IsFiniteSet(H)
    <2> DEFINE g == [o \in O |-> D(o)]
    <2>1. g \in Surjection(O, H)
      BY <1>6 DEF Surjection
    <2> HIDE DEF g
    <2> QED
      BY <2>1, <1>o, FS_Surjection
  <1>8. Cardinality(H) \in Nat \ {0}
    <2>1. H # {}
      BY <1>6, <1>o
    <2> QED
      BY <2>1, <1>7, FS_CardinalityType, FS_EmptySet
  <1>9. Family(H, Cardinality(H), n, k)
    <2>1. \A t \in H : State(t, n, k)
      BY <1>5, <1>6
    <2>2. ASSUME NEW t \in H, NEW u \in H, NEW x, HasItem(t, k, x), HasItem(u, k, x) PROVE t = u
      <3>1. PICK o \in O : t = D(o)
        BY <1>6
      <3>2. PICK v \in O : u = D(v)
        BY <1>6
      <3>3. o = v
        BY <2>2, <3>1, <3>2, <1>4, <1>5
      <3> QED
        BY <3>1, <3>2, <3>3
    <2> QED
      BY <2>1, <2>2, <1>7 DEF Family
  <1>10. Sharing(H, n, k, equal_size)
    <2>1. ASSUME NEW x \in 1..n PROVE \E t \in H : HasItem(t, k, x)
      <3>1. PICK o \in O : HasItem(Op(o), k, x)
        BY <1>4
      <3>2. D(o) \in H /\ HasItem(D(o), k, x)
        BY <3>1, <1>5, <1>6
      <3> QED
        BY <3>2
    <2>2. equal_size => \A t \in H : Even(t, k)
      BY <1>5, <1>6
    <2> QED
      BY <2>1, <2>2 DEF Sharing
  <1>11. State(s, n, k) /\ (\A x \in 1..n : HasItem(s, k, x)) /\ (equal_size => Even(s, k))
    <2>1. n \in Nat
      BY <1>1
    <2> HIDE DEF s
    <2> QED
      BY <2>1, <1>1, <1>2, <1>8, <1>9, <1>10, DifferencedIs
  <1> HIDE DEF s
  <1>12. \A i \in 1..k : s[i] # <<>>
    <2>1. n \in Nat
      BY <1>1
    <2> QED
      BY <2>1, <1>k, <1>11, NoneEmpty
  <1>13. equal_size => \A i \in 1..k : Len(s[i]) * k = n
    <2>1. n \in Nat
      BY <1>1
    <2> QED
      BY <2>1, <1>1, <1>11, EvenShares
  <1>14. /\ r \in [1..k -> Seq(1..n)] /\ Apart(r, k)
         /\ \A x : HasItem(s, k, x) => HasItem(r, k, x)
         /\ \A i \in 1..k : Len(r[i]) = Len(s[i])
         /\ \A i \in 1..k : \A a, b \in 1..Len(s[i]) : a < b => r[i][a] < r[i][b]
    <2>1. n \in Nat /\ k \in Nat /\ s \in [1..k -> Seq(1..n)] /\ Apart(s, k)
      BY <1>1, <1>11 DEF State
    <2> QED
      BY <2>1, InOrderIs
  <1> HIDE DEF r
  <1>15. ASSUME NEW i \in 1..k PROVE r[i] # <<>>
    <2>1. s[i] \in Seq(1..n) /\ s[i] # <<>> /\ Len(r[i]) = Len(s[i])
      BY <1>11, <1>12, <1>14 DEF State
    <2>2. Len(s[i]) # 0
      BY <2>1
    <2> QED
      BY <2>1, <2>2
  <1>16. \A x \in 1..n : \E i \in 1..k : \E a \in 1..Len(r[i]) : r[i][a] = x
    BY <1>11, <1>14 DEF HasItem
  <1>17. \A i, j \in 1..k : \A a \in 1..Len(r[i]) : \A b \in 1..Len(r[j]) : r[i][a] = r[j][b] => i = j /\ a = b
    BY <1>14 DEF Apart
  <1>18. \A i \in 1..k : /\ r[i] # <<>> /\ \A a, b \in 1..Len(r[i]) : a < b => r[i][a] < r[i][b]
                         /\ equal_size => Len(r[i]) * k = n
    BY <1>13, <1>14, <1>15
  <1> QED
    <2>1. LET parts == get_seqlen_balanced_partitions(lengths, k, equal_size)
          IN  parts = r
      BY <1>p
    <2> QED
      BY <2>1, <1>14, <1>16, <1>17, <1>18 DEF n

\* The function that first fit is defined by.
Fills(it, lengths, limit) ==
    it = [t \in SUBSET DOMAIN lengths |->
            IF t = {} THEN <<>> ELSE Placed(it[t \ {Max(t)}], lengths[Max(t)], limit)]

(* A length is placed in a batch of its own or in one there is.            *)
LEMMA PlacedIs ==
    ASSUME NEW batches \in Seq(Nat), NEW length \in Nat, NEW limit \in Int
    PROVE  /\ Placed(batches, length, limit) \in Seq(Nat)
           /\ Len(Placed(batches, length, limit)) \in 1..(Len(batches) + 1)
  <1> DEFINE fits == {i \in DOMAIN batches : batches[i] + length <= limit}
  <1>1. CASE fits = {}
    <2>1. Placed(batches, length, limit) = Append(batches, length)
      BY <1>1 DEF Placed
    <2> QED
      BY <2>1
  <1>2. CASE fits # {}
    <2>1. DOMAIN batches = 1..Len(batches) /\ Len(batches) \in Nat
      OBVIOUS
    <2>2. Min(fits) \in fits
      <3>1. fits \in SUBSET Nat
        BY <2>1
      <3> HIDE DEF fits
      <3> QED
        BY <3>1, <1>2, LeastIn
    <2>3. Placed(batches, length, limit) = [batches EXCEPT ![Min(fits)] = batches[Min(fits)] + length]
      BY <1>2 DEF Placed
    <2> DEFINE m == Min(fits)
    <2>4. m \in 1..Len(batches)
      BY <2>1, <2>2
    <2> HIDE DEF m, fits
    <2>5. batches[m] + length \in Nat
      BY <2>4
    <2>6. [batches EXCEPT ![m] = batches[m] + length] \in Seq(Nat)
      BY <2>4, <2>5
    <2>7. Len([batches EXCEPT ![m] = batches[m] + length]) = Len(batches)
      BY <2>4, <2>5
    <2>8. Len(batches) \in 1..(Len(batches) + 1)
      BY <2>1, <2>4
    <2> QED
      BY <2>3, <2>6, <2>7, <2>8 DEF m
  <1> QED
    BY <1>1, <1>2

(* There is such a function, of sequences of sums.                         *)
LEMMA FillsExist ==
    ASSUME NEW lengths \in Seq(Nat), NEW limit \in Int
    PROVE  \E it : Fills(it, lengths, limit)
  <1> DEFINE n == Len(lengths)
             V == Seq(Nat)
             h == [iv \in (1..n) \X V |-> Placed(iv[2], lengths[iv[1]], limit)]
  <1>1. n \in Nat /\ DOMAIN lengths = 1..n /\ \A i \in 1..n : lengths[i] \in Nat
    OBVIOUS
  <1> HIDE DEF n
  <1>2. h \in [(1..n) \X V -> V] /\ \A i \in 1..n, b \in V : h[<<i, b>>] = Placed(b, lengths[i], limit)
    <2>1. ASSUME NEW iv \in (1..n) \X V PROVE Placed(iv[2], lengths[iv[1]], limit) \in V
      <3>1. iv[2] \in V /\ lengths[iv[1]] \in Nat
        BY <1>1
      <3> QED
        BY <3>1, PlacedIs
    <2> HIDE DEF V
    <2> QED
      BY <2>1
  <1>3. <<>> \in V
    OBVIOUS
  <1> HIDE DEF h, V
  <1>4. PICK it : FoldsLeft(it, n, V, <<>>, h)
    BY <1>1, <1>2, <1>3, FoldLeftExists
  <1>5. ASSUME NEW t \in SUBSET (1..n), t # {} PROVE it[t] = Placed(it[t \ {Max(t)}], lengths[Max(t)], limit)
    <2>1. Max(t) \in 1..n
      <3>1. Max(t) \in t
        BY <1>1, <1>5, LargestIn
      <3> QED
        BY <3>1
    <2>2. it[t \ {Max(t)}] \in V
      BY <1>4 DEF FoldsLeft
    <2>3. it[t] = h[<<Max(t), it[t \ {Max(t)}]>>]
      BY <1>4, <1>5 DEF FoldsLeft
    <2> QED
      BY <2>1, <2>2, <2>3, <1>2
  <1>6. it = [t \in SUBSET DOMAIN lengths |-> it[t]] /\ it[{}] = <<>>
    BY <1>1, <1>4 DEF FoldsLeft
  <1> QED
    BY <1>1, <1>5, <1>6 DEF Fills

(***************************************************************************)
(* First fit (get_minimum_num_micro_batch_size in utils/data.py) asks for  *)
(* at least one micro batch and for no more of them than there are         *)
(* samples, so that the partitions above have a sample for each: the       *)
(* assertion on the "number of items" holds for the numbers the steps ask  *)
(* for.                                                                    *)
(***************************************************************************)
THEOREM FirstFitIsServed ==
    ASSUME NEW lengths \in Seq(Nat), lengths # <<>>, NEW limit \in Int
    PROVE  get_minimum_num_micro_batch_size(lengths, limit) \in 1..Len(lengths)
  <1> DEFINE n == Len(lengths)
             jt == CHOOSE it : Fills(it, lengths, limit)
             f == [i \in 0..n |-> jt[1..i]]
             P == {i \in Nat : i \in 0..n => f[i] \in Seq(Nat) /\ Len(f[i]) <= i /\ (i > 0 => Len(f[i]) >= 1)}
  <1>1. n \in Nat /\ n > 0 /\ DOMAIN lengths = 1..n /\ \A i \in 1..n : lengths[i] \in Nat
    OBVIOUS
  <1>2. Fills(jt, lengths, limit)
    BY FillsExist
  <1>3. get_minimum_num_micro_batch_size(lengths, limit) = Len(jt[DOMAIN lengths])
    BY DEF get_minimum_num_micro_batch_size, FoldLeft, MapThenFoldSet, Fills
  <1> HIDE DEF jt, n
  <1>4. f[0] = <<>> /\ f[n] = jt[DOMAIN lengths]
    <2>1. 1..0 = {} /\ 1..0 \in SUBSET DOMAIN lengths /\ 0 \in 0..n /\ n \in 0..n
      BY <1>1
    <2> QED
      BY <1>1, <1>2, <2>1 DEF Fills
  <1>5. ASSUME NEW i \in 1..n PROVE f[i] = Placed(f[i - 1], lengths[i], limit)
    <2> DEFINE k == i - 1
    <2>1. k \in Nat /\ k \in 0..n /\ i = k + 1 /\ i \in 0..n
      BY <1>1
    <2>2. Max(1..i) = i /\ (1..i) \ {i} = 1..k /\ 1..i # {}
      <3> HIDE DEF k
      <3> QED
        BY <2>1, LastNumber
    <2>3. 1..i \in SUBSET DOMAIN lengths
      BY <1>1
    <2> HIDE DEF k
    <2>4. jt[1..i] = Placed(jt[1..k], lengths[i], limit)
      BY <1>2, <2>2, <2>3 DEF Fills
    <2> QED
      BY <2>1, <2>4 DEF k
  <1> HIDE DEF f
  <1>6. 0 \in P
    <2>1. <<>> \in Seq(Nat) /\ Len(<<>>) <= 0
      OBVIOUS
    <2>2. f[0] \in Seq(Nat) /\ Len(f[0]) <= 0
      <3> DEFINE e == <<>>
      <3>1. e \in Seq(Nat) /\ Len(e) <= 0 /\ f[0] = e
        BY <2>1, <1>4
      <3> HIDE DEF e
      <3> QED
        BY <3>1
    <2>3. ~(0 > 0)
      OBVIOUS
    <2> QED
      BY <2>2, <2>3
  <1>7. ASSUME NEW i \in P PROVE i + 1 \in P
    <2> SUFFICES ASSUME i + 1 \in 0..n
                 PROVE  f[i + 1] \in Seq(Nat) /\ Len(f[i + 1]) <= i + 1 /\ Len(f[i + 1]) >= 1
      OBVIOUS
    <2>1. i \in Nat /\ i \in 0..n /\ i + 1 \in 1..n /\ (i + 1) - 1 = i
      BY <1>1
    <2>2. f[i] \in Seq(Nat) /\ Len(f[i]) <= i /\ Len(f[i]) \in Nat
      BY <2>1
    <2>3. f[i + 1] = Placed(f[i], lengths[i + 1], limit) /\ lengths[i + 1] \in Nat
      BY <2>1, <1>1, <1>5
    <2>4. f[i + 1] \in Seq(Nat) /\ Len(f[i + 1]) \in 1..(Len(f[i]) + 1)
      BY <2>2, <2>3, PlacedIs
    <2> QED
      BY <2>1, <2>2, <2>4
  <1>8. P = Nat
    <2>1. P \in SUBSET Nat
      OBVIOUS
    <2> HIDE DEF P
    <2> QED
      BY <2>1, <1>6, <1>7, Induction
  <1>9. n \in 0..n /\ n \in P
    BY <1>1, <1>8
  <1>10. f[n] \in Seq(Nat) /\ Len(f[n]) <= n /\ Len(f[n]) >= 1
    BY <1>1, <1>9
  <1>11. Len(f[n]) \in 1..n
    <2>1. Len(f[n]) \in Nat
      BY <1>10
    <2> QED
      BY <2>1, <1>1, <1>10
  <1> QED
    BY <1>3, <1>4, <1>11 DEF n
=================================================================================
