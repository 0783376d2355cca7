------------------------------ MODULE Partitions ------------------------------
(***************************************************************************)
(* How samples are dealt out by their lengths (utils/seqlen_balancing.py,  *)
(* and first fit of utils/data.py).  Indices count from 1.                 *)
(***************************************************************************)
EXTENDS Integers, Sequences, FiniteSets, FiniteSetsExt, SequencesExt

\* A sequence in another order: before has the pairs of its places of which the first
\* comes before the second.
Arranged(s, before) ==
    [i \in DOMAIN s |-> s[CHOOSE j \in DOMAIN s : Cardinality({l \in DOMAIN s : <<l, j>> \in before}) = i - 1]]

PlacePairs(s) == (DOMAIN s) \X (DOMAIN s)

Total(lengths, items) == FoldLeft(LAMBDA x, i : x + lengths[i], 0, items)

\* The first batch a length fits in takes it.
Placed(batches, length, limit) ==
    LET fits == {i \in DOMAIN batches : batches[i] + length <= limit}
    IN  IF fits = {} THEN Append(batches, length) ELSE [batches EXCEPT ![Min(fits)] = @ + length]

get_minimum_num_micro_batch_size(lengths, limit) ==
    Len(FoldLeft(LAMBDA batches, length : Placed(batches, length, limit), <<>>, lengths))

(***************************************************************************)
(* The largest differencing method.  A state is k sets of items, the sets  *)
(* in decreasing order.                                                    *)
(***************************************************************************)
\* By sum, then by number, then by the first items, which differ.
Precedes(sum, s, other, t) ==
    \/ sum < other
    \/ sum = other /\ Len(s) < Len(t)
    \/ sum = other /\ Len(s) = Len(t) /\ s # <<>> /\ s[1] < t[1]

Below(lengths, s, t) == Precedes(Total(lengths, s), s, Total(lengths, t), t)

\* As sorted does it: what is not below the other stays where it was.
Decreasing(lengths, sets) ==
    Arranged(sets, {p \in PlacePairs(sets) :
        \/ Below(lengths, sets[p[2]], sets[p[1]])
        \/ ~Below(lengths, sets[p[1]], sets[p[2]]) /\ p[1] < p[2]})

Spread(lengths, state) == Total(lengths, state[1]) - Total(lengths, state[Len(state)])

\* The state with the largest spread, of several the one with the largest set.
Popped(lengths, states) ==
    CHOOSE s \in states : \A t \in states \ {s} :
        \/ Spread(lengths, s) > Spread(lengths, t)
        \/ Spread(lengths, s) = Spread(lengths, t) /\ Below(lengths, t[1], s[1])

\* The largest set of one state takes the smallest one of the other.
Merge(lengths, s, t) == Decreasing(lengths, [i \in DOMAIN s |-> s[i] \o t[Len(t) + 1 - i]])

Merged(lengths, states, s, t) == (states \ {s, t}) \cup {Merge(lengths, s, t)}

WithNext(lengths, states, s) == Merged(lengths, states, s, Popped(lengths, states \ {s}))

\* Two states become one, until one is left.
Differenced(lengths, states) ==
    LET pairings == Cardinality(states) - 1
        left[n \in 0..pairings] ==
            IF n = 0 THEN states ELSE WithNext(lengths, left[n - 1], Popped(lengths, left[n - 1]))
    IN  CHOOSE s \in left[pairings] : TRUE

Shortest(lengths) ==
    Arranged([i \in DOMAIN lengths |-> i],
             {p \in PlacePairs(lengths) : lengths[p[1]] < lengths[p[2]] \/ (lengths[p[1]] = lengths[p[2]] /\ p[1] < p[2])})

\* The o-th items of an order, as many as given, in a set of their own each.
Opening(order, k, size, o) == [i \in 1..k |-> IF i <= size THEN <<order[(o - 1) * size + i]>> ELSE <<>>]

\* The shortest k are dealt first to k sets if these are to be equal in number.
karmarkar_karp(lengths, k, equal_size) ==
    LET size == IF equal_size THEN k ELSE 1
    IN  Differenced(lengths, {Decreasing(lengths, Opening(Shortest(lengths), k, size, o)) : o \in 1..(Len(lengths) \div size)})

InOrder(parts) ==
    [i \in DOMAIN parts |-> Arranged(parts[i], {p \in PlacePairs(parts[i]) : parts[i][p[1]] < parts[i][p[2]]})]

\* The parts, each in the order of the indices.
get_seqlen_balanced_partitions(lengths, k, equal_size) == InOrder(karmarkar_karp(lengths, k, equal_size))
=============================================================================
