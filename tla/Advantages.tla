------------------------------ MODULE Advantages ------------------------------
(***************************************************************************)
(* Rewards and advantages (ray/rollout.py, utils/ppo_utils.py) in integers: *)
(* the algorithms are sums of products, whatever the numbers.  Means are    *)
(* scaled by the number of values.                                          *)
(***************************************************************************)
EXTENDS Integers, Sequences, SequencesExt, FiniteSetsExt

SumOf(s) == FoldLeft(LAMBDA x, y : x + y, 0, s)

\* w to the n, one for n = 0 whatever w is.
Power(w, n) ==
    LET power[k \in Nat] == IF k = 0 THEN 1 ELSE w * power[k - 1]
    IN  power[n]

\* Rewards less the mean of their group, times its size; if their number is not
\* that of whole groups, all of them are one.
group_norm(rewards, group, expected) ==
    LET whole == Len(rewards) = expected
        size == IF whole THEN group ELSE Len(rewards)
        members(i) == SubSeq(rewards, ((i - 1) \div size) * size + 1, ((i - 1) \div size + 1) * size)
    IN  [i \in DOMAIN rewards |-> size * rewards[i] - SumOf(members(i))]

deltas(rewards, values, gamma) ==
    [t \in DOMAIN rewards |-> rewards[t] - values[t] + (IF t < Len(values) THEN gamma * values[t + 1] ELSE 0)]

\* The definition: a sum over the steps that follow.
gae(rewards, values, gamma, lambda) ==
    LET d == deltas(rewards, values, gamma)
    IN  [t \in DOMAIN d |-> SumOf([l \in 1..(Len(d) - t + 1) |-> Power(gamma * lambda, l - 1) * d[t + l - 1]])]

\* The discounted sums of a chunk by itself.
Local(d, w) == [t \in DOMAIN d |-> SumOf([k \in 1..t |-> Power(w, t - k) * d[k]])]

Chunk(d, chunk_size, c) == SubSeq(d, (c - 1) * chunk_size + 1, Min({c * chunk_size, Len(d)}))
Chunks(d, chunk_size) == [c \in 1..((Len(d) + chunk_size - 1) \div chunk_size) |-> Chunk(d, chunk_size, c)]

\* BUG: the state of the chunk before is one factor short.
PropagatedShort(s, sums, w) ==
    s \o [t \in DOMAIN sums |-> sums[t] + (IF s = <<>> THEN 0 ELSE Power(w, t - 1) * s[Len(s)])]

\* The state of the chunk before is its last sum; it counts in all that follow.
Propagated(s, sums, w) ==
    s \o [t \in DOMAIN sums |-> sums[t] + (IF s = <<>> THEN 0 ELSE Power(w, t) * s[Len(s)])]

\* In chunks: the sums of each by itself, then the last one of the chunk before.
scan(d, w, chunk_size) ==
    FoldLeft(LAMBDA s, chunk : Propagated(s, Local(chunk, w), w), <<>>, Chunks(d, chunk_size))

chunked_gae(rewards, values, gamma, lambda, chunk_size) ==
    Reverse(scan(Reverse(deltas(rewards, values, gamma)), gamma * lambda, chunk_size))

\* From the end, each step adds what comes after it, discounted.
discounted(rewards, gamma) ==
    LET returns[t \in 1..Len(rewards)] ==
            rewards[t] + (IF t = Len(rewards) THEN 0 ELSE gamma * returns[t + 1])
    IN  [t \in DOMAIN rewards |-> returns[t]]

\* The reward on the last token that is not masked.
terminal(reward, mask) ==
    LET last == Max({t \in DOMAIN mask : mask[t] = 1})
    IN  [t \in DOMAIN mask |-> IF t = last THEN reward ELSE 0]

get_reinforce_plus_plus_returns(reward, mask, gamma) == discounted(terminal(reward, mask), gamma)

\* Of a batch, the rows padded with zeros to the longest.
get_advantages_and_returns_batch(rewards, values, gamma, lambdas, decoupled, chunk_size) ==
    LET longest == Max({Len(rewards[i]) : i \in DOMAIN rewards})
        row(s) == s \o [i \in 1..(longest - Len(s)) |-> 0]
        advantages == [i \in DOMAIN rewards |->
            SubSeq(chunked_gae(row(rewards[i]), row(values[i]), gamma, lambdas[i], chunk_size), 1, Len(rewards[i]))]
    IN  [advantages |-> advantages,
         returns |-> [i \in DOMAIN rewards |-> [t \in DOMAIN rewards[i] |->
            IF decoupled THEN SumOf(SubSeq(rewards[i], t, Len(rewards[i]))) ELSE advantages[i][t] + values[i][t]]]]
=============================================================================
