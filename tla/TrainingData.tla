----------------------------- MODULE TrainingData -----------------------------
(***************************************************************************)
(* The way of rollouts' samples through training: conversations become     *)
(* samples; the manager trims them, normalises rewards and deals them out  *)
(* over the data parallel ranks; each rank fetches its part, the ranks     *)
(* agree on numbers of micro-batches, score the responses, record or       *)
(* replay the routing of experts, compute advantages and train, each       *)
(* sequence cut over context parallel ranks.  A rank here is one of data   *)
(* parallelism; its context parallel peers, r in 0..cp-1, work together.   *)
(* A token is a pair of its sample and its position; a score is the code   *)
(* of the token it is for, if the logit was the one before.                *)
(***************************************************************************)
EXTENDS ContextParallel, Advantages, Partitions

CONSTANT Configurations   \* the setups one behaviour each starts with

C == INSTANCE Conversations

(***************************************************************************)
(* A setup: rollouts, each of conversations, groups of                     *)
(* n_samples_per_prompt one after the other, each [talk, reward, remove];  *)
(* the generator; rollout_batch_size and global_batch_size, dynamic_gbs;   *)
(* overlong_filtering; use_rollout_logprobs; replay, "none", "routing" or  *)
(* "rollout", and recompute for activations computed again;                *)
(* dp, cp, layout ("thd", "bshd" or "allgather") and pad_size;             *)
(* balance_data, use_dynamic_batch_size,                                   *)
(* max_tokens_per_gpu, micro_batch_size; vpp_group, 1 without a virtual    *)
(* pipeline; whether experts are spread over the ranks; estimator, gamma,  *)
(* the lambda of a sample by its response length, decoupled returns, the   *)
(* chunk size of the scan; per_token for a mean of tokens, not of samples. *)
(***************************************************************************)
IsConfiguration(c) ==
    /\ \A conversation \in UNION {ToSet(rollout) : rollout \in ToSet(c.rollouts)} :
            conversation.talk.prompt \in Nat \ {0} /\ conversation.remove \in BOOLEAN
    /\ {c.experts, c.per_token, c.overlong_filtering, c.use_rollout_logprobs, c.recompute} \subseteq BOOLEAN
    /\ {c.n_samples_per_prompt, c.rollout_batch_size, c.global_batch_size, c.dp, c.cp, c.pad_size,
        c.max_tokens_per_gpu, c.micro_batch_size, c.vpp_group, c.chunk_size} \subseteq Nat \ {0}
    /\ c.layout \in {"thd", "bshd", "allgather"} /\ c.estimator \in {"grpo", "ppo", "reinforce_plus_plus"}
    /\ c.replay \in {"none", "routing", "rollout"} /\ c.generator.routed = (c.replay = "rollout")
    /\ c.global_batch_size % c.dp = 0 /\ (c.layout = "allgather" => c.cp > 1 /\ c.replay = "none")

ASSUME DataAssumption == \A c \in Configurations : IsConfiguration(c)

VARIABLES
    args,          \* the setup
    rest,          \* the rollouts to come
    samples,       \* those of the rollout, each with its reward and whether it is to be removed
    pc,            \* per rank
    data,          \* per rank: its samples, by their number, and their rewards; before, <<>>
    local_counts,  \* per rank: micro-batches per step, by its own count
    num_microbatches,
    indices,       \* per rank: per micro-batch the places of its samples in the rank's data
    offset,        \* per rank: the micro-batches taken since the iterator was reset
    log_probs,     \* per rank: what forward passes brought, then per sample and r the old scores
    replay,        \* per rank: rows of routing, per micro-batch and r, and how many were popped
    advantages,    \* per rank: per sample and r
    placed,        \* per rank: per sample and r the rewards of the tokens
    trained        \* per rank: per step what was trained on, a record a token, and how many tokens

rolloutVars == <<args, rest, samples>>
batchVars == <<local_counts, num_microbatches, indices>>
vars == <<rolloutVars, pc, data, batchVars, offset, log_probs, replay, advantages, placed, trained>>

Ranks == 1..args.dp
Peers == 1..args.cp      \* r + 1 for peer r

Sample(s) ==
    [total |-> Len(samples[s].tokens), response |-> samples[s].response_length,
     reward |-> samples[s].reward, remove |-> samples[s].remove]

PCs == {"rollout", "waiting", "fetch", "counted", "fill", "forward", "advantages", "whiten", "train", "step", "done", "raised"}

PerRank(x) == [d \in Ranks |-> x]
Untrained == [entries |-> <<>>, num_tokens |-> 0]

NoReplay == [rows |-> <<>>, forward |-> 0, backward |-> 0]

Init ==
    /\ args \in Configurations /\ rest = args.rollouts /\ samples = <<>>
    /\ pc = PerRank("rollout") /\ data = PerRank(<<>>)
    /\ local_counts = PerRank(<<>>) /\ num_microbatches = PerRank(<<>>)
    /\ indices = PerRank(<<>>) /\ offset = PerRank(0) /\ replay = PerRank(NoReplay)
    /\ log_probs = PerRank(<<>>) /\ advantages = PerRank(<<>>) /\ placed = PerRank(<<>>)
    /\ trained = PerRank(<<Untrained>>)

Microbatches(d) == SumOf(num_microbatches[d])

(***************************************************************************)
(* Who waits for whom: at each place what a rank exchanges with the others *)
(* goes on when they are there too.                                        *)
(***************************************************************************)
\* BUG: a peer with nothing to whiten does not take part.
JoinsWithAny(d) == {p \in Peers : \E i \in DOMAIN advantages[d] : advantages[d][i][p] # <<>>}

\* The peers that take part in the statistics of the whitening, with nothing even.
Joins(d) == Peers

\* Experts are spread over the ranks: their tokens are exchanged in each micro-batch.
Exchanges(d, e) ==
    \/ pc[e] = pc[d] /\ offset[e] >= offset[d]
    \/ pc[d] = "forward" /\ pc[e] \in {"advantages", "whiten", "train", "step"} /\ Microbatches(e) > offset[d]
    \/ pc[d] = "train" /\ pc[e] = "step" /\ offset[e] > offset[d]

Met(d) ==
    CASE pc[d] = "counted" -> \A e \in Ranks : pc[e] # "fetch"
      [] pc[d] \in {"forward", "train"} -> args.experts => \A e \in Ranks : Exchanges(d, e)
      [] pc[d] = "whiten" -> \A e \in Ranks : pc[e] \in {"whiten", "train", "step"} /\ Joins(d) \subseteq Joins(e)
      [] pc[d] = "step" -> \A e \in Ranks : pc[e] = "step"
      [] pc[d] \in {"rollout", "waiting", "fetch", "fill", "advantages"} -> TRUE
      [] pc[d] = "done" -> rest # <<>> /\ \A e \in Ranks : pc[e] = "done"
      [] OTHER -> FALSE

(***************************************************************************)
(* The manager.                                                            *)
(***************************************************************************)
\* What the function that generates made of a conversation.
Made(conversation) ==
    LET made == C!generate(args.generator, conversation.talk)
    IN  [n \in DOMAIN made |-> [reward |-> conversation.reward, remove |-> conversation.remove] @@ made[n]]

\* The samples of all conversations, in one list.
_get_rollout_data ==
    /\ pc = PerRank("rollout")
    /\ samples' = FlattenSeq([n \in DOMAIN Head(rest) |-> Made(Head(rest)[n])])
    /\ rest' = Tail(rest)
    /\ pc' = PerRank("waiting")
    /\ UNCHANGED <<args, data, batchVars, offset, log_probs, replay, advantages, placed, trained>>

\* A multiple of the number of ranks.
_compute_dynamic_global_batch_size(num_samples) == Max({args.dp, (num_samples \div args.dp) * args.dp})

global_batch_size ==
    IF args.dynamic_gbs THEN _compute_dynamic_global_batch_size(Len(samples)) ELSE args.global_batch_size

\* Whole global batches.
Kept == (Len(samples) \div global_batch_size) * global_batch_size

_post_process_rewards(kept) ==
    LET raw == [s \in 1..kept |-> Sample(s).reward]
    IN  IF args.estimator = "grpo"
        THEN group_norm(raw, args.n_samples_per_prompt, args.n_samples_per_prompt * args.rollout_batch_size)
        ELSE raw

\* None of a sample that is removed, or truncated if that is asked for.
loss_mask(s) ==
    LET dropped == samples[s].remove \/ (args.overlong_filtering /\ samples[s].status = "TRUNCATED")
    IN  IF dropped THEN C!Times(0, Sample(s).response) ELSE samples[s].loss_mask

\* The data have log-probs and rows of routing if the first sample has them.
GivesLogProbs == samples[1].rollout_log_probs # C!Unset
GivesRouting == samples[1].rollout_routed_experts # <<>>

\* Every dp-th one, or parts of equal number and about equal length.
Partition(kept) ==
    IF args.balance_data
    THEN get_seqlen_balanced_partitions([s \in 1..kept |-> Sample(s).total], args.dp, TRUE)
    ELSE [d \in Ranks |-> [i \in 1..((kept - d + args.dp) \div args.dp) |-> d + (i - 1) * args.dp]]

Dealt(partition, rewards) ==
    [d \in Ranks |-> [samples |-> partition[d], rewards |-> [i \in DOMAIN partition[d] |-> rewards[partition[d][i]]]]]

_split_train_data_by_dp ==
    /\ pc = PerRank("waiting")
    /\ IF Kept = 0 THEN pc' = PerRank("raised") /\ UNCHANGED data
       ELSE /\ data' = Dealt(Partition(Kept), _post_process_rewards(Kept))
            /\ pc' = PerRank("fetch")
    /\ UNCHANGED <<rolloutVars, batchVars, offset, log_probs, replay, advantages, placed, trained>>

(***************************************************************************)
(* Micro-batches.                                                          *)
(***************************************************************************)
Lengths(d) == [i \in DOMAIN data[d].samples |-> Sample(data[d].samples[i]).total]
Tokens(s) == [i \in 1..Sample(s).total |-> <<s, i - 1>>]
Pad == <<0, 0>>
RoundUp(x, m) == ((x + m - 1) \div m) * m

\* Sequences of the same padded length, or each its own.
MaxSeqLen(d) == RoundUp(Max(ToSet(Lengths(d))), args.pad_size)
Span(d, s) == IF args.layout = "bshd" THEN MaxSeqLen(d) ELSE Sample(s).total
Code(token) == 100 * token[1] + token[2]

num_local_gbs == global_batch_size \div args.dp
num_steps(d) == Len(data[d].samples) \div num_local_gbs
OfStep(d, k) == SubSeq(Lengths(d), (k - 1) * num_local_gbs + 1, k * num_local_gbs)

\* Contiguous ones, of a fixed number of samples.
Fixed(d) ==
    [num |-> [k \in 1..num_steps(d) |-> num_local_gbs \div args.micro_batch_size],
     indices |-> [m \in 1..(Len(Lengths(d)) \div args.micro_batch_size) |->
                    [i \in 1..args.micro_batch_size |-> (m - 1) * args.micro_batch_size + i]]]

\* A rank cannot make tensors of what some of its samples lack.
FetchFails(d) ==
    \E s \in ToSet(data[d].samples) :
        \/ GivesLogProbs /\ samples[s].rollout_log_probs = C!Unset
        \/ GivesRouting /\ samples[s].rollout_routed_experts = <<>>

\* The score the engine gave a token, of a sample's response what a peer holds.
rollout_log_probs(d, s, r) ==
    LET given == [t \in DOMAIN samples[s].rollout_log_probs |->
                    LET of == samples[s].rollout_log_probs[t] IN IF of = C!Filler THEN 0 ELSE Code(<<s, of[2]>>)]
    IN  slice_log_prob_with_cp(given, Sample(s).total, Sample(s).response, Span(d, s), args.cp, r)

get_rollout_data(d) ==
    log_probs' = [log_probs EXCEPT ![d] =
        IF args.use_rollout_logprobs /\ GivesLogProbs
        THEN [i \in DOMAIN data[d].samples |-> [p \in Peers |-> rollout_log_probs(d, data[d].samples[i], p - 1)]]
        ELSE <<>>]

\* Old scores are those of the rollout, or of a pass over the data.
FirstPass == IF args.use_rollout_logprobs THEN "advantages" ELSE "forward"
Scheduled == IF args.replay = "rollout" THEN "fill" ELSE FirstPass

\* A fixed size needs no agreement; otherwise the rank counts what it needs per
\* step and enters the all_reduce.
get_data_iterator(d) ==
    /\ pc[d] = "fetch"
    /\ IF FetchFails(d) THEN pc' = PerRank("raised") /\ UNCHANGED <<batchVars, log_probs>>
       ELSE /\ get_rollout_data(d)
            /\ IF args.use_dynamic_batch_size
               THEN /\ local_counts' = [local_counts EXCEPT ![d] =
                            [k \in 1..num_steps(d) |->
                                get_minimum_num_micro_batch_size(OfStep(d, k), args.max_tokens_per_gpu * args.cp)]]
                    /\ pc' = [pc EXCEPT ![d] = "counted"]
                    /\ UNCHANGED <<num_microbatches, indices>>
               ELSE /\ num_microbatches' = [num_microbatches EXCEPT ![d] = Fixed(d).num]
                    /\ indices' = [indices EXCEPT ![d] = Fixed(d).indices]
                    /\ pc' = [pc EXCEPT ![d] = Scheduled]
                    /\ UNCHANGED local_counts
    /\ UNCHANGED <<rolloutVars, data, offset, replay, advantages, placed, trained>>

\* The maximum over the ranks; with a virtual pipeline rounded down, to 1 at least.
Agreed(d) ==
    LET most == [k \in DOMAIN local_counts[d] |-> Max({local_counts[e][k] : e \in Ranks})]
    IN  IF args.vpp_group = 1 THEN most
        ELSE [k \in DOMAIN most |-> Max({1, (most[k] \div args.vpp_group) * args.vpp_group})]

\* Places in a step, as places in the rank's data.
Shifted(parts, k) == [j \in DOMAIN parts |-> [i \in DOMAIN parts[j] |-> parts[j][i] + (k - 1) * num_local_gbs]]

Parts(d, counts) ==
    FlattenSeq([k \in DOMAIN counts |->
        Shifted(get_seqlen_balanced_partitions(OfStep(d, k), counts[k], FALSE), k)])

all_reduce(d) ==
    /\ pc[d] = "counted" /\ Met(d)
    /\ num_microbatches' = [num_microbatches EXCEPT ![d] = Agreed(d)]
    /\ indices' = [indices EXCEPT ![d] = Parts(d, Agreed(d))]
    /\ pc' = [pc EXCEPT ![d] = Scheduled]
    /\ UNCHANGED <<rolloutVars, data, local_counts, offset, log_probs, replay, advantages, placed, trained>>

(***************************************************************************)
(* A forward pass of one micro-batch, of peer r.                           *)
(***************************************************************************)
PaddedTo(size, row) == row \o Const(RoundUp(Len(row), size) - Len(row), Pad)

Piece(row, r) == slice(row, r * (Len(row) \div args.cp), (r + 1) * (Len(row) \div args.cp))

\* Of each sample of a micro-batch its chunks, one after the other; without a row of
\* its own each, they are padded together.
Laid(d, batch, r, Content) ==
    PaddedTo(IF args.layout = "bshd" THEN 1 ELSE args.pad_size,
             FlattenSeq([i \in DOMAIN batch |->
                slice_with_cp(Content[batch[i]], Span(d, batch[i]), args.cp, r, Pad)]))

\* The tokens of a micro-batch that a peer holds: so laid out, or of all samples in a
\* row, padded, one piece.
Stream(d, batch, r) ==
    IF args.layout = "allgather"
    THEN Piece(PaddedTo(args.cp * args.pad_size, FlattenSeq([i \in DOMAIN batch |-> Tokens(batch[i])])), r)
    ELSE Laid(d, batch, r, [s \in ToSet(batch) |-> Tokens(s)])

\* With pieces of one row: what of a sample's response lies in the peer's piece.
InPiece(batch, i, size, r) ==
    LET s == batch[i]
        start == SumOf([j \in 1..(i - 1) |-> Sample(batch[j]).total])
        first == start + Sample(s).total - Sample(s).response - 1
    IN  [start |-> start, first |-> first,
         s |-> Max({first, r * size}), e |-> Min({start + Sample(s).total - 1, (r + 1) * size})]

\* The score of a token by a logit: right if the logit is at the position before.
Score(logit, token) == IF logit = <<token[1], token[2] - 1>> THEN Code(token) ELSE -1

Scores(logits, tokens) == [i \in DOMAIN logits |-> Score(logits[i], tokens[i])]
ScoresOf(pairs) == [i \in DOMAIN pairs |-> Scores(pairs[i].logits, pairs[i].tokens)]

\* What belongs to a peer of one value per response token of a sample.
Cut(d, s, x, r) == slice_log_prob_with_cp(x, Sample(s).total, Sample(s).response, Span(d, s), args.cp, r)

WithZeros(s, in, stream, p) ==
    IF in.e <= in.s THEN Const(Sample(s).response, 0)
    ELSE Const(in.s - in.first, 0)
            \o Scores(slice(stream, in.s - p * Len(stream), in.e - p * Len(stream)),
                      slice(Tokens(s), in.s + 1 - in.start, in.e + 1 - in.start))
            \o Const(Sample(s).response - (in.e - in.first), 0)

\* Zeros around what a peer has, summed over the peers, and cut as in the zigzag.
_allgather_cp_redistribute(d, batch, i, r) ==
    Cut(d, batch[i], Sum([p \in Peers |->
            WithZeros(batch[i], InPiece(batch, i, Len(Stream(d, batch, 0)), p - 1), Stream(d, batch, p - 1), p - 1)]), r)

\* What of a peer's stream predicts the response tokens of each sample, and the tokens.
Responses(d, batch, r, stream) ==
    LET spans == [i \in DOMAIN batch |-> Span(d, batch[i])]
    IN  get_responses(stream, [i \in DOMAIN batch |-> [tokens |-> Tokens(batch[i])] @@ Sample(batch[i])],
                      spans, spans, args.cp, r)

\* Per sample of the micro-batch, the scores of the response tokens peer r gets.
get_log_probs_and_entropy(d, batch, r) ==
    IF args.layout = "allgather" THEN [i \in DOMAIN batch |-> _allgather_cp_redistribute(d, batch, i, r)]
    ELSE ScoresOf(Responses(d, batch, r, Stream(d, batch, r)))

BatchAt(d, m) == LET places == indices[d][m] IN [i \in DOMAIN places |-> data[d].samples[places[i]]]
Batch(d) == BatchAt(d, offset[d] + 1)

PerSample(scores) == [i \in DOMAIN scores[1] |-> [p \in Peers |-> scores[p][i]]]

\* Per sample of the micro-batch, of every peer.
Pass(d) == PerSample([p \in Peers |-> get_log_probs_and_entropy(d, Batch(d), p - 1)])

\* At the end back to the order of the rank's data.
aggregate_forward_results(d, values, last) ==
    LET places == FlattenSeq(indices[d])
    IN  IF last /\ args.use_dynamic_batch_size
        THEN [i \in DOMAIN values |-> values[CHOOSE j \in DOMAIN places : places[j] = i]]
        ELSE values

(***************************************************************************)
(* Replay of routing: the rows of a micro-batch are those of the tokens    *)
(* each peer holds; a row is the token it is of.                           *)
(***************************************************************************)
\* The engine's rows of a sample, and one more for its last token.
Rows(s) ==
    LET of(row) == IF row = C!Filler THEN Pad ELSE <<s, row[2]>>
    IN  [i \in DOMAIN samples[s].rollout_routed_experts |-> of(samples[s].rollout_routed_experts[i])] \o <<Pad>>

record(d, rows) == [replay EXCEPT ![d].rows = @ \o rows]

\* The rows of all micro-batches in advance.
_fill_replay_data(d) ==
    /\ pc[d] = "fill"
    /\ LET given == \A s \in ToSet(data[d].samples) :
                        Len(samples[s].rollout_routed_experts) = Sample(s).total - 1
       IN  IF GivesRouting /\ given
           THEN /\ replay' = record(d, [m \in 1..Microbatches(d) |->
                                [p \in Peers |-> Laid(d, BatchAt(d, m), p - 1, [s \in ToSet(BatchAt(d, m)) |-> Rows(s)])]])
                /\ pc' = [pc EXCEPT ![d] = FirstPass]
           ELSE pc' = PerRank("raised") /\ UNCHANGED replay
    /\ UNCHANGED <<rolloutVars, data, batchVars, offset, log_probs, advantages, placed, trained>>

\* There is no row left, or not one of each token.
PopFails(d, index) ==
    \/ index >= Len(replay[d].rows)
    \/ \E p \in Peers : Len(replay[d].rows[index + 1][p]) # Len(Stream(d, Batch(d), p - 1))

\* What the forward pass pops is popped again in training.
clear_all_forward(d) == [replay EXCEPT ![d].forward = 0]

\* A pass without gradients records the routing, or takes that of the rollout.
PassReplay(d, last) ==
    CASE args.replay = "none" -> replay
      [] args.replay = "routing" -> record(d, <<[p \in Peers |-> Stream(d, Batch(d), p - 1)]>>)
      [] args.replay = "rollout" /\ ~last -> [replay EXCEPT ![d].forward = @ + 1]
      [] args.replay = "rollout" /\ last -> clear_all_forward(d)

\* forward_only, a micro-batch; the last one ends with the aggregation and a reset.
Forward(d) ==
    /\ pc[d] = "forward" /\ Met(d)
    /\ IF args.replay = "rollout" /\ PopFails(d, replay[d].forward)
       THEN pc' = PerRank("raised") /\ UNCHANGED <<log_probs, offset, replay>>
       ELSE LET last == offset[d] + 1 = Microbatches(d)
            IN  /\ log_probs' = [log_probs EXCEPT ![d] = aggregate_forward_results(d, @ \o Pass(d), last)]
                /\ offset' = [offset EXCEPT ![d] = IF last THEN 0 ELSE @ + 1]
                /\ replay' = PassReplay(d, last)
                /\ pc' = [pc EXCEPT ![d] = IF last THEN "advantages" ELSE @]
    /\ UNCHANGED <<rolloutVars, data, batchVars, advantages, placed, trained>>

(***************************************************************************)
(* Advantages.                                                             *)
(***************************************************************************)
\* What a critic would say of the state at a response token.
Value(s, i) == (s + 2 * i) % 3
Values(s) == [i \in 1..Sample(s).response |-> Value(s, i)]

\* Peer 0 adds the reward at the end of what it holds, if that is not empty.
Rewarded(d, i, r) ==
    LET scores == log_probs[d][i][r + 1]
    IN  [t \in DOMAIN scores |-> IF r = 0 /\ t = Len(scores) THEN data[d].rewards[i] ELSE 0]

FullRewards(d, i) ==
    LET s == data[d].samples[i]
    IN  Sum([p \in Peers |-> IF args.cp = 1 THEN Rewarded(d, i, 0)
                ELSE local_response_to_full(Rewarded(d, i, p - 1), Sample(s).total, Sample(s).response,
                                            Sample(s).total, args.cp, p - 1)])

\* Whatever the estimator makes of a sample, for the whole of its response or, with
\* grpo, for as many tokens as a peer holds.
Returns(d) ==
    LET mine == data[d].samples
    IN  CASE args.estimator = "ppo" ->
                get_advantages_and_returns_batch([i \in DOMAIN mine |-> FullRewards(d, i)],
                    [i \in DOMAIN mine |-> Values(mine[i])], args.gamma,
                    [i \in DOMAIN mine |-> args.lambd[Sample(mine[i]).response]],
                    args.decoupled, args.chunk_size).advantages
          [] args.estimator = "reinforce_plus_plus" ->
                [i \in DOMAIN mine |->
                    get_reinforce_plus_plus_returns(data[d].rewards[i], loss_mask(mine[i]), args.gamma)]

\* With reinforce_plus_plus a sample that is masked altogether is an error; without
\* scores there are no advantages to train with.
compute_advantages_and_returns(d) ==
    /\ pc[d] = "advantages"
    /\ LET mine == data[d].samples
           masked == args.estimator = "reinforce_plus_plus" /\ \E s \in ToSet(mine) : SumOf(loss_mask(s)) = 0
           returns == Returns(d)
           unscored == args.use_rollout_logprobs /\ ~GivesLogProbs
       IN  IF masked \/ unscored THEN pc' = PerRank("raised") /\ UNCHANGED <<advantages, placed>>
           ELSE /\ advantages' = [advantages EXCEPT ![d] = [i \in DOMAIN mine |-> [p \in Peers |->
                        IF args.estimator = "grpo" THEN Const(Len(log_probs[d][i][p]), data[d].rewards[i])
                        ELSE Cut(d, mine[i], returns[i], p - 1)]]]
                /\ placed' = [placed EXCEPT ![d] =
                        IF args.estimator = "ppo" THEN [i \in DOMAIN mine |-> FullRewards(d, i)] ELSE <<>>]
                /\ pc' = [pc EXCEPT ![d] = "whiten"]
    /\ UNCHANGED <<rolloutVars, data, batchVars, offset, log_probs, replay, trained>>

\* The whitening gathers its statistics over the data parallel group, peer by peer.
distributed_masked_whiten(d) ==
    /\ pc[d] = "whiten" /\ Met(d)
    /\ pc' = [pc EXCEPT ![d] = "train"]
    /\ UNCHANGED <<rolloutVars, data, batchVars, offset, log_probs, replay, advantages, placed, trained>>

(***************************************************************************)
(* Training.                                                               *)
(***************************************************************************)
MaskSum(s) == Max({1, SumOf(loss_mask(s))})

Step(d) == Len(trained[d])
EndOfStep(d, k) == SumOf([j \in 1..k |-> num_microbatches[d][j]])

\* BUG: the size of the context parallel group is left out.
loss_scale_dp(d) ==
    IF args.per_token THEN <<1, 1>> ELSE <<num_microbatches[d][Step(d)] * args.dp, global_batch_size>>

\* By what loss_function multiplies and divides the sum over samples or tokens.
loss_scale(d) ==
    IF args.per_token THEN <<args.cp, 1>>
    ELSE <<num_microbatches[d][Step(d)] * args.dp * args.cp, global_batch_size>>

\* What the loss puts side by side for the tokens of a sample that peer r holds, and
\* what each counts: its mask, over that of the whole sample in a mean of samples; and
\* the rows of routing its logit was computed with, forward and again.
loss_function(d, i, s, p, now, routed, mask, scale) ==
    [t \in DOMAIN now |-> [sample |-> s, now |-> now[t], old |-> log_probs[d][i][p][t],
                           advantage |-> advantages[d][i][p][t], mask |-> mask[t], routed |-> routed[t],
                           weight |-> <<mask[t] * scale[1], IF args.per_token THEN 1 ELSE MaskSum(s) * scale[2]>>]]

local_mask(d, s, p) ==
    _slice_loss_mask_for_local_cp(Sample(s).total, Sample(s).response, loss_mask(s), Span(d, s), args.cp, p - 1)

InBoth(rows, again) ==
    [k \in DOMAIN rows |-> [t \in DOMAIN rows[k].logits |-> <<rows[k].logits[t], again[k].logits[t]>>]]

\* Per sample of the micro-batch, of peer p, the rows that training pops.
Routed(d, p) ==
    LET rows(index) == Responses(d, Batch(d), p - 1, replay[d].rows[index + 1][p])
    IN  IF args.replay = "none" THEN [k \in DOMAIN Batch(d) |-> Const(Sample(Batch(d)[k]).response, <<>>)]
        ELSE InBoth(rows(replay[d].forward), rows(IF args.recompute THEN replay[d].backward ELSE replay[d].forward))

\* The micro-batch of every peer, and the number of tokens they report.
TrainedNow(d) ==
    LET places == indices[d][offset[d] + 1]
        routed == [p \in Peers |-> Routed(d, p)]
        pass == Pass(d)
    IN  [entries |-> FlattenSeq([k \in DOMAIN places |-> FlattenSeq([p \in Peers |->
                        loss_function(d, places[k], Batch(d)[k], p, pass[k][p], routed[p][k],
                                      local_mask(d, Batch(d)[k], p), loss_scale(d))])]),
         num_tokens |-> args.cp * SumOf([k \in DOMAIN places |-> MaskSum(Batch(d)[k])])]

\* One step's account with that of another micro-batch.
Plus(before, now) ==
    [entries |-> before.entries \o now.entries, num_tokens |-> before.num_tokens + now.num_tokens]

\* A micro-batch forward and backward; after the last one of a step the gradients
\* are reduced over all ranks.
train_one_step(d) ==
    /\ pc[d] = "train" /\ Met(d)
    /\ IF /\ args.replay # "none"
          /\ PopFails(d, replay[d].forward) \/ (args.recompute /\ PopFails(d, replay[d].backward))
       THEN pc' = PerRank("raised") /\ UNCHANGED <<trained, offset, replay>>
       ELSE /\ trained' = [trained EXCEPT ![d][Step(d)] = Plus(@, TrainedNow(d))]
            /\ offset' = [offset EXCEPT ![d] = @ + 1]
            /\ replay' = [replay EXCEPT ![d].forward = IF args.replay = "none" THEN @ ELSE @ + 1,
                                        ![d].backward = IF args.recompute THEN @ + 1 ELSE @]
            /\ pc' = [pc EXCEPT ![d] = IF offset[d] + 1 = EndOfStep(d, Step(d)) THEN "step" ELSE @]
    /\ UNCHANGED <<rolloutVars, data, batchVars, log_probs, advantages, placed>>

\* BUG: what was recorded stays.
clear_nothing == replay

clear_all == PerRank(NoReplay)

\* The optimizer's step, which every rank takes with the others.
OptimizerStep ==
    /\ \A d \in Ranks : pc[d] = "step" /\ Met(d)
    /\ LET more(d) == Step(d) < Len(num_microbatches[d])
       IN  /\ pc' = [d \in Ranks |-> IF more(d) THEN "train" ELSE "done"]
           /\ trained' = [d \in Ranks |-> IF more(d) THEN Append(trained[d], Untrained) ELSE trained[d]]
           /\ replay' = IF \E d \in Ranks : more(d) THEN replay ELSE clear_all
    /\ UNCHANGED <<rolloutVars, data, batchVars, offset, log_probs, advantages, placed>>

\* The next rollout, when all have trained on this one.
NextRollout ==
    /\ \A d \in Ranks : pc[d] = "done" /\ Met(d)
    /\ pc' = PerRank("rollout") /\ samples' = <<>> /\ data' = PerRank(<<>>)
    /\ local_counts' = PerRank(<<>>) /\ num_microbatches' = PerRank(<<>>)
    /\ indices' = PerRank(<<>>) /\ offset' = PerRank(0)
    /\ log_probs' = PerRank(<<>>) /\ advantages' = PerRank(<<>>) /\ placed' = PerRank(<<>>)
    /\ trained' = PerRank(<<Untrained>>)
    /\ UNCHANGED <<args, rest, replay>>

Next ==
    \/ _get_rollout_data
    \/ _split_train_data_by_dp
    \/ \E d \in Ranks :
        \/ get_data_iterator(d) \/ all_reduce(d) \/ _fill_replay_data(d) \/ Forward(d)
        \/ compute_advantages_and_returns(d)
        \/ distributed_masked_whiten(d) \/ train_one_step(d)
    \/ OptimizerStep
    \/ NextRollout

Spec == Init /\ [][Next]_vars

\* Weak fairness of Next, spelled out: while some rank can go on, steps are taken.
FairSpec == Spec /\ (<>[](\E d \in Ranks : Met(d)) => []<><<TRUE>>_vars)

-----------------------------------------------------------------------------
Finished == pc = PerRank("done")

\* The samples that whole global batches can be made of.
ToTrain == 1..((Len(samples) \div global_batch_size) * global_batch_size)

\* All that was trained in the steps ks, by every rank.
TrainedIn(ks) == FlattenSeq([d \in Ranks |-> FlattenSeq([k \in 1..Len(trained[d]) |->
                    IF k \in ks THEN trained[d][k].entries ELSE <<>>])])

\* Where the rank has a sample, and of which of its response tokens a code is.
PlaceOf(d, s) == CHOOSE i \in DOMAIN data[d].samples : data[d].samples[i] = s
TokenOf(e) == (e.now % 100) - (Sample(e.sample).total - Sample(e.sample).response) + 1

\* Whatever the way samples went over ranks, steps and micro-batches and their chunks
\* over the context parallel peers: each token of each response of the samples to train
\* is trained, once, and what is put together for it belongs together: the score before
\* and the one now, the mask and, for grpo, the reward of its sample.
EachTokenOnce ==
    /\ Finished =>
        LET entries == TrainedIn(1..Len(samples))
            tokens == UNION {{Code(<<s, i>>) : i \in (Sample(s).total - Sample(s).response)..(Sample(s).total - 1)} :
                                s \in ToTrain}
        IN  /\ {e.now : e \in ToSet(entries)} = tokens
            /\ Len(entries) = Cardinality(tokens)
    /\ \A d \in Ranks : \A k \in DOMAIN trained[d] : \A e \in ToSet(trained[d][k].entries) :
        /\ e.now \div 100 = e.sample /\ TokenOf(e) \in 1..Sample(e.sample).response
        /\ e.old = e.now \/ (args.use_rollout_logprobs /\ e.mask = 0)
        /\ e.mask = loss_mask(e.sample)[TokenOf(e)]
        /\ args.estimator = "grpo" => e.advantage = data[d].rewards[PlaceOf(d, e.sample)]

\* With ppo the advantage of a token is the discounted sum of its sample's temporal
\* differences, with the sample's own lambda, from the rewards placed and the values;
\* with reinforce_plus_plus the reward discounted from the last token that counts.
\* It is not touched by the padding, the other rows, the scan's chunks or the cut.
AdvantageByDefinition ==
    \A d \in Ranks : \A k \in DOMAIN trained[d] : \A e \in ToSet(trained[d][k].entries) :
        LET i == PlaceOf(d, e.sample)
            t == TokenOf(e)
            last == Max({n \in DOMAIN loss_mask(e.sample) : loss_mask(e.sample)[n] = 1})
        IN  /\ args.estimator = "ppo" =>
                    e.advantage = gae(placed[d][i], Values(e.sample), args.gamma,
                                      args.lambd[Sample(e.sample).response])[t]
            /\ args.estimator = "reinforce_plus_plus" =>
                    e.advantage = IF t <= last THEN Power(args.gamma, last - t) * data[d].rewards[i] ELSE 0

\* Megatron averages over the ranks and the micro-batches, or divides by the tokens
\* that all ranks reported.
Divisor(d, k) ==
    IF args.per_token THEN SumOf([e \in Ranks |-> trained[e][k].num_tokens])
    ELSE num_microbatches[d][k] * args.dp * args.cp

\* Every rank takes the same steps of the optimizer, each over a global batch; a
\* dynamic one is "to ensure only one training step".
StepIsGlobalBatch ==
    LET n == Len(samples)
        size == IF args.dynamic_gbs THEN n - (n % args.dp) ELSE args.global_batch_size
    IN  /\ \A d \in Ranks : Len(trained[d]) = IF args.dynamic_gbs THEN 1 ELSE n \div size
        /\ (\A s \in ToTrain : Sample(s).response > 0) =>
                \A k \in DOMAIN trained[1] : Cardinality({e.sample : e \in ToSet(TrainedIn({k}))}) = size

\* The gradient of a step is that of the mean over the samples of a global batch of
\* their means over tokens, or over its tokens: each unmasked token counts the same,
\* however the samples were cut over ranks, peers and micro-batches.
LossIsMean ==
    Finished => StepIsGlobalBatch /\ \A d \in Ranks : \A k \in DOMAIN trained[d] : \A e \in ToSet(trained[d][k].entries) :
        LET places == UNION {{<<f, i>> : i \in ((k - 1) * num_local_gbs + 1)..(k * num_local_gbs)} : f \in Ranks}
            all == IF args.per_token THEN FoldSet(LAMBDA x, n : n + MaskSum(data[x[1]].samples[x[2]]), 0, places)
                   ELSE global_batch_size * MaskSum(e.sample)
        IN  e.weight[1] * all = e.mask * e.weight[2] * Divisor(d, k)

\* The token of a sample that an entry is of.
Spoken(e) == samples[e.sample].tokens[(e.now % 100) + 1]

\* The samples of the turns of a conversation merge into the sample that one makes of it
\* as a whole, up to the last answer.
TurnsMerge(talk) ==
    LET turns == C!generate(args.generator, talk)
        whole == C!generate([args.generator EXCEPT !.multi_samples = FALSE], talk)[1]
        merged == C!merge_samples(turns)
    IN  turns # <<>> =>
            /\ merged # <<>> /\ merged[1].status = whole.status
            /\ C!IsPrefix(merged[1].tokens, whole.tokens)
            /\ C!IsPrefix(merged[1].loss_mask, whole.loss_mask)
            /\ C!IsPrefix(merged[1].rollout_log_probs, whole.rollout_log_probs)
            /\ Len(merged[1].tokens) - merged[1].response_length = Len(whole.tokens) - whole.response_length

\* However the turns of a conversation ended, its sample is valid, but for the rows of
\* routing that unified_generate does not pad; the engine says nothing beyond
\* --rollout-max-context-len, however much the tools said before; and log-probs are at
\* the tokens they are of.
SaidWithinContext(sample) ==
    LET context == args.generator.max_context_len
        response == Len(sample.tokens) - sample.response_length
        said == {i \in DOMAIN sample.tokens : sample.tokens[i][1] = "engine"}
    IN  /\ C!validate([sample EXCEPT !.rollout_routed_experts = IF args.generator.kind = "unified" THEN <<>> ELSE @])
        /\ \A i \in said : context > 0 => i <= context
        /\ sample.rollout_log_probs # C!Unset => \A i \in DOMAIN sample.rollout_log_probs :
                sample.rollout_log_probs[i] = IF response + i \in said THEN sample.tokens[response + i] ELSE C!Filler

ConversationsMakeSamples ==
    pc = PerRank("waiting") =>
        /\ \A s \in DOMAIN samples : SaidWithinContext(samples[s])
        /\ args.generator.multi_samples =>
            \A conversation \in UNION {ToSet(rollout) : rollout \in ToSet(args.rollouts)} : TurnsMerge(conversation.talk)

\* Exactly what the engine said, in samples that are kept, is trained on: never a token
\* of a tool or a prompt, wherever the turns ended and the sequence was cut.
OnlySaidIsTrained ==
    /\ ConversationsMakeSamples
    /\ \A d \in Ranks : \A k \in DOMAIN trained[d] : \A e \in ToSet(trained[d][k].entries) :
        LET sample == samples[e.sample]
        IN  e.mask = 1 <=> /\ Spoken(e)[1] = "engine" /\ ~sample.remove
                           /\ args.overlong_filtering => sample.status # "TRUNCATED"

\* The logit a token is trained by was routed as recorded for the very position before
\* it, in the forward pass and when activations are computed again; whatever rows are
\* padding, left from another pass or from another rollout.
RoutedAsRecorded ==
    args.replay # "none" =>
        \A d \in Ranks : \A k \in DOMAIN trained[d] : \A e \in ToSet(trained[d][k].entries) :
            e.mask = 1 => ToSet(e.routed) = {<<e.now \div 100, (e.now % 100) - 1>>}

\* The ranks wait for each other in the all_reduce, the forward passes, the whitening
\* and the optimizer's step; none waits for ever.
TrainingEnds == <>((Finished /\ rest = <<>>) \/ pc = PerRank("raised"))

\* The reward at the end of a response ("terminal reward") is on its last token, once.
RewardAtLastToken ==
    \A d \in Ranks : \A i \in DOMAIN placed[d] :
        LET n == Sample(data[d].samples[i]).response
        IN  placed[d][i] = [t \in 1..n |-> IF t = n THEN data[d].rewards[i] ELSE 0]
=============================================================================
