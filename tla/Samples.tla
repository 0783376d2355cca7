------------------------------- MODULE Samples -------------------------------
(***************************************************************************)
(* Samples (utils/types.py) and what the functions that generate them do   *)
(* with them: answers and tool responses appended, records of a session    *)
(* turned into samples, the samples of several turns truncated and merged. *)
(* A log-prob and a row of routed experts is the token it is of.           *)
(***************************************************************************)
EXTENDS Integers, Sequences, SequencesExt, FiniteSetsExt

\* A log-prob of 0.0, a row of -1.
Filler == <<"filler", 0>>

Times(x, n) == [i \in 1..n |-> x]

\* No log-probs: None, which is not an empty list of them.
Unset == <<<<"unset", 0>>>>

NewSample(tokens) ==
    [tokens |-> tokens, response_length |-> 0, loss_mask |-> <<>>, rollout_log_probs |-> Unset,
     rollout_routed_experts |-> <<>>, status |-> "PENDING"]

update_from_meta_info(sample, finish) ==
    [sample EXCEPT !.status = CASE finish = "length" -> "TRUNCATED"
                                [] finish = "abort" -> "ABORTED"
                                [] OTHER -> "COMPLETED"]

\* A row for each token but the last, if the engine reports the routing.
get_rollout_topk_from_response(tokens, routed) == IF routed THEN Front(tokens) ELSE <<>>

update_sample_from_response(sample, said, finish, routed) ==
    update_from_meta_info(
        [tokens |-> sample.tokens \o said,
         response_length |-> sample.response_length + Len(said),
         loss_mask |-> sample.loss_mask \o Times(1, Len(said)),
         rollout_log_probs |-> (IF sample.rollout_log_probs = Unset THEN <<>> ELSE sample.rollout_log_probs) \o said,
         rollout_routed_experts |-> get_rollout_topk_from_response(sample.tokens \o said, routed),
         status |-> sample.status], finish)

update_sample_with_tool_responses(sample, heard) ==
    [sample EXCEPT !.tokens = @ \o heard, !.response_length = @ + Len(heard),
                   !.loss_mask = @ \o Times(0, Len(heard)),
                   !.rollout_log_probs = @ \o Times(Filler, Len(heard))]

\* As many rows as there are tokens, less one.
_pad_routed_experts_if_needed(sample, routed) ==
    LET expected == Len(sample.tokens) - 1
        rows == sample.rollout_routed_experts
    IN  IF ~routed \/ rows = <<>> THEN sample
        ELSE [sample EXCEPT !.rollout_routed_experts =
                SubSeq(rows \o Times(Filler, expected - Len(rows)), 1, expected)]

\* What Sample.validate asserts; no rows at all stand for None.
validate(sample) ==
    /\ Len(sample.tokens) >= sample.response_length
    /\ Len(sample.loss_mask) = sample.response_length
    /\ sample.rollout_log_probs # Unset => Len(sample.rollout_log_probs) = sample.response_length
    /\ sample.rollout_routed_experts # <<>> => Len(sample.rollout_routed_experts) = Len(sample.tokens) - 1

DropLast(s, n) == SubSeq(s, 1, Len(s) - n)

strip_last_output_tokens(sample, n) ==
    [sample EXCEPT !.tokens = DropLast(@, n), !.response_length = @ - n,
                   !.rollout_log_probs = DropLast(@, n), !.loss_mask = DropLast(@, n),
                   !.rollout_routed_experts = IF @ = <<>> THEN @ ELSE DropLast(@, n)]

(***************************************************************************)
(* Samples of a session's records, [input_ids, output_ids, finish_reason]. *)
(***************************************************************************)
\* How much of an answer is in the accumulated tokens, from its prompt's end on.
matched(record, ids) ==
    LET agrees(n) == \A j \in 1..n : Len(record.input_ids) + j <= Len(ids)
                                        /\ record.output_ids[j] = ids[Len(record.input_ids) + j]
    IN  Max({n \in 0..Len(record.output_ids) : agrees(n)})

trim_count(record, ids) == Len(record.output_ids) - matched(record, ids)

\* The assertions: little is trimmed, nothing of the last turn, and all is consumed.
RecordsConsumed(records, ids, max_trim_tokens) ==
    LET last == records[Len(records)]
    IN  /\ \A i \in DOMAIN records : trim_count(records[i], ids) <= IF i = Len(records) THEN 0 ELSE max_trim_tokens
        /\ Len(last.input_ids) + matched(last, ids) = Len(ids)

_compute_sample_from_openai_record(record, trimmed, routed) ==
    LET answered == update_sample_from_response(NewSample(record.input_ids), record.output_ids,
                                                record.finish_reason, routed)
    IN  strip_last_output_tokens(answered, trimmed)

compute_samples_from_openai_records(records, ids, routed) ==
    [i \in DOMAIN records |-> _compute_sample_from_openai_record(records[i], trim_count(records[i], ids), routed)]

_truncate_sample_output(sample, keep_tokens) ==
    LET cut == sample.response_length - keep_tokens
    IN  [sample EXCEPT !.tokens = DropLast(@, cut), !.response_length = keep_tokens,
                       !.rollout_log_probs = SubSeq(@, 1, keep_tokens), !.loss_mask = SubSeq(@, 1, keep_tokens),
                       !.status = "TRUNCATED"]

\* Up to the first turn that is too long, of which the answer is cut, or nothing is left.
truncate_samples_by_total_tokens(samples, max_seq_len) ==
    LET long == {i \in DOMAIN samples : Len(samples[i].tokens) > max_seq_len}
        first == Min(long)
        allowed_output == samples[first].response_length - (Len(samples[first].tokens) - max_seq_len)
    IN  CASE long = {} -> samples
          [] long # {} /\ allowed_output <= 0 -> SubSeq(samples, 1, first - 1)
          [] OTHER -> Append(SubSeq(samples, 1, first - 1), _truncate_sample_output(samples[first], allowed_output))

(***************************************************************************)
(* Samples of several turns merged into one.                               *)
(***************************************************************************)
obs_len(a, b) == Len(b.tokens) - Len(a.tokens) - b.response_length

\* The assertions.
Mergeable(a, b) ==
    /\ validate(a) /\ validate(b)
    /\ IsPrefix(a.tokens, b.tokens) /\ obs_len(a, b) > 0
    /\ Len(a.rollout_routed_experts) <= Len(b.rollout_routed_experts)
    /\ a.status = "COMPLETED"

\* BUG: the tokens in between are trained on.
_merge_unmasked(a, b) ==
    [tokens |-> b.tokens, response_length |-> a.response_length + obs_len(a, b) + b.response_length,
     loss_mask |-> a.loss_mask \o Times(1, obs_len(a, b)) \o b.loss_mask,
     rollout_log_probs |-> a.rollout_log_probs \o Times(Filler, obs_len(a, b)) \o b.rollout_log_probs,
     rollout_routed_experts |-> b.rollout_routed_experts, status |-> b.status]

_merge_sample_pair(a, b) ==
    [tokens |-> b.tokens, response_length |-> a.response_length + obs_len(a, b) + b.response_length,
     loss_mask |-> a.loss_mask \o Times(0, obs_len(a, b)) \o b.loss_mask,
     rollout_log_probs |-> a.rollout_log_probs \o Times(Filler, obs_len(a, b)) \o b.rollout_log_probs,
     rollout_routed_experts |-> b.rollout_routed_experts, status |-> b.status]

\* The merged sample alone, or nothing if an assertion fails.
merge_samples(samples) ==
    FoldLeft(LAMBDA acc, b : IF acc # <<>> /\ Mergeable(acc[1], b) THEN <<_merge_sample_pair(acc[1], b)>> ELSE <<>>,
             <<samples[1]>>, Tail(samples))
=============================================================================
