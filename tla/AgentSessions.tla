---------------------------- MODULE AgentSessions ----------------------------
(***************************************************************************)
(* The session server and the function that generates with an agent        *)
(* (generate_hub/agentic_tool_call.py): whenever the agent is done, it     *)
(* collects the records and the tokens of the session (GET, one handler    *)
(* without an await) and makes a sample of them.                           *)
(***************************************************************************)
EXTENDS SessionServer, Samples

\* finish_reason is "length" when the answer ends without a token to stop on.
Collected(t) ==
    [i \in DOMAIN t.records |->
        [input_ids |-> t.records[i].input_ids, output_ids |-> t.records[i].output_ids,
         finish_reason |-> IF t.records[i].output_ids[Len(t.records[i].output_ids)] \in Stops
                           THEN "stop" ELSE "length"]]

\* collect_records of a session that has records: they, and the session's metadata.
collect_records(s) == [records |-> Collected(traj[s]), accumulated_token_ids |-> token_ids(traj[s])]

\* The samples of the turns, routed with --use-rollout-routing-replay.
computed(collected, routed) ==
    compute_samples_from_openai_records(collected.records, collected.accumulated_token_ids, routed)

\* What an assistant said, and what it may have stopped on.
SaidAt(ids, p) == ids[p] \in Asst \/ (ids[p] \in Stops /\ p > 1 /\ ids[p - 1] \in Asst)

\* Of samples merged into whole, which are the tokens ids, exactly what the model said is
\* trained on, with the log-probs of those very tokens.
TrainsOnSaid(whole, ids) ==
    LET before == Len(whole.tokens) - whole.response_length
    IN  /\ whole.tokens = ids
        /\ \A i \in DOMAIN whole.loss_mask :
            LET p == before + i
                trained == whole.loss_mask[i] = 1
            IN  /\ trained => SaidAt(ids, p) /\ whole.rollout_log_probs[i] = ids[p]
                /\ ids[p] \in Asst => trained

\* After no turn but the last was an answer cut short: of an earlier one merge_samples
\* asserts that it is COMPLETED.
OnlyLastIsCut(samples) == \A i \in 1..(Len(samples) - 1) : samples[i].status = "COMPLETED"

\* The records are those of the session's tokens, and the turns merge into the session if
\* and only if none but the last was truncated.
MakesSample(collected, routed) ==
    LET ids == collected.accumulated_token_ids
        samples == computed(collected, routed)
        whole == merge_samples(samples)
    IN  /\ RecordsConsumed(collected.records, ids, MaxTrim)
        /\ whole # <<>> <=> OnlyLastIsCut(samples)
        /\ whole # <<>> => TrainsOnSaid(whole[1], ids)

\* What is left of a session that has to be cut is its beginning, up to an answer, as long
\* as max_seq_len allows. It merges if and only if none of its turns but the last was
\* truncated and that one, if there are rows of routing, is whole or the only one:
\* _truncate_sample_output leaves the rows, and they are more than merge_samples accepts.
CutIsPrefix(collected, routed) ==
    LET ids == collected.accumulated_token_ids
        all == computed(collected, routed)
    IN  \A max_seq_len \in 1..(Len(ids) - 1) :
            LET samples == truncate_samples_by_total_tokens(all, max_seq_len)
                last == samples[Len(samples)]
                uncut == last = all[Len(samples)]
                whole == merge_samples(samples)
            IN  samples # <<>> =>
                    /\ \A i \in DOMAIN samples : Len(samples[i].tokens) <= max_seq_len
                    /\ \A i \in 1..(Len(samples) - 1) : samples[i] = all[i]
                    /\ IsPrefix(last.tokens, ids) /\ last.response_length > 0
                    /\ Len(last.tokens) < max_seq_len => uncut
                    /\ whole # <<>> <=> OnlyLastIsCut(samples) /\ (routed => uncut \/ Len(samples) = 1)
                    /\ whole # <<>> => TrainsOnSaid(whole[1], last.tokens)

(* However retries, rollbacks and late answers went before: at any moment  *)
(* the records of a session are turned into samples that merge into the    *)
(* session, cut at any length into its beginning, with exactly what the    *)
(* model said trained on. Merging fails, by an assertion, in two cases and *)
(* no other: after a truncated answer the agent asked again, or, with the  *)
(* routing recorded, the last of several turns had to be cut.              *)
SessionMakesSample ==
    \A s \in registry : traj[s].records # <<>> =>
        \A routed \in BOOLEAN :
            MakesSample(collect_records(s), routed) /\ CutIsPrefix(collect_records(s), routed)
=============================================================================
