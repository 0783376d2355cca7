-------------------------- MODULE MCRolloutGenerate --------------------------
(* Command lines for RolloutGenerate.  Each puts the work of one mechanism *)
(* into few groups: retries and group rewards, partial rollouts cut off    *)
(* three times, several samples per group, tasks that raise.               *)
EXTENDS RolloutGenerate

Line ==
    [impl |-> "sglang", rollout_batch_size |-> 1, over_sampling_batch_size |-> 2,
     n_samples_per_prompt |-> 1, max_new_tokens |-> 1, concurrency |-> 2, max_retries |-> 0,
     partial_rollout |-> TRUE, mask_offpolicy |-> TRUE, group_rm |-> FALSE, silent |-> FALSE,
     rollouts |-> 2, drops |-> 0, failures |-> 0]

Both(line) == {[line EXCEPT !.impl = "sglang"], [line EXCEPT !.impl = "inference"]}

\* Two groups a rollout, rejected twice and retried once, or rejected once and
\* recycled into the next rollout.
RetryLines == UNION {Both(
    [Line EXCEPT !.rollout_batch_size = 2, !.max_retries = 1, !.mask_offpolicy = FALSE,
                 !.group_rm = p, !.partial_rollout = p, !.drops = IF p THEN 1 ELSE 2,
                 !.rollouts = IF p THEN 2 ELSE 1]) : p \in BOOLEAN}

\* Three rollouts that cut off and continue samples of two tokens.
PartialLines == {[Line EXCEPT !.max_new_tokens = 2, !.rollouts = 3]}

\* Groups of two samples on one permit.
GroupLines == {[Line EXCEPT !.n_samples_per_prompt = 2, !.concurrency = 1, !.rollouts = 3]}

\* A task of a group of two on one permit raises, or a post of the abort.
FailureLines == UNION {Both(
    [Line EXCEPT !.n_samples_per_prompt = 2, !.concurrency = 1, !.mask_offpolicy = FALSE,
                 !.partial_rollout = p, !.group_rm = r, !.rollouts = 1, !.failures = 1])
        : p \in BOOLEAN, r \in BOOLEAN}

RolloutLines == RetryLines \cup PartialLines \cup GroupLines \cup FailureLines

=============================================================================
