-------------------------- MODULE RolloutGenerate --------------------------
(***************************************************************************)
(* Rollout generation (miles/rollout/sglang_rollout.py, and its successor  *)
(* miles/rollout/inference_rollout): one rollout after the other, groups   *)
(* of samples are fetched from the data source, sampled by the engines,    *)
(* scored and filtered until rollout_batch_size groups are kept; the rest  *)
(* is aborted and, with partial rollout, put back into the buffer of the   *)
(* data source to be continued by the next rollout.                        *)
(*                                                                         *)
(* A group is known by its index, which a retry keeps.  A token is the     *)
(* rollout that generated it and the position the engine gave it.          *)
(***************************************************************************)
EXTENDS Integers, Sequences, FiniteSets

CONSTANT Configurations  \* the command lines: sets of values of args

(***************************************************************************)
(* A configuration, named as the arguments are.  impl is the generator:    *)
(* "sglang" (miles/rollout/sglang_rollout.py) or "inference"               *)
(* (miles/rollout/inference_rollout).  concurrency is the permits of the   *)
(* semaphore, max_new_tokens is rollout_max_response_len, max_retries is   *)
(* dynamic_sampling_resample_same_prompt_max_times and mask_offpolicy is   *)
(* mask_offpolicy_in_partial_rollout.  silent: may tokens decode to no     *)
(* text.  The bounds: rollouts, drops (groups the filter rejects) and      *)
(* failures (exceptions of a post or a reward model).                      *)
(***************************************************************************)
IsConfiguration(c) ==
    /\ c.impl \in {"sglang", "inference"}
    /\ {c.rollout_batch_size, c.n_samples_per_prompt, c.max_new_tokens, c.concurrency} \subseteq Nat \ {0}
    /\ {c.over_sampling_batch_size, c.max_retries, c.rollouts, c.drops, c.failures} \subseteq Nat
    /\ c.over_sampling_batch_size >= c.rollout_batch_size
    /\ {c.partial_rollout, c.mask_offpolicy, c.group_rm, c.silent} \subseteq BOOLEAN

ASSUME RolloutAssumption == \A c \in Configurations : IsConfiguration(c)

VARIABLES
    rollout_id,
    pc,                  \* where generate_rollout_async is
    remaining_batch_size,
    aborted,             \* GenerateState.aborted
    groups,              \* the groups alive: index -> [retry, samples]
    pendings,            \* indices whose task is pending or not collected yet
    scoring,             \* indices of pendings whose group reward is awaited
    finished,            \* indices of pendings whose task has returned
    done,                \* indices the last asyncio.wait returned
    data,                \* indices kept for training
    retry_groups,        \* indices to sample again
    aborted_samples,     \* indices collected by abort
    buffer,              \* RolloutDataSourceWithBuffer.buffer
    sample_group_index,  \* of the next group from the dataset
    drops,               \* groups rejected so far
    failures,            \* exceptions so far
    failed,              \* groups whose gather has raised
    fate,                \* what became of the groups that left
    args

vars == <<rollout_id, pc, remaining_batch_size, aborted, groups, pendings, scoring, finished,
          done, data, retry_groups, aborted_samples, buffer, sample_group_index, drops, failures,
          failed, fate, args>>

\* reward is -1 for None, else the length of the response that was scored.
\* loss_mask is <<>> for None as well.  text: response is not "".
FreshSample == [status |-> "pending", response |-> <<>>, text |-> FALSE, loss_mask |-> <<>>,
                masked |-> FALSE, reward |-> -1, pc |-> "off"]

Samples == 1..args.n_samples_per_prompt

FreshGroup(retry) == [retry |-> retry, samples |-> [i \in Samples |-> FreshSample]]

SetOf(seq) == {seq[i] : i \in 1..Len(seq)}

(***************************************************************************)
(* Samples.                                                                *)
(***************************************************************************)
\* BUG: what was generated before is masked only once.
MaskOnce(s) ==
    IF args.partial_rollout /\ args.mask_offpolicy /\ Len(s.response) > 0 /\ ~s.masked
    THEN [s EXCEPT !.loss_mask = [i \in DOMAIN s.response |-> 0], !.masked = TRUE]
    ELSE s

\* The head of generate_and_rm masks what earlier rollouts generated ...
MaskOld(s) ==
    IF args.partial_rollout /\ args.mask_offpolicy /\ Len(s.response) > 0
    THEN [s EXCEPT !.loss_mask = [i \in DOMAIN s.response |-> 0], !.masked = TRUE]
    ELSE s

\* ... and returns at once when the sample is complete.
StartSample(s) ==
    [MaskOld(s) EXCEPT !.pc = IF s.status \in {"completed", "truncated"} THEN "end" ELSE "queued"]

\* sampling_params["max_new_tokens"]: what the response text tells is there.
Budget(s) == IF s.text THEN args.max_new_tokens - Len(s.response) ELSE args.max_new_tokens

\* BUG: a resumed sample is sent only its prompt.
NewTokensOfPrompt(s, k) == [j \in 1..k |-> [by |-> rollout_id, pos |-> j]]

\* The engine continues the tokens it is sent: all of them, or the prompt only.
NewTokens(s, k) ==
    LET base == IF s.text THEN Len(s.response) ELSE 0
    IN  [j \in 1..k |-> [by |-> rollout_id, pos |-> base + j]]

\* The mask covers the new tokens too; single_turn.generate does not extend it.
Extended(s, k, status, text) ==
    [s EXCEPT !.response = @ \o NewTokens(s, k),
              !.text = @ \/ text,
              !.loss_mask = IF s.masked /\ args.impl = "sglang" THEN @ \o [j \in 1..k |-> 1] ELSE @,
              !.status = status]

\* BUG: a sample is scored although it was aborted.
ScoreAborted(s) == IF ~args.group_rm /\ s.reward = -1 THEN "rm" ELSE "end"

\* After generate: aborted samples and those with a reward are not scored.
NextStage(s) ==
    IF ~args.group_rm /\ s.status # "aborted" /\ s.reward = -1 THEN "rm" ELSE "end"

\* BUG: a task that raises keeps its permit.
GeneratingOrRaised ==
    {x \in (DOMAIN groups) \X Samples : groups[x[1]].samples[x[2]].pc \in {"generating", "raised"}}

\* The samples that hold a permit, those of lost groups included.
Generating == {x \in (DOMAIN groups) \X Samples : groups[x[1]].samples[x[2]].pc = "generating"}

Main == <<rollout_id, pc, remaining_batch_size, aborted, pendings, done, data, retry_groups,
          aborted_samples, buffer, sample_group_index, drops, fate>>

Tasks == <<scoring, finished, failures, failed>>

SetSample(g, i, s) == groups' = [groups EXCEPT ![g].samples[i] = s]

\* A permit of the semaphore is free: nothing is generated after an abort, and
\* nothing when no token is left.
AcquireSemaphore(g, i) ==
    LET s == groups[g].samples[i] IN
    /\ s.pc = "queued" /\ Cardinality(Generating) < args.concurrency
    /\ \/ /\ aborted
          /\ SetSample(g, i, [s EXCEPT !.status = "aborted", !.pc = "end"])
       \/ /\ ~aborted /\ Budget(s) = 0
          /\ LET t == [s EXCEPT !.status = "truncated"]
             IN  SetSample(g, i, [t EXCEPT !.pc = NextStage(t)])
       \/ /\ ~aborted /\ Budget(s) > 0
          /\ SetSample(g, i, [s EXCEPT !.pc = "generating"])
    /\ UNCHANGED <<Main, Tasks>>

\* The engine answers with k tokens; it may abort once it was told to.
EngineReturns(g, i, k, text) ==
    LET s == groups[g].samples[i] IN
    /\ s.pc = "generating" /\ k <= Budget(s)
    /\ \E status \in {"completed", "truncated", "aborted"} :
        /\ status = "completed" => k > 0
        /\ status = "truncated" => k = Budget(s)
        /\ status = "aborted" => aborted
        /\ LET t == Extended(s, k, status, text)
           IN  SetSample(g, i, [t EXCEPT !.pc = NextStage(t)])
    /\ UNCHANGED <<Main, Tasks>>

RewardArrives(g, i) ==
    LET s == groups[g].samples[i] IN
    /\ s.pc = "rm"
    /\ SetSample(g, i, [s EXCEPT !.reward = Len(s.response), !.pc = "end"])
    /\ UNCHANGED <<Main, Tasks>>

\* A post that failed for good or a reward model raises.  gather raises at once,
\* and leaves the other samples of the group running.
SampleRaises(g, i) ==
    /\ groups[g].samples[i].pc \in {"generating", "rm"} /\ failures < args.failures
    /\ failures' = failures + 1
    /\ SetSample(g, i, [groups[g].samples[i] EXCEPT !.pc = "raised"])
    /\ IF g \in pendings
       THEN finished' = finished \cup {g} /\ failed' = failed \cup {g}
       ELSE UNCHANGED <<finished, failed>>
    /\ UNCHANGED <<Main, scoring>>

\* gather returns: the group reward is awaited unless the rollout is aborted.
SamplesGathered(g) ==
    /\ g \in pendings \ (finished \cup scoring)
    /\ \A i \in Samples : groups[g].samples[i].pc = "end"
    /\ IF ~aborted /\ args.group_rm
       THEN scoring' = scoring \cup {g} /\ UNCHANGED finished
       ELSE finished' = finished \cup {g} /\ UNCHANGED scoring
    /\ UNCHANGED <<Main, groups, failures, failed>>

GroupRewardArrives(g) ==
    /\ g \in scoring
    /\ scoring' = scoring \ {g} /\ finished' = finished \cup {g}
    /\ groups' = [groups EXCEPT ![g].samples =
            [i \in Samples |-> LET s == groups[g].samples[i]
                               IN  [s EXCEPT !.reward = Len(s.response)]]]
    /\ UNCHANGED <<Main, failures, failed>>

GroupRewardRaises(g) ==
    /\ g \in scoring /\ failures < args.failures
    /\ failures' = failures + 1
    /\ scoring' = scoring \ {g} /\ finished' = finished \cup {g} /\ failed' = failed \cup {g}
    /\ UNCHANGED <<Main, groups>>

(***************************************************************************)
(* generate_rollout_async.                                                 *)
(***************************************************************************)
Init ==
    /\ args \in Configurations
    /\ rollout_id = 0 /\ pc = "fill"
    /\ remaining_batch_size = 0 /\ aborted = FALSE
    /\ groups = <<>>
    /\ pendings = {} /\ scoring = {} /\ finished = {} /\ done = {} /\ data = {}
    /\ retry_groups = <<>> /\ aborted_samples = <<>> /\ buffer = <<>>
    /\ sample_group_index = 0 /\ drops = 0 /\ failures = 0 /\ failed = {}
    /\ fate = <<>>

\* What the fill loop counts as kept or on its way: a counter, or what is there.
OnTheWay ==
    IF args.impl = "sglang" THEN remaining_batch_size ELSE Cardinality(data) + Cardinality(pendings)

Counted(n) ==
    remaining_batch_size' = IF args.impl = "sglang" THEN remaining_batch_size + n ELSE 0

Min2(a, b) == IF a < b THEN a ELSE b

\* submit_generate_tasks; new holds the groups that are not alive yet.
Submit(indices, new) ==
    /\ groups' = [g \in DOMAIN groups \cup DOMAIN new |->
            LET grp == IF g \in DOMAIN groups THEN groups[g] ELSE new[g]
            IN  IF g \in indices
                THEN [grp EXCEPT !.samples = [i \in Samples |-> StartSample(grp.samples[i])]]
                ELSE grp]
    /\ pendings' = pendings \cup indices
    /\ Counted(Cardinality(indices))

Short == pc = "fill" /\ Cardinality(data) < args.rollout_batch_size
                     /\ OnTheWay < args.rollout_batch_size

SubmitRetries ==
    /\ Short /\ retry_groups # <<>>
    /\ LET n == Min2(Len(retry_groups), args.rollout_batch_size - OnTheWay) IN
       /\ Submit(SetOf(SubSeq(retry_groups, 1, n)), <<>>)
       /\ retry_groups' = SubSeq(retry_groups, n + 1, Len(retry_groups))
    /\ UNCHANGED <<rollout_id, pc, aborted, scoring, finished, done, data, aborted_samples,
                   buffer, sample_group_index, drops, failures, failed, fate>>

\* get_samples takes from the buffer first, then from the dataset.
SubmitFetched ==
    /\ Short /\ retry_groups = <<>>
    /\ LET n == Min2(Len(buffer), args.over_sampling_batch_size)
           fresh == sample_group_index..(sample_group_index + args.over_sampling_batch_size - n - 1)
       IN
       /\ Submit(SetOf(SubSeq(buffer, 1, n)) \cup fresh, [g \in fresh |-> FreshGroup(0)])
       /\ buffer' = SubSeq(buffer, n + 1, Len(buffer))
       /\ sample_group_index' = sample_group_index + args.over_sampling_batch_size - n
    /\ UNCHANGED <<rollout_id, pc, aborted, scoring, finished, done, data, retry_groups,
                   aborted_samples, drops, failures, failed, fate>>

StartWait ==
    /\ pc = "fill" /\ Cardinality(data) < args.rollout_batch_size
    /\ OnTheWay >= args.rollout_batch_size
    /\ pc' = "wait"
    /\ UNCHANGED <<rollout_id, remaining_batch_size, aborted, groups, pendings, scoring, finished,
                   done, data, retry_groups, aborted_samples, buffer, sample_group_index, drops,
                   failures, failed, fate>>

\* BUG: tasks that are done stay among the pending ones.
WaitKeepsDone ==
    /\ pc = "wait" /\ finished # {}
    /\ done' = finished /\ finished' = {}
    /\ pc' = "collect"
    /\ UNCHANGED <<rollout_id, remaining_batch_size, aborted, groups, pendings, scoring, data,
                   retry_groups, aborted_samples, buffer, sample_group_index, drops, failures, failed, fate>>

\* asyncio.wait returns every task that is done.
WaitReturns ==
    /\ pc = "wait" /\ finished # {}
    /\ done' = finished /\ pendings' = pendings \ finished /\ finished' = {}
    /\ pc' = "collect"
    /\ UNCHANGED <<rollout_id, remaining_batch_size, aborted, groups, scoring, data,
                   retry_groups, aborted_samples, buffer, sample_group_index, drops, failures, failed, fate>>

Without(f, S) == [x \in DOMAIN f \ S |-> f[x]]

\* The groups S leave for one reason.
Fated(f, S, what) == [g \in DOMAIN f \cup S |-> IF g \in S THEN what ELSE f[g]]

Leave(S, what) ==
    /\ groups' = Without(groups, S)
    /\ fate' = Fated(fate, S, what)

\* The dynamic filter keeps a group; a surplus one is dropped.
KeepGroup(g) ==
    /\ pc = "collect" /\ g \in done \ failed
    /\ done' = done \ {g}
    /\ IF Cardinality(data) < args.rollout_batch_size
       THEN data' = data \cup {g} /\ UNCHANGED <<groups, fate>>
       ELSE Leave({g}, "surplus") /\ UNCHANGED data
    /\ UNCHANGED <<rollout_id, pc, remaining_batch_size, aborted, pendings, scoring, finished,
                   retry_groups, aborted_samples, buffer, sample_group_index, drops, failures, failed>>

\* The dynamic filter rejects a group; a clone of it may be sampled again.
RejectGroup(g, retryable) ==
    /\ pc = "collect" /\ g \in done \ failed /\ drops < args.drops
    /\ done' = done \ {g}
    /\ drops' = drops + 1
    /\ Counted(-1)
    /\ IF retryable /\ groups[g].retry < args.max_retries
       THEN /\ retry_groups' = Append(retry_groups, g)
            /\ groups' = [groups EXCEPT ![g] = FreshGroup(groups[g].retry + 1)]
            /\ UNCHANGED fate
       ELSE Leave({g}, "rejected") /\ UNCHANGED retry_groups
    /\ UNCHANGED <<rollout_id, pc, aborted, pendings, scoring, finished, data,
                   aborted_samples, buffer, sample_group_index, failures, failed>>

\* The exception of a task is logged and its group lost; sglang_rollout lets it
\* through, and the job ends.
MeetFailed(g) ==
    /\ pc = "collect" /\ g \in done \cap failed
    /\ IF args.impl = "sglang"
       THEN pc' = "failed" /\ UNCHANGED <<done, fate>>
       ELSE done' = done \ {g} /\ fate' = Fated(fate, {g}, "failed") /\ UNCHANGED pc
    /\ UNCHANGED <<rollout_id, remaining_batch_size, aborted, groups, pendings, scoring, finished,
                   data, retry_groups, aborted_samples, buffer, sample_group_index, drops, failures,
                   failed>>

\* The for loop over done is over; abort begins when there are enough groups.
DoneCollected ==
    /\ pc = "collect" /\ done = {}
    /\ IF Cardinality(data) < args.rollout_batch_size
       THEN pc' = "fill" /\ UNCHANGED aborted
       ELSE pc' = "abort" /\ aborted' = TRUE
    /\ UNCHANGED <<rollout_id, remaining_batch_size, groups, pendings, scoring, finished, done,
                   data, retry_groups, aborted_samples, buffer, sample_group_index, drops, failures,
                   failed, fate>>

\* gather over the posts to /abort_request raises; sglang_rollout logs it.
AbortPostRaises ==
    /\ pc = "collect" /\ done = {} /\ Cardinality(data) >= args.rollout_batch_size
    /\ args.impl = "inference" /\ failures < args.failures
    /\ failures' = failures + 1
    /\ aborted' = TRUE /\ pc' = "failed"
    /\ UNCHANGED <<rollout_id, remaining_batch_size, groups, pendings, scoring, finished, done, data,
                   retry_groups, aborted_samples, buffer, sample_group_index, drops, failed, fate>>

StopSamples(S) ==
    [g \in DOMAIN groups |->
        IF g \in S
        THEN [groups[g] EXCEPT !.samples =
                [i \in Samples |-> [groups[g].samples[i] EXCEPT !.pc = "off"]]]
        ELSE groups[g]]

\* abort waits for the pending tasks and recycles their groups.
CollectAborted(g) ==
    /\ pc = "abort" /\ g \in finished \ failed
    /\ pendings' = pendings \ {g} /\ finished' = finished \ {g}
    /\ IF args.partial_rollout
       THEN /\ aborted_samples' = Append(aborted_samples, g)
            /\ groups' = StopSamples({g})
            /\ UNCHANGED fate
       ELSE Leave({g}, "discarded") /\ UNCHANGED aborted_samples
    /\ UNCHANGED <<rollout_id, pc, remaining_batch_size, aborted, scoring, done, data,
                   retry_groups, buffer, sample_group_index, drops, failures, failed>>

\* Exceptions surface unless sglang_rollout does not look at the results.
AbortMeetsFailed(g) ==
    /\ pc = "abort" /\ g \in finished \cap failed
    /\ IF args.impl = "inference" \/ args.partial_rollout
       THEN pc' = "failed" /\ UNCHANGED <<pendings, finished, fate>>
       ELSE /\ pendings' = pendings \ {g} /\ finished' = finished \ {g}
            /\ fate' = Fated(fate, {g}, "failed")
            /\ UNCHANGED pc
    /\ UNCHANGED <<rollout_id, remaining_batch_size, aborted, groups, scoring, done, data,
                   retry_groups, aborted_samples, buffer, sample_group_index, drops, failures, failed>>

Delivering == pc = "abort" /\ pendings = {}

\* The state is reset, the data go to training and the rest to the buffer;
\* groups still in retry_groups are forgotten.
FinishRollout ==
    /\ Delivering
    /\ remaining_batch_size' = 0 /\ aborted' = FALSE
    /\ groups' = Without(groups, data \cup SetOf(retry_groups))
    /\ fate' = Fated(Fated(fate, SetOf(retry_groups), "rejected"), data, "trained")
    /\ buffer' = buffer \o aborted_samples
    /\ data' = {} /\ retry_groups' = <<>> /\ aborted_samples' = <<>>
    /\ rollout_id' = rollout_id + 1
    /\ pc' = IF rollout_id + 1 < args.rollouts THEN "fill" ELSE "end"
    /\ UNCHANGED <<pendings, scoring, finished, done, sample_group_index, drops, failures, failed>>

(***************************************************************************)
(* Specification.                                                          *)
(***************************************************************************)
SampleStep(g, i) ==
    \/ AcquireSemaphore(g, i)
    \/ \E k \in 0..args.max_new_tokens, text \in (IF args.silent THEN BOOLEAN ELSE {TRUE}) :
        EngineReturns(g, i, k, text /\ k > 0)
    \/ RewardArrives(g, i)
    \/ SampleRaises(g, i)

TaskStep(g) ==
    \/ \E i \in Samples : SampleStep(g, i)
    \/ SamplesGathered(g) \/ GroupRewardArrives(g) \/ GroupRewardRaises(g)

MainStep ==
    /\ UNCHANGED args
    /\ \/ SubmitRetries \/ SubmitFetched \/ StartWait \/ WaitReturns
       \/ \E g \in done :
           KeepGroup(g) \/ MeetFailed(g) \/ \E retryable \in BOOLEAN : RejectGroup(g, retryable)
       \/ DoneCollected \/ AbortPostRaises
       \/ \E g \in finished : CollectAborted(g) \/ AbortMeetsFailed(g)
       \/ FinishRollout

Over == pc \in {"end", "failed"}

Ended == Over /\ UNCHANGED vars

\* The task of every group that is alive, those of lost groups included.
SomeTaskStep == ~Over /\ (\E g \in DOMAIN groups : TaskStep(g)) /\ UNCHANGED args

Next ==
    \/ SomeTaskStep
    \/ MainStep
    \/ Ended

Spec == Init /\ [][Next]_vars

\* Engines and reward models answer, and the event loop runs on.
FairSpec == Spec /\ WF_vars(SomeTaskStep) /\ WF_vars(MainStep)

(***************************************************************************)
(* Properties.                                                             *)
(***************************************************************************)
(* What is trained on is complete: no sample of a delivered group is       *)
(* pending or aborted, and its reward is that of its final response, even  *)
(* if it was aborted, recycled and continued on the way.                   *)
DeliveredComplete ==
    Delivering => \A g \in data, i \in Samples :
        LET s == groups[g].samples[i]
        IN  s.status \in {"completed", "truncated"} /\ s.reward = Len(s.response)

(* "Only on-policy generated tokens will be used in training": a token of  *)
(* a delivered sample counts for the loss exactly when this rollout        *)
(* generated it (no mask: all of them count).                              *)
OnlyOnPolicyTrained ==
    Delivering /\ args.partial_rollout /\ args.mask_offpolicy => \A g \in data, i \in Samples :
        LET s == groups[g].samples[i]
        IN  /\ s.masked => Len(s.loss_mask) = Len(s.response)
            /\ \A j \in DOMAIN s.response :
                (s.response[j].by = rollout_id) <=> (s.masked => s.loss_mask[j] = 1)

(* A response is one text, however often it was aborted and continued:     *)
(* every token was generated after all the tokens before it, and there are *)
(* no more of them than --rollout-max-response-len.                        *)
TokensFollow ==
    \A g \in DOMAIN groups, i \in Samples :
        LET r == groups[g].samples[i].response
        IN  Len(r) <= args.max_new_tokens /\ \A j \in DOMAIN r : r[j].pos = j

(* Every group that was fetched is in one place: pending, being collected, *)
(* kept, to be retried, recycled or gone for one reason; none is lost, and *)
(* none is trained on twice.  "The unfinished samples ... will be recycled *)
(* back to data buffer": with partial rollout the abort discards nothing.  *)
OnePlaceEach ==
    LET places == <<pendings, done, data, SetOf(retry_groups), SetOf(aborted_samples), SetOf(buffer),
                    DOMAIN fate>>
    IN  /\ UNION SetOf(places) = 0..(sample_group_index - 1)
        /\ \A a, b \in DOMAIN places : a # b => places[a] \cap places[b] = {}
        /\ Cardinality(SetOf(buffer)) = Len(buffer)
        /\ args.partial_rollout => \A g \in DOMAIN fate : fate[g] # "discarded"

(* Every rollout ends, when the filter rejects finitely many groups: the   *)
(* loop that fetches, waits and aborts gets to its end, or the job fails   *)
(* with the exception of a task.                                           *)
RolloutsEnd == <>Over
=============================================================================
