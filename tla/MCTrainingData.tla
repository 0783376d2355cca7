---------------------------- MODULE MCTrainingData ----------------------------
(***************************************************************************)
(* Setups for TLC: four samples of different shapes, of two prompts, on    *)
(* two ranks.                                                              *)
(***************************************************************************)
EXTENDS TrainingData

\* What the engine has to say, and what the tools answer.
Says(n, finish, hears) == [says |-> n, finish |-> finish, hears |-> hears, late |-> FALSE]

\* A conversation that gives a sample of a total and a response length, the second
\* token of a longer response said by a tool; the engine has aborted an empty one.
TalkOf(total, response) ==
    [prompt |-> total - response, sandbox |-> TRUE,
     turns |-> CASE response = 0 -> <<Says(0, "abort", 0)>>
                 [] response \in 1..2 -> <<Says(response, "stop", 0)>>
                 [] OTHER -> <<Says(1, "stop", 1), Says(response - 2, "stop", 0)>>]

\* <<total, response>> of four samples, in the order of the rollout.
Shapes == {<<<<9, 6>>, <<3, 1>>, <<5, 4>>, <<12, 3>>>>,
           <<<<3, 2>>, <<17, 3>>, <<6, 5>>, <<8, 7>>>>,
           <<<<5, 0>>, <<2, 1>>, <<7, 4>>, <<4, 3>>>>,
           <<<<3, 2>>, <<4, 1>>, <<5, 2>>>>}

Rollout(talks) ==
    [i \in DOMAIN talks |-> [talk |-> talks[i], reward |-> i * (i - 1), remove |-> i = 3]]

RolloutOf(shape) == Rollout([i \in DOMAIN shape |-> TalkOf(shape[i][1], shape[i][2])])

Generator ==
    [kind |-> "multi_turn", max_turns |-> 3, max_response_len |-> 20, max_context_len |-> 0, dynamic |-> FALSE,
     per_turn_cap |-> 0, multi_samples |-> FALSE, routed |-> FALSE]

Base(shape) ==
    [rollouts |-> <<RolloutOf(shape)>>, generator |-> Generator, overlong_filtering |-> FALSE,
     use_rollout_logprobs |-> FALSE, replay |-> "none", recompute |-> FALSE,
     n_samples_per_prompt |-> 2, rollout_batch_size |-> 2,
     global_batch_size |-> 2, dynamic_gbs |-> FALSE, dp |-> 2, cp |-> 1, layout |-> "thd", pad_size |-> 4,
     balance_data |-> FALSE, use_dynamic_batch_size |-> TRUE, max_tokens_per_gpu |-> 9,
     micro_batch_size |-> 1, vpp_group |-> 1, experts |-> TRUE, estimator |-> "grpo", gamma |-> 1,
     lambd |-> [n \in 0..20 |-> 2], decoupled |-> FALSE, chunk_size |-> 2, per_token |-> FALSE]

\* Cutting: context parallelism in each layout.
Cutting ==
    UNION {{[Base(shape) EXCEPT !.cp = c, !.layout = l, !.global_batch_size = g, !.use_dynamic_batch_size = b,
                !.per_token = t] :
              c \in {1, 2, 3}, l \in {"thd", "bshd", "allgather"}, g \in {2, 4}, b \in BOOLEAN, t \in BOOLEAN} : shape \in Shapes}

\* Dealing: balanced or not, a virtual pipeline, a global batch by what is there.
Dealing ==
    UNION {{[Base(shape) EXCEPT !.balance_data = b, !.vpp_group = v, !.dynamic_gbs = y, !.dp = d,
                !.global_batch_size = d, !.max_tokens_per_gpu = 17] :
              b \in BOOLEAN, v \in {1, 2}, y \in BOOLEAN, d \in {2, 4}} : shape \in Shapes}

\* Crediting: ppo, with one lambda or one of each length, in chunks of two and three.
Crediting ==
    UNION {{[Base(shape) EXCEPT !.estimator = "ppo", !.cp = c, !.chunk_size = k, !.decoupled = m,
                !.lambd = [n \in 0..20 |-> IF m THEN (n % 3) ELSE 2]] :
              c \in {1, 2}, k \in {2, 3}, m \in BOOLEAN} : shape \in Shapes}

\* Discounting: reinforce_plus_plus, also with a sample that is masked.
Discounting ==
    UNION {{[Base(shape) EXCEPT !.estimator = "reinforce_plus_plus", !.cp = c, !.gamma = 2,
                !.rollouts = <<[i \in DOMAIN shape |-> [RolloutOf(shape)[i] EXCEPT !.remove = m /\ i = 3]]>>] :
              c \in {1, 2}, m \in BOOLEAN} : shape \in Shapes}

Talk(prompt, turns) == [prompt |-> prompt, sandbox |-> TRUE, turns |-> turns]

\* Several turns, long answers of tools and an abort; and a prompt that leaves no room,
\* a turn that comes late, a sample without a sandbox.
Talks == <<Talk(2, <<Says(2, "stop", 2), Says(2, "stop", 1), Says(1, "stop", 0)>>),
           Talk(3, <<Says(1, "stop", 4), Says(3, "stop", 0)>>),
           Talk(2, <<Says(4, "stop", 0)>>),
           Talk(4, <<Says(2, "stop", 1), Says(0, "abort", 0)>>)>>

Troubled == <<Talk(3, <<Says(2, "stop", 1), [Says(2, "stop", 0) EXCEPT !.late = TRUE]>>),
              Talk(9, <<Says(1, "stop", 0)>>),
              [Talk(2, <<Says(1, "stop", 0)>>) EXCEPT !.sandbox = FALSE],
              Talk(2, <<Says(1, "stop", 1), Says(1, "stop", 1), Says(1, "stop", 1)>>)>>

Generators ==
    {[Generator EXCEPT !.max_context_len = c, !.max_response_len = n, !.multi_samples = m] :
            c \in {0, 8}, n \in {2, 20}, m \in BOOLEAN}
        \cup {[Generator EXCEPT !.kind = k, !.max_context_len = c, !.dynamic = y, !.per_turn_cap = p] :
                k \in {"unified", "tir"}, c \in {0, 8}, y \in BOOLEAN, p \in {0, 2}}

\* Conversing: what each generator makes of them, scored by the engine or again.
Conversing ==
    {[Base(<<>>) EXCEPT !.generator = g, !.rollouts = <<Rollout(talks)>>, !.cp = c, !.overlong_filtering = r = c,
        !.use_rollout_logprobs = r = 1, !.max_tokens_per_gpu = 17] :
            g \in Generators, talks \in {Talks, Troubled}, c \in {1, 2}, r \in {1, 2}}

\* The second and the fourth one changed about: other samples in the same places.
Later == <<Talks[1], Talks[4], Talks[3], Talks[2]>>

\* Replaying: routing recorded by the pass before or by the rollout, of two rollouts.
Replaying ==
    {[Base(<<>>) EXCEPT !.generator = [Generator EXCEPT !.kind = k, !.routed = w = "rollout"], !.replay = w,
        !.rollouts = <<Rollout(Talks), Rollout(next)>>, !.recompute = b, !.cp = c, !.use_rollout_logprobs = r,
        !.layout = IF d THEN "thd" ELSE "bshd", !.use_dynamic_batch_size = d, !.max_tokens_per_gpu = 17] :
            k \in {"multi_turn", "unified", "tir"}, w \in {"routing", "rollout"}, next \in {Later, Troubled},
            b \in BOOLEAN, c \in {1, 2}, r \in BOOLEAN, d \in BOOLEAN}

MCConfigurations ==
    {c \in Cutting \cup Dealing \cup Crediting \cup Discounting \cup Conversing \cup Replaying :
        c.layout = "allgather" => c.cp > 1}
=============================================================================
