---------------------------- MODULE Conversations ----------------------------
(***************************************************************************)
(* The functions that generate a sample in several turns with tools:       *)
(* multi_turn, unified_generate and tir_generate of generate_hub.  One     *)
(* sample awaits one call after the other, so a conversation is a function *)
(* of what the engine and the tools have to say.  A token is who it is     *)
(* from and its position.                                                  *)
(*                                                                         *)
(* g, the function and its options: kind ("multi_turn", "unified" or       *)
(* "tir"), max_turns, max_response_len, max_context_len (0 for none),      *)
(* dynamic and per_turn_cap (not with multi_turn), multi_samples (with     *)
(* multi_turn only), routed for --use-rollout-routing-replay.              *)
(* talk, a conversation: prompt, the number of its tokens, and turns:      *)
(* says, how many tokens the engine has to say, finish ("stop" or          *)
(* "abort"), hears, how many tokens the tools respond with, 0 for no tool  *)
(* call, and late, whether the time of the sample is up before the turn;   *)
(* sandbox, whether tir_generate gets one to run the tools in.             *)
(***************************************************************************)
EXTENDS Samples

From(who, first, n) == [i \in 1..n |-> <<who, first + i - 1>>]

After(tokens, who, n) == From(who, Len(tokens), n)

\* What is left of the context, or a cap below it.
_compute_dynamic_max_new_tokens(g, len) ==
    LET remaining == g.max_context_len - len
    IN  CASE ~g.dynamic \/ g.max_context_len = 0 -> g.max_response_len
          [] remaining <= 0 -> 0
          [] g.per_turn_cap > 0 /\ remaining > 0 -> Min({remaining, g.per_turn_cap})
          [] OTHER -> remaining

\* BUG: the context is not looked at.
payload_without_context(g, len) == IF g.kind = "multi_turn" THEN g.max_response_len ELSE _compute_dynamic_max_new_tokens(g, len)

\* max_new_tokens of the payload; none is sent when it is not positive.
compute_request_payload(g, len) ==
    LET asked == IF g.kind = "multi_turn" THEN g.max_response_len ELSE _compute_dynamic_max_new_tokens(g, len)
    IN  IF g.max_context_len > 0 THEN Min({asked, g.max_context_len - len}) ELSE asked

\* SGLang: as much as it has to say, and no more than it may.
Answer(turn, limit) ==
    [says |-> Min({turn.says, limit}),
     finish |-> IF turn.finish = "abort" THEN "abort" ELSE IF turn.says > limit THEN "length" ELSE "stop"]

(***************************************************************************)
(* A turn of the loop.                                                     *)
(***************************************************************************)
End(state, status) == [state EXCEPT !.over = TRUE, !.sample.status = status]

\* tir_generate: the time is up; a sample without a response has failed.
TimeUp(state) == End(state, IF state.sample.response_length = 0 THEN "FAILED" ELSE state.sample.status)

\* There is no room for an answer; the last of several samples is told.
Halt(state) ==
    [End(state, "TRUNCATED") EXCEPT !.samples =
        [i \in DOMAIN @ |-> IF i = Len(@) THEN [@[i] EXCEPT !.status = "TRUNCATED"] ELSE @[i]]]

\* With multi_samples the answer goes into a new sample with all before it as its prompt.
OfTurn(g, sample) == IF g.multi_samples THEN NewSample(sample.tokens) ELSE sample

Padded(g, sample) == IF g.kind = "multi_turn" THEN _pad_routed_experts_if_needed(sample, g.routed) ELSE sample

Talk(g, state, turn) ==
    LET answer == Answer(turn, compute_request_payload(g, Len(state.sample.tokens)))
        said == update_sample_from_response(OfTurn(g, state.sample), After(state.sample.tokens, "engine", answer.says),
                                            answer.finish, g.routed)
        heard == update_sample_with_tool_responses(said, After(said.tokens, "tool", turn.hears))
        over == answer.finish \in {"abort", "length"} \/ turn.hears = 0
    IN  [sample |-> IF over THEN said ELSE Padded(g, heard),
         samples |-> IF g.multi_samples THEN Append(state.samples, said) ELSE <<>>,
         over |-> over]

Turn(g, state, turn) ==
    CASE state.over -> state
      [] ~state.over /\ g.kind = "tir" /\ turn.late -> TimeUp(state)
      [] ~state.over /\ ~(g.kind = "tir" /\ turn.late)
            /\ compute_request_payload(g, Len(state.sample.tokens)) <= 0 -> Halt(state)
      [] OTHER -> Talk(g, state, turn)

\* tir_generate makes sure of log-probs that are a list.
Begin(g, talk) ==
    LET sample == NewSample(From("prompt", 0, talk.prompt))
    IN  IF g.kind = "tir" THEN [sample EXCEPT !.rollout_log_probs = <<>>] ELSE sample

\* The samples of a conversation: one, or with multi_samples one of each answer.
generate(g, talk) ==
    LET begin == [sample |-> Begin(g, talk), samples |-> <<>>, over |-> FALSE]
        turns == SubSeq(talk.turns, 1, Min({g.max_turns, Len(talk.turns)}))
        end == FoldLeft(LAMBDA state, turn : Turn(g, state, turn), begin, turns)
    IN  CASE g.multi_samples -> end.samples
          [] g.kind = "tir" /\ ~talk.sandbox -> <<[Begin(g, talk) EXCEPT !.status = "FAILED"]>>
          [] g.kind = "tir" /\ talk.sandbox -> <<_pad_routed_experts_if_needed(end.sample, g.routed)>>
          [] OTHER -> <<end.sample>>
=============================================================================
