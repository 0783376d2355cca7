--------------------------- MODULE ContextParallel ---------------------------
(***************************************************************************)
(* Context parallelism (backends/training_utils/cp_utils.py): a sequence   *)
(* is padded to 2 * cp chunks; rank r of cp holds chunk r and chunk        *)
(* 2 * cp - 1 - r, the zigzag.  The logit at a position predicts the token *)
(* after it.  Positions count from 0; ranges are pairs, the end excluded.  *)
(***************************************************************************)
EXTENDS Integers, Sequences, FiniteSetsExt, SequencesExt

\* s[a:b], where a negative index counts from the end.
slice(s, a, b) ==
    LET at(i) == IF i < 0 THEN Max({0, i + Len(s)}) ELSE Min({i, Len(s)})
    IN  SubSeq(s, at(a) + 1, at(b))

Const(n, x) == [i \in 1..n |-> x]

Length(range) == range[2] - range[1]

\* What two ranges are of a sequence that begins at a position.
Halves(x, o, first) == slice(x, o[1][1] - first, o[1][2] - first) \o slice(x, o[2][1] - first, o[2][2] - first)

chunk_size(span, cp) == (span + 2 * cp - 1) \div (2 * cp)

chunk_offsets(span, cp, r) ==
    LET c == chunk_size(span, cp)
    IN  <<<<r * c, (r + 1) * c>>, <<(2 * cp - r - 1) * c, (2 * cp - r) * c>>>>

\* The part of a chunk that predicts response tokens.
Predicting(chunk, total, response) ==
    LET range == <<Max({chunk[1], total - response - 1}), Min({chunk[2], total - 1})>>
    IN  IF Length(range) > 0 THEN range ELSE <<0, 0>>

OneOn(range) == IF Length(range) > 0 THEN <<range[1] + 1, range[2] + 1>> ELSE <<0, 0>>

\* Of the two chunks of a rank, the logits that predict response tokens.
logits_offset(total, response, span, cp, r) ==
    [i \in 1..2 |-> Predicting(chunk_offsets(span, cp, r)[i], total, response)]

tokens_offset(total, response, span, cp, r) ==
    [i \in 1..2 |-> OneOn(logits_offset(total, response, span, cp, r)[i])]

\* The two chunks of a rank, of the padded sequence.
slice_with_cp(tokens, span, cp, r, pad_value) ==
    IF cp = 1 THEN tokens \o Const(span - Len(tokens), pad_value)
    ELSE Halves(tokens \o Const(2 * cp * chunk_size(span, cp) - Len(tokens), pad_value), chunk_offsets(span, cp, r), 0)

\* What belongs to a rank of one value per response token.
slice_log_prob_with_cp(log_prob, total, response, span, cp, r) ==
    IF cp = 1 THEN log_prob
    ELSE Halves(log_prob, logits_offset(total, response, span, cp, r), total - response - 1)

\* BUG: the halves are swapped.
_slice_loss_mask_swapped(total, response, mask, span, cp, r) ==
    IF cp = 1 THEN mask
    ELSE Halves(mask, Reverse(tokens_offset(total, response, span, cp, r)), total - response)

_slice_loss_mask_for_local_cp(total, response, mask, span, cp, r) ==
    IF cp = 1 THEN mask
    ELSE Halves(mask, tokens_offset(total, response, span, cp, r), total - response)

\* The value of a logit, in a part that has those of two ranges.
ValueAt(part, o, logit) ==
    CASE o[1][1] <= logit /\ logit < o[1][2] -> part[logit - o[1][1] + 1]
      [] o[2][1] <= logit /\ logit < o[2][2] -> part[Length(o[1]) + logit - o[2][1] + 1]
      [] OTHER -> 0

\* A rank's part, at its places in the whole response, with zeros elsewhere.
local_response_to_full(part, total, response, span, cp, r) ==
    [i \in 1..response |->
        ValueAt(part, logits_offset(total, response, span, cp, r), total - response - 2 + i)]

\* all_reduce: of vectors of the same length, one per rank.
Sum(vectors) == [i \in DOMAIN vectors[1] |-> FoldLeft(LAMBDA x, v : x + v[i], 0, vectors)]

(***************************************************************************)
(* Which logits and tokens of a micro-batch a rank pairs up (get_responses *)
(* of loss.py): of each sample [total, response, tokens] of the batch.     *)
(***************************************************************************)
\* Where sample i begins in the rank's stream of logits.
Begin(batch, spans, i, cp, width) ==
    FoldLeft(LAMBDA x, j : x + (IF cp = 1 THEN width[j] ELSE 2 * chunk_size(spans[j], cp)), 0,
             [j \in 1..(i - 1) |-> j])

\* A rank's two pieces of size c, of which what is in the ranges.
OfPieces(logits, c, chunk, lo) ==
    LET piece(k) == slice(slice(logits, (k - 1) * c, k * c), lo[k][1] - chunk[k][1], lo[k][2] - chunk[k][1])
    IN  piece(1) \o piece(2)

\* Of one sample, whose logits begin the stream.
response_of(logits, b, span, cp, r) ==
    IF cp = 1
    THEN [logits |-> slice(logits, b.total - b.response - 1, b.total - 1),
          tokens |-> slice(b.tokens, -b.response, b.total)]
    ELSE [logits |-> OfPieces(logits, chunk_size(span, cp), chunk_offsets(span, cp, r),
                              logits_offset(b.total, b.response, span, cp, r)),
          tokens |-> Halves(b.tokens, tokens_offset(b.total, b.response, span, cp, r), 0)]

get_responses(logits, batch, spans, width, cp, r) ==
    [i \in DOMAIN batch |->
        response_of(slice(logits, Begin(batch, spans, i, cp, width), Len(logits)), batch[i], spans[i], cp, r)]
=============================================================================
