----------------------- MODULE RolloutGenerateProofs -----------------------
(***************************************************************************)
(* For every set of command lines: no group of samples is lost, duplicated *)
(* or trained on twice; what is trained on is complete; the tokens of a    *)
(* response follow one another; and a masked partial rollout trains on the *)
(* tokens of its own rollout only.                                         *)
(***************************************************************************)
EXTENDS RolloutGenerate, FiniteSetTheorems, TLAPS

(***************************************************************************)
(* Types.                                                                  *)
(***************************************************************************)
Statuses == {"pending", "aborted", "completed", "truncated"}
Final == {"completed", "truncated"}
Stages == {"off", "queued", "generating", "rm", "end", "raised"}
Token == [by : Nat, pos : Nat]

Sample ==
    [status : Statuses, response : Seq(Token), text : BOOLEAN, loss_mask : Seq({0, 1}),
     masked : BOOLEAN, reward : Int, pc : Stages]

Group == [retry : Nat, samples : [Samples -> Sample]]

ArgsTyped ==
    /\ args \in Configurations
    /\ args.max_new_tokens \in Nat \ {0} /\ args.rollout_batch_size \in Nat \ {0}
    /\ args.over_sampling_batch_size \in Nat
    /\ args.over_sampling_batch_size >= args.rollout_batch_size

TypeInv ==
    /\ ArgsTyped
    /\ rollout_id \in Nat /\ sample_group_index \in Nat /\ remaining_batch_size \in Int
    /\ aborted \in BOOLEAN
    /\ groups \in [DOMAIN groups -> Group]
    /\ retry_groups \in Seq(Nat) /\ aborted_samples \in Seq(Nat) /\ buffer \in Seq(Nat)

LEMMA ArgsOk ==
    ASSUME args \in Configurations
    PROVE  ArgsTyped
  BY RolloutAssumption DEF ArgsTyped, IsConfiguration

(***************************************************************************)
(* Samples.  What holds of a sample wherever its group is: a score is that *)
(* of the whole response, nothing that is unfinished has one, and the      *)
(* tokens have the positions of one text.                                  *)
(***************************************************************************)
Scored(s) ==
    /\ s.status \in Final /\ s.pc \in {"end", "off"} /\ ~args.group_rm => s.reward = Len(s.response)
    /\ s.status \notin Final => s.reward = -1
    /\ s.pc \in {"queued", "generating"} => s.status \notin Final
    /\ s.pc = "rm" => s.status \in Final /\ ~args.group_rm

\* One text: tokens that decode to none are what breaks it.
OneText(s) ==
    ~args.silent =>
        /\ s.text <=> Len(s.response) > 0
        /\ Len(s.response) <= args.max_new_tokens
        /\ \A j \in DOMAIN s.response : s.response[j].pos = j

\* Nothing is from a later rollout, and only what there is is masked.
Past(s) ==
    /\ \A j \in DOMAIN s.response : s.response[j].by <= rollout_id
    /\ s.masked => Len(s.response) > 0

Sound(s) == Scored(s) /\ OneText(s) /\ Past(s)

\* The masks: a token counts for the loss if this rollout generated it.
Masking == args.partial_rollout /\ args.mask_offpolicy /\ args.impl = "sglang"

OnPolicy(s) ==
    Masking =>
        /\ s.masked => Len(s.loss_mask) = Len(s.response)
        /\ \A j \in DOMAIN s.response :
                s.response[j].by = rollout_id <=> (s.masked => s.loss_mask[j] = 1)

\* As a sample is before a rollout takes it up: all it has is old.
Old(s) == \A j \in DOMAIN s.response : s.response[j].by < rollout_id

Complete(s) == s.pc = "end" /\ s.status \in Final /\ s.reward = Len(s.response)

(* A fresh sample.                                                         *)
LEMMA FreshSound ==
    ASSUME ArgsTyped
    PROVE  FreshSample \in Sample /\ Sound(FreshSample) /\ Old(FreshSample) /\ FreshSample.pc = "off"
  <1>1. <<>> \in Seq(Token) /\ <<>> \in Seq({0, 1}) /\ Len(<<>>) = 0 /\ -1 \in Int
    OBVIOUS
  <1>2. FreshSample \in Sample
    BY <1>1 DEF FreshSample, Sample, Statuses, Stages
  <1>3. args.max_new_tokens \in Nat
    BY DEF ArgsTyped
  <1> QED
    BY <1>1, <1>2, <1>3 DEF FreshSample, Sound, Scored, OneText, Past, Old, Final

(* A rollout takes up a sample: what is old is masked, and what is final   *)
(* is not generated again.                                                 *)
LEMMA StartSound ==
    ASSUME ArgsTyped, rollout_id \in Nat, NEW s \in Sample, Sound(s), Old(s), s.pc = "off"
    PROVE  /\ StartSample(s) \in Sample /\ Sound(StartSample(s)) /\ OnPolicy(StartSample(s))
           /\ StartSample(s).pc \in {"queued", "end"}
           /\ StartSample(s).pc = "end" => StartSample(s).status \in Final
  <1> DEFINE m == MaskOld(s)
             t == StartSample(s)
             zeros == [i \in DOMAIN s.response |-> 0]
             pc1 == IF s.status \in Final THEN "end" ELSE "queued"
  <1>1. s.response \in Seq(Token) /\ s.loss_mask \in Seq({0, 1}) /\ s.masked \in BOOLEAN
    BY DEF Sample
  <1>2. zeros \in Seq({0, 1}) /\ Len(zeros) = Len(s.response) /\ \A j \in DOMAIN s.response : zeros[j] = 0
    BY <1>1
  <1>3. DOMAIN s.response = 1..Len(s.response) /\ Len(s.response) \in Nat
    BY <1>1
  <1> HIDE DEF zeros
  <1>4. /\ m \in Sample /\ m.response = s.response /\ m.status = s.status /\ m.text = s.text
        /\ m.reward = s.reward
        /\ \/ m = s /\ (Masking => Len(s.response) = 0)
           \/ /\ m.loss_mask = zeros /\ m.masked /\ Len(s.response) > 0
    <2>1. CASE args.partial_rollout /\ args.mask_offpolicy /\ Len(s.response) > 0
      <3>1. m = [s EXCEPT !.loss_mask = zeros, !.masked = TRUE]
        BY <2>1 DEF MaskOld, zeros
      <3> HIDE DEF m
      <3> QED
        BY <1>2, <2>1, <3>1 DEF Sample
    <2>2. CASE ~(args.partial_rollout /\ args.mask_offpolicy /\ Len(s.response) > 0)
      BY <1>3, <2>2 DEF MaskOld, Masking
    <2> QED
      BY <2>1, <2>2
  <1>5. t = [m EXCEPT !.pc = pc1] /\ pc1 \in Stages
    BY DEF StartSample, Final, Stages
  <1> HIDE DEF m, t
  <1>6. /\ t \in Sample /\ t.response = s.response /\ t.status = s.status /\ t.text = s.text
        /\ t.reward = s.reward /\ t.loss_mask = m.loss_mask /\ t.masked = m.masked /\ t.pc = pc1
    BY <1>4, <1>5 DEF Sample
  <1>7. Sound(t)
    <2>1. Scored(t)
      BY <1>6 DEF Sound, Scored
    <2>2. OneText(t)
      BY <1>6 DEF Sound, OneText
    <2>3. Past(t)
      BY <1>4, <1>6 DEF Sound, Past
    <2> QED
      BY <2>1, <2>2, <2>3 DEF Sound
  <1>8. OnPolicy(t)
    <2>1. CASE m = s /\ (Masking => Len(s.response) = 0)
      BY <1>3, <1>6, <2>1 DEF OnPolicy, Sound, Past
    <2>2. CASE m.loss_mask = zeros /\ m.masked /\ Len(s.response) > 0
      <3>1. \A j \in DOMAIN s.response : s.response[j].by # rollout_id
        BY <1>1 DEF Old, Token
      <3> QED
        BY <1>2, <1>6, <2>2, <3>1 DEF OnPolicy
    <2> QED
      BY <1>4, <2>1, <2>2
  <1> QED
    BY <1>6, <1>7, <1>8 DEF t

(* What is said of a sample is said of it as long as the command line and  *)
(* the rollout are the same.                                               *)
LEMMA Stays ==
    ASSUME args' = args, rollout_id' = rollout_id
    PROVE  /\ Samples' = Samples
           /\ \A s : Sound(s)' <=> Sound(s)
           /\ \A s : OnPolicy(s)' <=> OnPolicy(s)
           /\ \A s : Old(s)' <=> Old(s)
  BY DEF Samples, Sound, Scored, OneText, Past, OnPolicy, Masking, Old

(* A step of a sample's task: from s to t.                                 *)
Moves(s, t) ==
    /\ s.pc \in {"queued", "generating", "rm"} /\ t.pc # "off"
    /\ t \in Sample /\ Sound(t) /\ (OnPolicy(s) => OnPolicy(t))
    /\ t.pc = "end" /\ ~aborted => t.status \in Final

(* Once the rollout is aborted, a sample in the queue is not generated.    *)
LEMMA AbortedMoves ==
    ASSUME aborted, NEW s \in Sample, Sound(s), s.pc = "queued"
    PROVE  Moves(s, [s EXCEPT !.status = "aborted", !.pc = "end"])
  <1> DEFINE t == [s EXCEPT !.status = "aborted", !.pc = "end"]
  <1>1. t \in Sample /\ t.status = "aborted" /\ t.pc = "end"
    BY DEF Sample, Statuses, Stages
  <1>2. /\ t.response = s.response /\ t.text = s.text /\ t.loss_mask = s.loss_mask
        /\ t.masked = s.masked /\ t.reward = s.reward
    BY DEF Sample
  <1> HIDE DEF t
  <1>3. Scored(t)
    BY <1>1, <1>2 DEF Sound, Scored, Final
  <1>4. OneText(t) /\ Past(t) /\ (OnPolicy(s) => OnPolicy(t))
    BY <1>2 DEF Sound, OneText, Past, OnPolicy
  <1>5. Moves(s, t)
    BY <1>1, <1>3, <1>4 DEF Moves, Sound
  <1> QED
    BY <1>5 DEF t

(* Entering the engine changes nothing but the stage.                      *)
LEMMA EnterMoves ==
    ASSUME NEW s \in Sample, Sound(s), s.pc = "queued"
    PROVE  Moves(s, [s EXCEPT !.pc = "generating"])
  <1> DEFINE t == [s EXCEPT !.pc = "generating"]
  <1>1. t \in Sample /\ t.pc = "generating"
    BY DEF Sample, Stages
  <1>2. /\ t.response = s.response /\ t.text = s.text /\ t.loss_mask = s.loss_mask
        /\ t.masked = s.masked /\ t.reward = s.reward /\ t.status = s.status
    BY DEF Sample
  <1> HIDE DEF t
  <1>3. Scored(t)
    BY <1>1, <1>2 DEF Sound, Scored, Final
  <1>4. OneText(t) /\ Past(t) /\ (OnPolicy(s) => OnPolicy(t))
    BY <1>2 DEF Sound, OneText, Past, OnPolicy
  <1>5. Moves(s, t)
    BY <1>1, <1>3, <1>4 DEF Moves, Sound
  <1> QED
    BY <1>5 DEF t

(* The stage after generate: what is final and has no reward is scored.    *)
LEMMA NextStageMoves ==
    ASSUME NEW s \in Sample, s.reward = -1, NEW t \in Sample, t.reward = -1, OneText(t), Past(t),
           s.pc \in {"queued", "generating"}, OnPolicy(s) => OnPolicy(t),
           t.status \in Final \cup {"aborted"}, t.status = "aborted" => aborted
    PROVE  Moves(s, [t EXCEPT !.pc = NextStage(t)])
  <1> DEFINE stage == NextStage(t)
             u == [t EXCEPT !.pc = stage]
  <1>1. /\ stage \in {"rm", "end"}
        /\ stage = "rm" <=> (~args.group_rm /\ t.status \in Final)
    BY DEF NextStage, Final
  <1> HIDE DEF stage
  <1>2. u \in Sample /\ u.pc = stage
    BY <1>1 DEF Sample, Stages
  <1>3. /\ u.response = t.response /\ u.text = t.text /\ u.loss_mask = t.loss_mask
        /\ u.masked = t.masked /\ u.reward = t.reward /\ u.status = t.status
    BY DEF Sample
  <1> HIDE DEF u
  <1>4. Scored(u)
    BY <1>1, <1>2, <1>3 DEF Scored, Final
  <1>5. OneText(u) /\ Past(u) /\ (OnPolicy(s) => OnPolicy(u))
    BY <1>3 DEF OneText, Past, OnPolicy
  <1>6. u.pc = "end" /\ ~aborted => u.status \in Final
    BY <1>3
  <1>7. Moves(s, u)
    BY <1>1, <1>2, <1>4, <1>5, <1>6 DEF Moves, Sound
  <1> QED
    BY <1>7 DEF u, stage

(* No token is left: the sample is truncated as it is.                     *)
LEMMA TruncatedMoves ==
    ASSUME NEW s \in Sample, Sound(s), s.pc = "queued"
    PROVE  LET t == [s EXCEPT !.status = "truncated"] IN Moves(s, [t EXCEPT !.pc = NextStage(t)])
  <1> DEFINE t == [s EXCEPT !.status = "truncated"]
  <1>1. t \in Sample /\ t.status = "truncated"
    BY DEF Sample, Statuses
  <1>2. /\ t.response = s.response /\ t.text = s.text /\ t.loss_mask = s.loss_mask
        /\ t.masked = s.masked /\ t.reward = s.reward
    BY DEF Sample
  <1> HIDE DEF t
  <1>3. s.reward = -1
    BY DEF Sound, Scored
  <1>4. OneText(t) /\ Past(t) /\ (OnPolicy(s) => OnPolicy(t))
    BY <1>2 DEF Sound, OneText, Past, OnPolicy
  <1>5. Moves(s, [t EXCEPT !.pc = NextStage(t)])
    BY <1>1, <1>2, <1>3, <1>4, NextStageMoves DEF Final
  <1> QED
    BY <1>5 DEF t

(* The elements of a concatenation.                                        *)
LEMMA Concat ==
    ASSUME NEW S, NEW a \in Seq(S), NEW b \in Seq(S)
    PROVE  /\ Len(a \o b) = Len(a) + Len(b) /\ DOMAIN (a \o b) = 1..(Len(a) + Len(b))
           /\ \A j \in 1..Len(a) : (a \o b)[j] = a[j]
           /\ \A j \in 1..(Len(a) + Len(b)) :
                j \notin 1..Len(a) => j - Len(a) \in 1..Len(b) /\ (a \o b)[j] = b[j - Len(a)]
  <1>1. Len(a) \in Nat /\ Len(b) \in Nat
    OBVIOUS
  <1>2. ASSUME NEW j \in 1..(Len(a) + Len(b)), j \notin 1..Len(a)
        PROVE  j - Len(a) \in 1..Len(b) /\ (a \o b)[j] = b[j - Len(a)]
    BY <1>1, <1>2
  <1> QED
    BY <1>1, <1>2

(* The engine's tokens continue the text; the mask covers them with ones.  *)
LEMMA ExtendedMoves ==
    ASSUME ArgsTyped, rollout_id \in Nat, NEW s \in Sample, Sound(s), s.pc = "generating",
           NEW k \in 0..args.max_new_tokens, k <= Budget(s),
           NEW text \in BOOLEAN, args.silent \/ (text <=> k > 0),
           NEW status \in {"completed", "truncated", "aborted"}, status = "aborted" => aborted
    PROVE  LET t == Extended(s, k, status, text) IN Moves(s, [t EXCEPT !.pc = NextStage(t)])
  <1> DEFINE t == Extended(s, k, status, text)
             new == NewTokens(s, k)
             ones == [j \in 1..k |-> 1]
             extends == s.masked /\ args.impl = "sglang"
             mask == IF extends THEN s.loss_mask \o ones ELSE s.loss_mask
             n == Len(s.response)
  <1>1. /\ s.response \in Seq(Token) /\ s.loss_mask \in Seq({0, 1}) /\ s.text \in BOOLEAN /\ n \in Nat
        /\ k \in Nat /\ args.max_new_tokens \in Nat
    BY DEF Sample, ArgsTyped
  <1>2. /\ ones \in Seq({0, 1}) /\ Len(ones) = k /\ \A j \in 1..k : ones[j] = 1
    BY <1>1
  <1>3. /\ new \in Seq(Token) /\ Len(new) = k
        /\ \A j \in 1..k : /\ new[j].by = rollout_id
                           /\ new[j].pos = (IF s.text THEN n ELSE 0) + j
    <2>1. new = [j \in 1..k |-> [by |-> rollout_id, pos |-> (IF s.text THEN n ELSE 0) + j]]
      BY DEF NewTokens
    <2>2. \A j \in 1..k : [by |-> rollout_id, pos |-> (IF s.text THEN n ELSE 0) + j] \in Token
      BY <1>1 DEF Token
    <2> HIDE DEF new
    <2>3. new \in [1..k -> Token]
      BY <2>1, <2>2
    <2>4. new \in Seq(Token) /\ Len(new) = k
      BY <1>1, <2>3
    <2>5. ASSUME NEW j \in 1..k
          PROVE  new[j].by = rollout_id /\ new[j].pos = (IF s.text THEN n ELSE 0) + j
      BY <2>1
    <2> QED
      BY <2>4, <2>5
  <1> HIDE DEF new, ones
  <1>4. mask \in Seq({0, 1})
    BY <1>1, <1>2
  <1>5. t = [s EXCEPT !.response = s.response \o new, !.text = s.text \/ text, !.loss_mask = mask,
                      !.status = status]
    BY DEF Extended, new, ones
  <1> HIDE DEF mask, t
  <1>6. s.response \o new \in Seq(Token)
    BY <1>1, <1>3
  <1>7. t \in Sample
    BY <1>4, <1>5, <1>6 DEF Sample, Statuses
  <1>8. /\ t.response = s.response \o new /\ t.text = (s.text \/ text) /\ t.loss_mask = mask
        /\ t.status = status /\ t.masked = s.masked /\ t.reward = s.reward
    BY <1>5 DEF Sample
  <1>9. /\ Len(t.response) = n + k /\ DOMAIN t.response = 1..(n + k) /\ DOMAIN s.response = 1..n
        /\ \A j \in 1..n : t.response[j] = s.response[j]
        /\ \A j \in 1..(n + k) : j \notin 1..n => j - n \in 1..k /\ t.response[j] = new[j - n]
    <2>1. DOMAIN s.response = 1..n
      BY <1>1
    <2> DEFINE r == s.response
               joined == r \o new
    <2>2. r \in Seq(Token) /\ new \in Seq(Token) /\ Len(new) = k /\ t.response = joined
      BY <1>1, <1>3, <1>8
    <2> HIDE DEF r
    <2>3. /\ Len(joined) = Len(r) + Len(new) /\ DOMAIN joined = 1..(Len(r) + Len(new))
          /\ \A j \in 1..Len(r) : joined[j] = r[j]
          /\ \A j \in 1..(Len(r) + Len(new)) :
                j \notin 1..Len(r) => j - Len(r) \in 1..Len(new) /\ joined[j] = new[j - Len(r)]
      BY <2>2, Concat
    <2> HIDE DEF joined
    <2> QED
      BY <2>1, <2>2, <2>3 DEF r
  <1> USE DEF Sound
  <1>10. OneText(t)
    <2> SUFFICES ASSUME ~args.silent PROVE OneText(t)
      BY DEF OneText
    <2>1. (s.text <=> n > 0) /\ n <= args.max_new_tokens /\ \A j \in 1..n : s.response[j].pos = j
      BY <1>9 DEF OneText
    <2>2. Len(t.response) <= args.max_new_tokens
      BY <1>1, <1>9, <2>1 DEF Budget
    <2>3. t.text <=> Len(t.response) > 0
      BY <1>1, <1>8, <1>9, <2>1
    <2>4. \A j \in 1..(n + k) : t.response[j].pos = j
      <3> TAKE j \in 1..(n + k)
      <3>1. CASE j \in 1..n
        BY <1>9, <2>1, <3>1
      <3>2. CASE j \notin 1..n
        <4>1. j - n \in 1..k /\ t.response[j] = new[j - n] /\ (IF s.text THEN n ELSE 0) = n
          BY <1>1, <1>9, <2>1, <3>2
        <4>2. new[j - n].pos = n + (j - n)
          BY <1>3, <4>1
        <4> QED
          BY <1>1, <4>1, <4>2
      <3> QED
        BY <3>1, <3>2
    <2> QED
      BY <1>9, <2>2, <2>3, <2>4 DEF OneText
  <1>11. Past(t)
    <2>1. \A j \in 1..(n + k) : t.response[j].by <= rollout_id
      BY <1>1, <1>3, <1>9 DEF Past
    <2>2. s.masked => n > 0
      BY DEF Past
    <2> QED
      BY <1>1, <1>8, <1>9, <2>1, <2>2 DEF Past
  <1>12. ASSUME OnPolicy(s) PROVE OnPolicy(t)
    <2> SUFFICES ASSUME Masking PROVE OnPolicy(t)
      BY DEF OnPolicy
    <2>1. /\ s.masked => Len(s.loss_mask) = n
          /\ \A j \in 1..n : s.response[j].by = rollout_id <=> (s.masked => s.loss_mask[j] = 1)
      BY <1>9, <1>12 DEF OnPolicy
    <2>2. CASE s.masked
      <3>1. mask = s.loss_mask \o ones
        BY <2>2 DEF mask, Masking
      <3>2. /\ Len(mask) = n + k
            /\ \A j \in 1..n : mask[j] = s.loss_mask[j]
            /\ \A j \in 1..(n + k) : j \notin 1..n => j - n \in 1..k /\ mask[j] = ones[j - n]
        <4> DEFINE Bits == {0, 1}
                   m == s.loss_mask
                   joined == m \o ones
        <4>1. m \in Seq(Bits) /\ ones \in Seq(Bits) /\ Len(m) = n /\ Len(ones) = k /\ mask = joined
          BY <1>1, <1>2, <2>1, <2>2, <3>1
        <4> HIDE DEF m, Bits
        <4>2. /\ Len(joined) = Len(m) + Len(ones)
              /\ \A j \in 1..Len(m) : joined[j] = m[j]
              /\ \A j \in 1..(Len(m) + Len(ones)) :
                    j \notin 1..Len(m) => j - Len(m) \in 1..Len(ones) /\ joined[j] = ones[j - Len(m)]
          BY <4>1, Concat
        <4> HIDE DEF joined
        <4> QED
          BY <4>1, <4>2 DEF m
      <3>3. \A j \in 1..(n + k) : t.response[j].by = rollout_id <=> mask[j] = 1
        <4> TAKE j \in 1..(n + k)
        <4>1. CASE j \in 1..n
          BY <1>9, <2>1, <2>2, <3>2, <4>1
        <4>2. CASE j \notin 1..n
          BY <1>2, <1>3, <1>9, <3>2, <4>2
        <4> QED
          BY <4>1, <4>2
      <3> QED
        BY <1>8, <1>9, <2>2, <3>2, <3>3 DEF OnPolicy
    <2>3. CASE ~s.masked
      <3>1. \A j \in 1..(n + k) : t.response[j].by = rollout_id
        <4> TAKE j \in 1..(n + k)
        <4>1. CASE j \in 1..n
          BY <1>9, <2>1, <2>3, <4>1
        <4>2. CASE j \notin 1..n
          BY <1>3, <1>9, <4>2
        <4> QED
          BY <4>1, <4>2
      <3> QED
        BY <1>8, <1>9, <2>3, <3>1 DEF OnPolicy
    <2> QED
      BY <2>2, <2>3
  <1>13. s.reward = -1 /\ t.reward = -1
    BY <1>8 DEF Scored
  <1>14. Moves(s, [t EXCEPT !.pc = NextStage(t)])
    BY <1>7, <1>8, <1>10, <1>11, <1>12, <1>13, NextStageMoves DEF Final
  <1> QED
    BY <1>14 DEF t

(* A reward model scores the whole response.                               *)
LEMMA RewardMoves ==
    ASSUME NEW s \in Sample, Sound(s), s.pc = "rm"
    PROVE  Moves(s, [s EXCEPT !.reward = Len(s.response), !.pc = "end"])
  <1> DEFINE t == [s EXCEPT !.reward = Len(s.response), !.pc = "end"]
  <1>1. Len(s.response) \in Int
    BY DEF Sample
  <1>2. t \in Sample /\ t.pc = "end" /\ t.reward = Len(s.response)
    <2> DEFINE n == Len(s.response)
    <2>1. n \in Int
      BY <1>1
    <2>2. t = [s EXCEPT !.reward = n, !.pc = "end"]
      OBVIOUS
    <2> HIDE DEF n, t
    <2>3. t \in Sample /\ t.pc = "end" /\ t.reward = n
      BY <2>1, <2>2 DEF Sample, Stages
    <2> QED
      BY <2>3 DEF n
  <1>3. /\ t.response = s.response /\ t.text = s.text /\ t.loss_mask = s.loss_mask
        /\ t.masked = s.masked /\ t.status = s.status
    BY DEF Sample
  <1> HIDE DEF t
  <1>4. Scored(t) /\ t.status \in Final
    BY <1>2, <1>3 DEF Sound, Scored
  <1>5. OneText(t) /\ Past(t) /\ (OnPolicy(s) => OnPolicy(t))
    BY <1>3 DEF Sound, OneText, Past, OnPolicy
  <1>6. Moves(s, t)
    BY <1>2, <1>4, <1>5 DEF Moves, Sound
  <1> QED
    BY <1>6 DEF t

(* A sample whose task raises is left as it was.                           *)
LEMMA RaisedMoves ==
    ASSUME NEW s \in Sample, Sound(s), s.pc \in {"generating", "rm"}
    PROVE  Moves(s, [s EXCEPT !.pc = "raised"])
  <1> DEFINE t == [s EXCEPT !.pc = "raised"]
  <1>1. t \in Sample /\ t.pc = "raised"
    BY DEF Sample, Stages
  <1>2. /\ t.response = s.response /\ t.text = s.text /\ t.loss_mask = s.loss_mask
        /\ t.masked = s.masked /\ t.reward = s.reward /\ t.status = s.status
    BY DEF Sample
  <1> HIDE DEF t
  <1>3. Scored(t)
    BY <1>1, <1>2 DEF Sound, Scored
  <1>4. OneText(t) /\ Past(t) /\ (OnPolicy(s) => OnPolicy(t))
    BY <1>2 DEF Sound, OneText, Past, OnPolicy
  <1>5. Moves(s, t)
    BY <1>1, <1>3, <1>4 DEF Moves, Sound
  <1> QED
    BY <1>5 DEF t

(***************************************************************************)
(* Groups.  What holds of a sample by the place its group is in.           *)
(***************************************************************************)
Recycled == SetOf(retry_groups) \cup SetOf(aborted_samples) \cup SetOf(buffer)

Placed(g, s) ==
    /\ g \in data \cup (done \ failed) => Complete(s)
    /\ g \in finished \ failed => s.pc = "end" /\ (~aborted => Complete(s))
    /\ g \in scoring => s.pc = "end" /\ s.status \in Final
    /\ g \in Recycled => s.pc = "off"
    /\ g \in SetOf(retry_groups) \cup SetOf(buffer) => Old(s)
    /\ g \in pendings /\ ~aborted /\ s.pc = "end" => s.status \in Final
    /\ g \in pendings \cup done \cup data => OnPolicy(s)

SamplesInv ==
    \A g \in DOMAIN groups, i \in Samples :
        Sound(groups[g].samples[i]) /\ Placed(g, groups[g].samples[i])

\* Where generate_rollout_async is, and the tasks it waits for.
OrderInv ==
    /\ pc \in {"fill", "wait", "collect"} => ~aborted
    /\ pc \notin {"collect", "failed"} => done = {}
    /\ finished \subseteq pendings
    /\ scoring \subseteq pendings \ finished

\* The seven places are disjoint and hold the groups fetched so far.
Apart(P, D, K, R, A, B, F) ==
    /\ P \cap D = {} /\ P \cap K = {} /\ P \cap R = {} /\ P \cap A = {} /\ P \cap B = {} /\ P \cap F = {}
    /\ D \cap K = {} /\ D \cap R = {} /\ D \cap A = {} /\ D \cap B = {} /\ D \cap F = {}
    /\ K \cap R = {} /\ K \cap A = {} /\ K \cap B = {} /\ K \cap F = {}
    /\ R \cap A = {} /\ R \cap B = {} /\ R \cap F = {}
    /\ A \cap B = {} /\ A \cap F = {}
    /\ B \cap F = {}

All(P, D, K, R, A, B, F) == P \cup D \cup K \cup R \cup A \cup B \cup F

NoDup(seq) == \A j, k \in 1..Len(seq) : seq[j] = seq[k] => j = k

PlacesInv ==
    /\ Apart(pendings, done, data, SetOf(retry_groups), SetOf(aborted_samples), SetOf(buffer), DOMAIN fate)
    /\ All(pendings, done, data, SetOf(retry_groups), SetOf(aborted_samples), SetOf(buffer), DOMAIN fate)
            = 0..(sample_group_index - 1)
    /\ NoDup(retry_groups) /\ NoDup(aborted_samples) /\ NoDup(buffer)
    /\ args.partial_rollout => \A g \in DOMAIN fate : fate[g] # "discarded"

AliveInv ==
    /\ pendings \cup done \cup data \cup Recycled \subseteq DOMAIN groups
    /\ DOMAIN groups \subseteq 0..(sample_group_index - 1)

GroupsInv == TypeInv /\ OrderInv /\ PlacesInv /\ AliveInv /\ SamplesInv

(***************************************************************************)
(* The steps of the samples' tasks.                                        *)
(***************************************************************************)
(* One sample of one group is replaced.                                    *)
LEMMA OneSample ==
    ASSUME NEW D, groups \in [D -> Group], NEW g \in D, NEW i \in Samples, NEW t \in Sample,
           SetSample(g, i, t), Samples' = Samples
    PROVE  /\ groups' \in [D -> Group] /\ DOMAIN groups' = DOMAIN groups /\ Group' = Group
           /\ \A h \in D, j \in Samples :
                groups'[h].samples[j] = IF h = g /\ j = i THEN t ELSE groups[h].samples[j]
  <1> DEFINE new == [groups[g] EXCEPT !.samples[i] = t]
  <1>1. groups[g] \in Group
    OBVIOUS
  <1>2. /\ new \in Group
        /\ \A j \in Samples : new.samples[j] = IF j = i THEN t ELSE groups[g].samples[j]
    BY <1>1 DEF Group
  <1>3. groups' = [groups EXCEPT ![g] = new]
    BY DEF SetSample
  <1> HIDE DEF new
  <1>4. Group' = Group
    BY DEF Group
  <1>5. groups' \in [D -> Group] /\ DOMAIN groups' = DOMAIN groups
    BY <1>2, <1>3
  <1>6. ASSUME NEW h \in D, NEW j \in Samples
        PROVE  groups'[h].samples[j] = IF h = g /\ j = i THEN t ELSE groups[h].samples[j]
    BY <1>2, <1>3
  <1> QED
    BY <1>4, <1>5, <1>6

(* A task that moves finds its group pending and unfinished, or lost.      *)
LEMMA MovesKeep ==
    ASSUME GroupsInv, NEW g \in DOMAIN groups, NEW i \in Samples, NEW t,
           Moves(groups[g].samples[i], t), SetSample(g, i, t),
           UNCHANGED <<Main, scoring, args>>,
           \/ UNCHANGED <<finished, failed>>
           \/ g \in pendings /\ t.pc = "raised" /\ finished' = finished \cup {g} /\ failed' = failed \cup {g}
    PROVE  GroupsInv'
  <1> DEFINE s == groups[g].samples[i]
  <1> USE DEF Main
  <1>1. t \in Sample /\ groups \in [DOMAIN groups -> Group]
    BY DEF Moves, GroupsInv, TypeInv
  <1>2. Samples' = Samples /\ (\A x : Sound(x)' <=> Sound(x)) /\ (\A x : OnPolicy(x)' <=> OnPolicy(x))
        /\ (\A x : Old(x)' <=> Old(x))
    BY Stays
  <1>3. /\ groups' \in [DOMAIN groups -> Group] /\ DOMAIN groups' = DOMAIN groups /\ Group' = Group
        /\ \A h \in DOMAIN groups, j \in Samples :
                groups'[h].samples[j] = IF h = g /\ j = i THEN t ELSE groups[h].samples[j]
    BY <1>1, <1>2, OneSample
  <1>4. TypeInv'
    BY <1>3 DEF GroupsInv, TypeInv, ArgsTyped
  <1>5. Sound(s) /\ Placed(g, s) /\ s.pc \in {"queued", "generating", "rm"}
    BY DEF GroupsInv, SamplesInv, Moves
  <1>6. /\ g \notin data \cup (done \ failed) /\ g \notin finished \ failed /\ g \notin scoring
        /\ g \notin Recycled
    BY <1>5 DEF Placed, Complete
  <1>7. OrderInv'
    BY <1>6 DEF GroupsInv, OrderInv
  <1>8. PlacesInv' /\ AliveInv'
    BY <1>3 DEF GroupsInv, PlacesInv, AliveInv, Recycled
  <1>9. \A x : Complete(x)' <=> Complete(x)
    BY DEF Complete
  <1>10. Recycled' = Recycled
    BY DEF Recycled
  <1>11. SamplesInv'
    <2> SUFFICES ASSUME NEW h \in DOMAIN groups', NEW j \in Samples'
                 PROVE  Sound(groups'[h].samples[j]) /\ Placed(h, groups[h].samples[j])'
      BY <1>2 DEF SamplesInv
    <2>1. h \in DOMAIN groups /\ j \in Samples
      BY <1>2, <1>3
    <2>2. CASE h = g /\ j = i
      <3>1. groups'[h].samples[j] = t
        BY <1>3, <2>1, <2>2
      <3>2. g \notin finished' \ failed' /\ g \notin done' \ failed'
        BY <1>6
      <3>3. g \in pendings \cup done \cup data => OnPolicy(s)
        BY <1>5 DEF Placed
      <3>4. Sound(t) /\ (OnPolicy(s) => OnPolicy(t)) /\ (t.pc = "end" /\ ~aborted => t.status \in Final)
        BY DEF Moves
      <3>5. Placed(g, groups[h].samples[j])'
        BY <1>2, <1>6, <1>10, <3>1, <3>2, <3>3, <3>4 DEF Placed, Recycled
      <3> QED
        BY <2>2, <3>1, <3>4, <3>5
    <2>3. CASE ~(h = g /\ j = i)
      <3> DEFINE u == groups[h].samples[j]
      <3>1. groups'[h].samples[j] = u
        BY <1>3, <2>1, <2>3
      <3>2. Sound(u) /\ Placed(h, u)
        BY <2>1 DEF GroupsInv, SamplesInv
      <3>3. (h \in finished' \ failed' => h \in finished \ failed) /\ (h \in done' \ failed' => h \in done \ failed)
        OBVIOUS
      <3> HIDE DEF u
      <3>4. Placed(h, groups[h].samples[j])'
        BY <1>2, <1>9, <1>10, <3>1, <3>2, <3>3 DEF Placed
      <3> QED
        BY <3>1, <3>2, <3>4
    <2> QED
      BY <2>2, <2>3
  <1> QED
    BY <1>4, <1>7, <1>8, <1>11 DEF GroupsInv

LEMMA SampleStepsKeep ==
    ASSUME GroupsInv, NEW g \in DOMAIN groups, NEW i \in Samples, SampleStep(g, i), UNCHANGED args
    PROVE  GroupsInv'
  <1> DEFINE s == groups[g].samples[i]
  <1>1. ArgsTyped /\ rollout_id \in Nat /\ s \in Sample /\ Sound(s)
    BY DEF GroupsInv, TypeInv, SamplesInv, Group
  <1>2. CASE AcquireSemaphore(g, i)
    <2>1. UNCHANGED <<Main, scoring, finished, failed, args>> /\ s.pc = "queued"
      BY <1>2 DEF AcquireSemaphore, Tasks
    <2>2. CASE aborted /\ SetSample(g, i, [s EXCEPT !.status = "aborted", !.pc = "end"])
      <3> DEFINE t == [s EXCEPT !.status = "aborted", !.pc = "end"]
      <3>1. Moves(s, t)
        BY <1>1, <2>1, <2>2, AbortedMoves
      <3> HIDE DEF t
      <3> QED
        BY <2>1, <2>2, <3>1, MovesKeep DEF t
    <2>3. CASE LET t == [s EXCEPT !.status = "truncated"] IN SetSample(g, i, [t EXCEPT !.pc = NextStage(t)])
      <3> DEFINE t == [s EXCEPT !.status = "truncated"]
                 u == [t EXCEPT !.pc = NextStage(t)]
      <3>1. Moves(s, u) /\ SetSample(g, i, u)
        BY <1>1, <2>1, <2>3, TruncatedMoves
      <3> HIDE DEF t, u
      <3> QED
        BY <2>1, <3>1, MovesKeep
    <2>4. CASE SetSample(g, i, [s EXCEPT !.pc = "generating"])
      <3> DEFINE t == [s EXCEPT !.pc = "generating"]
      <3>1. Moves(s, t) /\ SetSample(g, i, t)
        BY <1>1, <2>1, <2>4, EnterMoves
      <3> HIDE DEF t
      <3> QED
        BY <2>1, <3>1, MovesKeep
    <2> QED
      BY <1>2, <2>2, <2>3, <2>4 DEF AcquireSemaphore
  <1>3. ASSUME NEW k \in 0..args.max_new_tokens, NEW text \in (IF args.silent THEN BOOLEAN ELSE {TRUE}),
               EngineReturns(g, i, k, text /\ k > 0)
        PROVE  GroupsInv'
    <2> DEFINE said == text /\ k > 0
    <2>1. UNCHANGED <<Main, scoring, finished, failed, args>> /\ s.pc = "generating" /\ k <= Budget(s)
      BY <1>3 DEF EngineReturns, Tasks
    <2>2. said \in BOOLEAN /\ (args.silent \/ (said <=> k > 0))
      BY <1>3
    <2>3. EngineReturns(g, i, k, said)
      BY <1>3
    <2> HIDE DEF said
    <2>4. PICK status \in {"completed", "truncated", "aborted"} :
                /\ status = "aborted" => aborted
                /\ LET t == Extended(s, k, status, said) IN SetSample(g, i, [t EXCEPT !.pc = NextStage(t)])
      BY <2>3 DEF EngineReturns
    <2> DEFINE t == Extended(s, k, status, said)
               u == [t EXCEPT !.pc = NextStage(t)]
    <2>5. Moves(s, u) /\ SetSample(g, i, u)
      BY <1>1, <2>1, <2>2, <2>4, ExtendedMoves
    <2> HIDE DEF t, u
    <2> QED
      BY <2>1, <2>5, MovesKeep
  <1>4. CASE RewardArrives(g, i)
    <2> DEFINE t == [s EXCEPT !.reward = Len(s.response), !.pc = "end"]
    <2>1. s.pc = "rm" /\ SetSample(g, i, t) /\ UNCHANGED <<Main, scoring, finished, failed, args>>
      BY <1>4 DEF RewardArrives, Tasks
    <2>2. Moves(s, t)
      BY <1>1, <2>1, RewardMoves
    <2> HIDE DEF t
    <2> QED
      BY <2>1, <2>2, MovesKeep
  <1>5. CASE SampleRaises(g, i)
    <2> DEFINE t == [s EXCEPT !.pc = "raised"]
    <2>1. /\ s.pc \in {"generating", "rm"} /\ SetSample(g, i, t) /\ UNCHANGED <<Main, scoring, args>>
          /\ \/ UNCHANGED <<finished, failed>>
             \/ g \in pendings /\ finished' = finished \cup {g} /\ failed' = failed \cup {g}
      BY <1>5 DEF SampleRaises
    <2>2. Moves(s, t)
      BY <1>1, <2>1, RaisedMoves
    <2>3. t.pc = "raised"
      BY <1>1 DEF Sample
    <2> HIDE DEF t
    <2> QED
      BY <2>1, <2>2, <2>3, MovesKeep
  <1> QED
    BY <1>2, <1>3, <1>4, <1>5 DEF SampleStep

(* Where no group changes, only the places are to be looked at.            *)
LEMMA UnmovedKeep ==
    ASSUME GroupsInv, UNCHANGED <<groups, args, rollout_id>>,
           \A g \in DOMAIN groups, i \in Samples :
                LET s == groups[g].samples[i] IN Sound(s) /\ Placed(g, s) => Placed(g, s)'
    PROVE  SamplesInv' /\ Group' = Group
  <1>1. Samples' = Samples /\ (\A x : Sound(x)' <=> Sound(x))
    BY Stays
  <1>2. SamplesInv'
    <2> SUFFICES ASSUME NEW g \in DOMAIN groups, NEW i \in Samples
                 PROVE  Sound(groups[g].samples[i])' /\ Placed(g, groups[g].samples[i])'
      BY <1>1 DEF SamplesInv
    <2> QED
      BY <1>1 DEF GroupsInv, SamplesInv
  <1> QED
    BY <1>1, <1>2 DEF Group

LEMMA GatheredKeeps ==
    ASSUME GroupsInv, NEW g \in DOMAIN groups, SamplesGathered(g), UNCHANGED args
    PROVE  GroupsInv'
  <1> USE DEF Main
  <1>1. /\ g \in pendings \ (finished \cup scoring)
        /\ \A i \in Samples : groups[g].samples[i].pc = "end"
        /\ UNCHANGED <<Main, groups, failed, args>>
        /\ \/ ~aborted /\ args.group_rm /\ scoring' = scoring \cup {g} /\ finished' = finished
           \/ (aborted \/ ~args.group_rm) /\ finished' = finished \cup {g} /\ scoring' = scoring
    BY DEF SamplesGathered
  <1>2. (\A x : OnPolicy(x)' <=> OnPolicy(x)) /\ (\A x : Old(x)' <=> Old(x))
    BY <1>1, Stays
  <1>3. ASSUME NEW h \in DOMAIN groups, NEW i \in Samples,
               Sound(groups[h].samples[i]), Placed(h, groups[h].samples[i])
        PROVE  Placed(h, groups[h].samples[i])'
    <2> DEFINE s == groups[h].samples[i]
    <2>1. Scored(s) /\ groups'[h].samples[i] = s
      BY <1>1, <1>3 DEF Sound
    <2>2. h = g => s.pc = "end" /\ h \in pendings
      BY <1>1
    <2>3. Placed(h, s)
      BY <1>3
    <2> HIDE DEF s
    <2>4. aborted \in BOOLEAN
      BY DEF GroupsInv, TypeInv
    <2> QED
      BY <1>1, <1>2, <2>1, <2>2, <2>3, <2>4 DEF Placed, Recycled, Scored, Complete
  <1>4. SamplesInv' /\ Group' = Group
    BY <1>1, <1>3, UnmovedKeep
  <1>5. TypeInv'
    BY <1>1, <1>4 DEF GroupsInv, TypeInv, ArgsTyped
  <1>6. OrderInv' /\ PlacesInv' /\ AliveInv'
    BY <1>1 DEF GroupsInv, OrderInv, PlacesInv, AliveInv, Recycled
  <1> QED
    BY <1>4, <1>5, <1>6 DEF GroupsInv

LEMMA RewardRaisesKeeps ==
    ASSUME GroupsInv, NEW g \in DOMAIN groups, GroupRewardRaises(g), UNCHANGED args
    PROVE  GroupsInv'
  <1> USE DEF Main
  <1>1. /\ g \in scoring /\ UNCHANGED <<Main, groups, args>>
        /\ scoring' = scoring \ {g} /\ finished' = finished \cup {g} /\ failed' = failed \cup {g}
    BY DEF GroupRewardRaises
  <1>2. (\A x : OnPolicy(x)' <=> OnPolicy(x)) /\ (\A x : Old(x)' <=> Old(x))
    BY <1>1, Stays
  <1>3. ASSUME NEW h \in DOMAIN groups, NEW i \in Samples, Placed(h, groups[h].samples[i])
        PROVE  Placed(h, groups[h].samples[i])'
    <2> DEFINE s == groups[h].samples[i]
    <2>1. groups'[h].samples[i] = s /\ Placed(h, s)
      BY <1>1, <1>3
    <2> HIDE DEF s
    <2>2. (h \in finished' \ failed' => h \in finished \ failed) /\ (h \in done \ failed' => h \in done \ failed)
      BY <1>1
    <2> QED
      BY <1>1, <1>2, <2>1, <2>2 DEF Placed, Recycled, Complete
  <1>4. SamplesInv' /\ Group' = Group
    BY <1>1, <1>3, UnmovedKeep
  <1>5. TypeInv'
    BY <1>1, <1>4 DEF GroupsInv, TypeInv, ArgsTyped
  <1>6. OrderInv' /\ PlacesInv' /\ AliveInv'
    BY <1>1 DEF GroupsInv, OrderInv, PlacesInv, AliveInv, Recycled
  <1> QED
    BY <1>4, <1>5, <1>6 DEF GroupsInv

(* The samples of one group are replaced.                                  *)
LEMMA OneGroup ==
    ASSUME NEW D, groups \in [D -> Group], NEW g \in D, NEW new \in Group,
           groups' = [groups EXCEPT ![g] = new], Samples' = Samples
    PROVE  /\ groups' \in [D -> Group] /\ DOMAIN groups' = DOMAIN groups /\ Group' = Group
           /\ \A h \in D : groups'[h] = IF h = g THEN new ELSE groups[h]
  BY DEF Group

(* The reward of a group is that of each of its responses.                 *)
LEMMA GroupRewardKeeps ==
    ASSUME GroupsInv, NEW g \in DOMAIN groups, GroupRewardArrives(g), UNCHANGED args
    PROVE  GroupsInv'
  <1> USE DEF Main
  <1> DEFINE scored(s) == [s EXCEPT !.reward = Len(s.response)]
             new == [groups[g] EXCEPT !.samples = [i \in Samples |-> scored(groups[g].samples[i])]]
  <1>1. /\ g \in scoring /\ UNCHANGED <<Main, failed, args>>
        /\ scoring' = scoring \ {g} /\ finished' = finished \cup {g}
        /\ groups' = [groups EXCEPT ![g] = new]
    BY DEF GroupRewardArrives
  <1>2. /\ Samples' = Samples
        /\ (\A x : Sound(x)' <=> Sound(x))
        /\ (\A x : OnPolicy(x)' <=> OnPolicy(x)) /\ (\A x : Old(x)' <=> Old(x))
    BY <1>1, Stays
  <1>3. \A s \in Sample : scored(s) \in Sample
    <2> TAKE s \in Sample
    <2> DEFINE n == Len(s.response)
    <2>1. n \in Int
      BY DEF Sample
    <2>2. scored(s) = [s EXCEPT !.reward = n]
      OBVIOUS
    <2> HIDE DEF n, scored
    <2> QED
      BY <2>1, <2>2 DEF Sample
  <1>4. \A s \in Sample : /\ scored(s).status = s.status /\ scored(s).response = s.response
                          /\ scored(s).text = s.text /\ scored(s).loss_mask = s.loss_mask
                          /\ scored(s).masked = s.masked /\ scored(s).pc = s.pc
                          /\ scored(s).reward = Len(s.response)
    BY DEF Sample
  <1> HIDE DEF scored
  <1>5. groups \in [DOMAIN groups -> Group] /\ groups[g] \in Group
    BY DEF GroupsInv, TypeInv
  <1>6. new \in Group /\ \A i \in Samples : new.samples[i] = scored(groups[g].samples[i])
    BY <1>3, <1>5 DEF Group
  <1> HIDE DEF new
  <1>7. /\ groups' \in [DOMAIN groups -> Group] /\ DOMAIN groups' = DOMAIN groups /\ Group' = Group
        /\ \A h \in DOMAIN groups : groups'[h] = IF h = g THEN new ELSE groups[h]
    BY <1>1, <1>2, <1>5, <1>6, OneGroup
  <1>8. TypeInv'
    BY <1>1, <1>7 DEF GroupsInv, TypeInv, ArgsTyped
  <1>9. OrderInv' /\ PlacesInv' /\ AliveInv'
    BY <1>1, <1>7 DEF GroupsInv, OrderInv, PlacesInv, AliveInv, Recycled
  <1>10. SamplesInv'
    <2> SUFFICES ASSUME NEW h \in DOMAIN groups, NEW j \in Samples
                 PROVE  Sound(groups[h].samples[j])' /\ Placed(h, groups[h].samples[j])'
      BY <1>2, <1>7 DEF SamplesInv
    <2> DEFINE s == groups[h].samples[j]
    <2>1. Sound(s) /\ Placed(h, s) /\ s \in Sample
      BY <1>5 DEF GroupsInv, SamplesInv, Group
    <2>2. CASE h = g
      <3>1. groups'[h].samples[j] = scored(s)
        BY <1>6, <1>7, <2>2
      <3> HIDE DEF s
      <3>2. /\ scored(s).status = s.status /\ scored(s).response = s.response
            /\ scored(s).text = s.text /\ scored(s).loss_mask = s.loss_mask
            /\ scored(s).masked = s.masked /\ scored(s).pc = s.pc
            /\ scored(s).reward = Len(s.response)
        BY <1>4, <2>1
      <3>3. s.pc = "end" /\ s.status \in Final
        BY <1>1, <2>1, <2>2 DEF Placed
      <3>4. Sound(scored(s))
        BY <2>1, <3>2, <3>3 DEF Sound, Scored, OneText, Past
      <3>5. OnPolicy(s) => OnPolicy(scored(s))
        BY <3>2 DEF OnPolicy
      <3>6. Complete(scored(s))
        BY <3>2, <3>3 DEF Complete
      <3>7. h \notin Recycled
        BY <2>1, <3>3 DEF Placed
      <3>8. Placed(h, groups[h].samples[j])'
        BY <1>1, <1>2, <2>1, <3>1, <3>2, <3>3, <3>5, <3>6, <3>7 DEF Placed, Recycled, Complete
      <3> QED
        BY <1>2, <3>1, <3>4, <3>8
    <2>3. CASE h # g
      <3>1. groups'[h].samples[j] = s
        BY <1>7, <2>3
      <3> HIDE DEF s
      <3>2. Placed(h, groups[h].samples[j])'
        BY <1>1, <1>2, <2>1, <2>3, <3>1 DEF Placed, Recycled, Complete
      <3> QED
        BY <1>2, <2>1, <3>1, <3>2
    <2> QED
      BY <2>2, <2>3
  <1> QED
    BY <1>8, <1>9, <1>10 DEF GroupsInv

(***************************************************************************)
(* Sequences of indices as sets.                                           *)
(***************************************************************************)
LEMMA SetOfMembers ==
    ASSUME NEW S, NEW seq \in Seq(S)
    PROVE  /\ SetOf(seq) \subseteq S /\ IsFiniteSet(SetOf(seq))
           /\ \A x : x \in SetOf(seq) <=> \E i \in 1..Len(seq) : seq[i] = x
  <1>1. Len(seq) \in Nat /\ \A i \in 1..Len(seq) : seq[i] \in S
    OBVIOUS
  <1>2. \A x : x \in SetOf(seq) <=> \E i \in 1..Len(seq) : seq[i] = x
    BY DEF SetOf
  <1>3. IsFiniteSet(1..Len(seq))
    BY <1>1, FS_Interval
  <1>4. IsFiniteSet(SetOf(seq))
    <2>1. seq \in [1..Len(seq) -> SetOf(seq)]
      BY <1>1 DEF SetOf
    <2>2. seq \in Surjection(1..Len(seq), SetOf(seq))
      BY <1>2, <2>1 DEF Surjection
    <2> QED
      BY <1>3, <2>2, FS_Surjection
  <1> QED
    BY <1>1, <1>2, <1>4

LEMMA SetOfEmpty == SetOf(<<>>) = {} /\ NoDup(<<>>)
  BY DEF SetOf, NoDup

LEMMA SetOfAppend ==
    ASSUME NEW S, NEW seq \in Seq(S), NEW x \in S
    PROVE  /\ SetOf(Append(seq, x)) = SetOf(seq) \cup {x}
           /\ NoDup(seq) /\ x \notin SetOf(seq) => NoDup(Append(seq, x))
  <1> DEFINE more == Append(seq, x)
             n == Len(seq)
  <1>1. /\ n \in Nat /\ Len(more) = n + 1 /\ more[n + 1] = x
        /\ \A i \in 1..n : more[i] = seq[i]
    OBVIOUS
  <1> HIDE DEF more
  <1>2. \A i : i \in 1..(n + 1) <=> i \in 1..n \/ i = n + 1
    BY <1>1
  <1> HIDE DEF n
  <1>3. \A y : y \in SetOf(more) <=> y \in SetOf(seq) \/ y = x
    BY <1>1, <1>2 DEF SetOf, n
  <1>4. NoDup(seq) /\ x \notin SetOf(seq) => NoDup(more)
    BY <1>1, <1>2 DEF SetOf, NoDup, n
  <1> QED
    BY <1>3, <1>4 DEF more

LEMMA SetOfConcat ==
    ASSUME NEW S, NEW a \in Seq(S), NEW b \in Seq(S)
    PROVE  /\ SetOf(a \o b) = SetOf(a) \cup SetOf(b)
           /\ NoDup(a) /\ NoDup(b) /\ SetOf(a) \cap SetOf(b) = {} => NoDup(a \o b)
  <1> DEFINE c == a \o b
             m == Len(a)
             n == Len(b)
  <1>1. m \in Nat /\ n \in Nat
    OBVIOUS
  <1>2. /\ Len(c) = m + n /\ \A j \in 1..m : c[j] = a[j]
        /\ \A j \in 1..(m + n) : j \notin 1..m => j - m \in 1..n /\ c[j] = b[j - m]
    BY Concat
  <1> HIDE DEF c, m, n
  <1>3. \A j \in 1..m : j \in 1..(m + n)
    BY <1>1
  <1>4. ASSUME NEW j \in 1..n PROVE m + j \in 1..(m + n) /\ c[m + j] = b[j]
    <2>1. m + j \in 1..(m + n) /\ m + j \notin 1..m /\ (m + j) - m = j
      BY <1>1
    <2>2. c[m + j] = b[(m + j) - m]
      BY <1>2, <2>1
    <2> QED
      BY <2>1, <2>2
  <1>5. \A y : y \in SetOf(c) <=> y \in SetOf(a) \/ y \in SetOf(b)
    <2> TAKE y
    <2>1. ASSUME y \in SetOf(c) PROVE y \in SetOf(a) \/ y \in SetOf(b)
      <3>1. PICK j \in 1..(m + n) : c[j] = y
        BY <1>2, <2>1 DEF SetOf
      <3> QED
        BY <1>2, <3>1 DEF SetOf, m, n
    <2>2. ASSUME y \in SetOf(a) PROVE y \in SetOf(c)
      <3>1. PICK j \in 1..m : a[j] = y
        BY <2>2 DEF SetOf, m
      <3> QED
        BY <1>2, <1>3, <3>1 DEF SetOf
    <2>3. ASSUME y \in SetOf(b) PROVE y \in SetOf(c)
      <3>1. PICK j \in 1..n : b[j] = y
        BY <2>3 DEF SetOf, n
      <3>2. m + j \in 1..(m + n) /\ c[m + j] = y
        BY <1>4, <3>1
      <3> QED
        BY <1>2, <3>2 DEF SetOf
    <2> QED
      BY <2>1, <2>2, <2>3
  <1>6. ASSUME NoDup(a), NoDup(b), SetOf(a) \cap SetOf(b) = {} PROVE NoDup(c)
    <2> SUFFICES ASSUME NEW j \in 1..(m + n), NEW k \in 1..(m + n), c[j] = c[k] PROVE j = k
      BY <1>2 DEF NoDup
    <2>1. \A i \in 1..m : a[i] \in SetOf(a)
      BY DEF SetOf, m
    <2>2. \A i \in 1..n : b[i] \in SetOf(b)
      BY DEF SetOf, n
    <2>3. CASE j \in 1..m /\ k \in 1..m
      BY <1>2, <1>6, <2>3 DEF NoDup, m
    <2>4. CASE j \notin 1..m /\ k \notin 1..m
      <3>1. j - m \in 1..n /\ k - m \in 1..n /\ b[j - m] = b[k - m]
        BY <1>2, <2>4
      <3>2. j - m = k - m
        BY <1>6, <3>1 DEF NoDup, n
      <3> QED
        BY <1>1, <3>2
    <2>5. CASE j \in 1..m /\ k \notin 1..m
      BY <1>2, <1>6, <2>1, <2>2, <2>5
    <2>6. CASE j \notin 1..m /\ k \in 1..m
      BY <1>2, <1>6, <2>1, <2>2, <2>6
    <2> QED
      BY <2>3, <2>4, <2>5, <2>6
  <1> QED
    BY <1>5, <1>6 DEF c

(* A sequence is taken apart: a head that is submitted and what remains.   *)
LEMMA SetOfParts ==
    ASSUME NEW S, NEW seq \in Seq(S), NEW n \in 0..Len(seq)
    PROVE  /\ SubSeq(seq, 1, n) \in Seq(S) /\ SubSeq(seq, n + 1, Len(seq)) \in Seq(S)
           /\ Len(SubSeq(seq, 1, n)) = n
           /\ SetOf(SubSeq(seq, 1, n)) \cup SetOf(SubSeq(seq, n + 1, Len(seq))) = SetOf(seq)
           /\ NoDup(seq) => /\ SetOf(SubSeq(seq, 1, n)) \cap SetOf(SubSeq(seq, n + 1, Len(seq))) = {}
                            /\ NoDup(SubSeq(seq, n + 1, Len(seq)))
  <1> DEFINE m == Len(seq)
             a == SubSeq(seq, 1, n)
             b == SubSeq(seq, n + 1, m)
  <1>1. m \in Nat /\ n \in Nat /\ n <= m
    OBVIOUS
  <1>2. a \in Seq(S) /\ Len(a) = n /\ \A j \in 1..n : a[j] = seq[j]
    BY <1>1
  <1>3. b \in Seq(S) /\ Len(b) = m - n /\ \A j \in 1..(m - n) : b[j] = seq[n + j]
    BY <1>1
  <1> HIDE DEF m, a, b
  <1>4. \A y : y \in SetOf(seq) <=> \E j \in 1..m : seq[j] = y
    BY DEF SetOf, m
  <1>5. \A y : y \in SetOf(a) <=> \E j \in 1..n : seq[j] = y
    BY <1>2 DEF SetOf
  <1>6. \A y : y \in SetOf(b) <=> \E j \in (n + 1)..m : seq[j] = y
    <2> TAKE y
    <2>1. ASSUME y \in SetOf(b) PROVE \E j \in (n + 1)..m : seq[j] = y
      <3>1. PICK j \in 1..(m - n) : b[j] = y
        BY <1>3, <2>1 DEF SetOf
      <3>2. n + j \in (n + 1)..m /\ seq[n + j] = y
        BY <1>1, <1>3, <3>1
      <3> QED
        BY <3>2
    <2>2. ASSUME NEW j \in (n + 1)..m, seq[j] = y PROVE y \in SetOf(b)
      <3>1. j - n \in 1..(m - n) /\ n + (j - n) = j
        BY <1>1
      <3>2. b[j - n] = seq[n + (j - n)]
        BY <1>3, <3>1
      <3> QED
        BY <1>3, <2>2, <3>1, <3>2 DEF SetOf
    <2> QED
      BY <2>1, <2>2
  <1>7. \A j : j \in 1..m <=> j \in 1..n \/ j \in (n + 1)..m
    BY <1>1
  <1>8. SetOf(a) \cup SetOf(b) = SetOf(seq)
    BY <1>4, <1>5, <1>6, <1>7
  <1>9. ASSUME NoDup(seq) PROVE SetOf(a) \cap SetOf(b) = {} /\ NoDup(b)
    <2>1. \A j, k \in 1..m : seq[j] = seq[k] => j = k
      BY <1>9 DEF NoDup, m
    <2>2. \A j \in 1..n : j \notin (n + 1)..m
      BY <1>1
    <2>3. SetOf(a) \cap SetOf(b) = {}
      BY <1>5, <1>6, <1>7, <2>1, <2>2
    <2>4. ASSUME NEW j \in 1..(m - n), NEW k \in 1..(m - n), b[j] = b[k] PROVE j = k
      <3>1. n + j \in 1..m /\ n + k \in 1..m /\ seq[n + j] = seq[n + k]
        BY <1>1, <1>3, <2>4
      <3>2. n + j = n + k
        BY <2>1, <3>1
      <3> QED
        BY <1>1, <3>2
    <2>5. NoDup(b)
      BY <1>3, <2>4 DEF NoDup
    <2> QED
      BY <2>3, <2>5
  <1> QED
    BY <1>2, <1>3, <1>8, <1>9 DEF a, b, m

(* What is not said twice is counted by its length.                        *)
LEMMA NoDupCounted ==
    ASSUME NEW S, NEW seq \in Seq(S), NoDup(seq)
    PROVE  Cardinality(SetOf(seq)) = Len(seq)
  <1> DEFINE n == Len(seq)
             D == 1..n
  <1>1. n \in Nat /\ seq \in [D -> SetOf(seq)]
    BY DEF SetOf
  <1>2. seq \in Bijection(D, SetOf(seq))
    BY <1>1 DEF SetOf, NoDup, Bijection, Injection, Surjection, IsInjective
  <1>3. IsFiniteSet(D) /\ Cardinality(D) = n
    BY <1>1, FS_Interval
  <1>4. ExistsBijection(D, SetOf(seq))
    BY <1>2 DEF ExistsBijection
  <1>5. Cardinality(SetOf(seq)) = Cardinality(D)
    BY <1>3, <1>4, FS_Bijection
  <1> QED
    BY <1>3, <1>5

(***************************************************************************)
(* The steps of generate_rollout_async.                                    *)
(***************************************************************************)
\* What submit_generate_tasks is given, and what it makes of it.
Unstarted(g) ==
    /\ g \in DOMAIN groups
    /\ \A i \in Samples : groups[g].samples[i].pc = "off" /\ Old(groups[g].samples[i])

Created(new, g) == new[g] = FreshGroup(0) /\ g \notin DOMAIN groups

Started(grp) ==
    \A i \in Samples :
        LET t == grp.samples[i]
        IN  Sound(t) /\ OnPolicy(t) /\ t.pc \in {"queued", "end"} /\ (t.pc = "end" => t.status \in Final)

(* submit_generate_tasks: what is taken and what is fresh is started.      *)
LEMMA SubmitStarts ==
    ASSUME GroupsInv, UNCHANGED <<rollout_id, args>>, NEW taken, NEW fresh, NEW new,
           Submit(taken \cup fresh, new), DOMAIN new = fresh,
           \A g \in fresh : Created(new, g),
           \A g \in taken : Unstarted(g)
    PROVE  /\ groups' \in [DOMAIN groups \cup fresh -> Group] /\ Group' = Group
           /\ DOMAIN groups' = DOMAIN groups \cup fresh
           /\ \A g \in DOMAIN groups : g \notin taken => groups'[g] = groups[g]
           /\ \A g \in taken \cup fresh : Started(groups'[g])
  <1> USE DEF Created, Unstarted
  <1> DEFINE start(grp) == [grp EXCEPT !.samples = [i \in Samples |-> StartSample(grp.samples[i])]]
             old(g) == IF g \in DOMAIN groups THEN groups[g] ELSE new[g]
             D == DOMAIN groups \cup fresh
  <1>1. ArgsTyped /\ rollout_id \in Nat /\ groups \in [DOMAIN groups -> Group]
    BY DEF GroupsInv, TypeInv
  <1>2. /\ DOMAIN groups' = D
        /\ \A g \in D : groups'[g] = IF g \in taken \cup fresh THEN start(old(g)) ELSE old(g)
    BY DEF Submit
  <1>3. FreshGroup(0) \in Group /\ \A i \in Samples : FreshGroup(0).samples[i] = FreshSample
    BY <1>1, FreshSound DEF FreshGroup, Group
  <1>4. \A g \in D : old(g) \in Group
    BY <1>1, <1>3
  <1>5. \A g \in taken \cup fresh, i \in Samples :
            LET s == old(g).samples[i] IN s \in Sample /\ Sound(s) /\ Old(s) /\ s.pc = "off"
    <2> TAKE g \in taken \cup fresh, i \in Samples
    <2>1. CASE g \in taken
      <3>1. old(g) = groups[g] /\ g \in DOMAIN groups
        BY <2>1
      <3> HIDE DEF old
      <3>2. groups[g].samples[i] \in Sample /\ Sound(groups[g].samples[i])
        BY <1>1, <3>1 DEF GroupsInv, SamplesInv, Group
      <3> QED
        BY <2>1, <3>1, <3>2
    <2>2. CASE g \in fresh
      <3>1. old(g).samples[i] = FreshSample
        BY <1>3, <2>2
      <3> HIDE DEF old
      <3> QED
        BY <1>1, <3>1, FreshSound
    <2> QED
      BY <2>1, <2>2
  <1> HIDE DEF old
  <1>6. ASSUME NEW g \in taken \cup fresh, NEW i \in Samples
        PROVE  LET t == StartSample(old(g).samples[i])
               IN  t \in Sample /\ Sound(t) /\ OnPolicy(t) /\ t.pc \in {"queued", "end"}
                   /\ (t.pc = "end" => t.status \in Final)
    <2> DEFINE s == old(g).samples[i]
    <2>1. s \in Sample /\ Sound(s) /\ Old(s) /\ s.pc = "off"
      BY <1>5
    <2> HIDE DEF s
    <2>2. /\ StartSample(s) \in Sample /\ Sound(StartSample(s)) /\ OnPolicy(StartSample(s))
          /\ StartSample(s).pc \in {"queued", "end"}
          /\ StartSample(s).pc = "end" => StartSample(s).status \in Final
      BY <1>1, <2>1, StartSound
    <2> QED
      BY <2>2 DEF s
  <1>7. ASSUME NEW g \in taken \cup fresh
        PROVE  /\ start(old(g)) \in Group
               /\ \A i \in Samples : start(old(g)).samples[i] = StartSample(old(g).samples[i])
    <2>1. old(g) \in Group
      BY <1>4
    <2>2. \A i \in Samples : StartSample(old(g).samples[i]) \in Sample
      BY <1>6
    <2> QED
      BY <2>1, <2>2 DEF Group
  <1> HIDE DEF start
  <1>8. \A g \in D : groups'[g] \in Group
    BY <1>2, <1>4, <1>7
  <1>9. groups' = [g \in D |-> groups'[g]]
    BY DEF Submit
  <1>10. groups' \in [D -> Group]
    BY <1>2, <1>8, <1>9
  <1>11. Group' = Group
    BY Stays DEF Group
  <1>12. ASSUME NEW g \in DOMAIN groups, g \notin taken PROVE groups'[g] = groups[g]
    BY <1>2, <1>12 DEF old
  <1>13. ASSUME NEW g \in taken \cup fresh, NEW i \in Samples
         PROVE  groups'[g].samples[i] = StartSample(old(g).samples[i])
    BY <1>2, <1>7
  <1>14. ASSUME NEW g \in taken \cup fresh PROVE Started(groups'[g])
    BY <1>6, <1>13 DEF Started
  <1> QED
    BY <1>2, <1>10, <1>11, <1>12, <1>14

(* The groups alive are finitely many.                                     *)
LEMMA PlacesFinite ==
    ASSUME GroupsInv
    PROVE  IsFiniteSet(pendings) /\ IsFiniteSet(data) /\ OnTheWay \in Int
  <1>1. sample_group_index \in Nat /\ remaining_batch_size \in Int
    BY DEF GroupsInv, TypeInv
  <1> DEFINE I == 0..(sample_group_index - 1)
  <1>2. IsFiniteSet(I)
    BY <1>1, FS_Interval
  <1>3. pendings \in SUBSET I /\ data \in SUBSET I
    BY DEF GroupsInv, PlacesInv, All
  <1> HIDE DEF I
  <1>4. IsFiniteSet(pendings) /\ IsFiniteSet(data)
    BY <1>2, <1>3, FS_Subset
  <1>5. Cardinality(pendings) \in Nat /\ Cardinality(data) \in Nat
    BY <1>4, FS_CardinalityType
  <1> QED
    BY <1>1, <1>4, <1>5 DEF OnTheWay

(* The taken groups move from retry_groups or the buffer to the pending    *)
(* ones, where the fresh ones join them.                                   *)
LEMMA SubmitKeeps ==
    ASSUME GroupsInv, pc = "fill",
           UNCHANGED <<rollout_id, pc, aborted, scoring, finished, done, data, aborted_samples,
                       failed, fate, args>>,
           NEW taken, NEW fresh, NEW new, Submit(taken \cup fresh, new), DOMAIN new = fresh,
           IsFiniteSet(taken \cup fresh), \A g \in fresh : new[g] = FreshGroup(0),
           sample_group_index' \in Nat, sample_group_index <= sample_group_index',
           fresh = sample_group_index..(sample_group_index' - 1),
           retry_groups' \in Seq(Nat), buffer' \in Seq(Nat), NoDup(retry_groups'), NoDup(buffer'),
           \A g : g \in SetOf(retry_groups') => g \in SetOf(retry_groups) /\ g \notin taken,
           \A g : g \in SetOf(buffer') => g \in SetOf(buffer) /\ g \notin taken,
           \A g : g \in taken => g \in SetOf(retry_groups) \cup SetOf(buffer),
           \A g : g \in SetOf(retry_groups) \cup SetOf(buffer) =>
                    g \in taken \cup SetOf(retry_groups') \cup SetOf(buffer')
    PROVE  GroupsInv'
  <1> DEFINE R == SetOf(retry_groups)
             R2 == SetOf(retry_groups')
             B == SetOf(buffer)
             B2 == SetOf(buffer')
  <1>1. /\ R \cup B \subseteq DOMAIN groups /\ DOMAIN groups \subseteq 0..(sample_group_index - 1)
        /\ sample_group_index \in Nat
    BY DEF GroupsInv, AliveInv, Recycled, TypeInv
  <1>2. \A g \in taken : g \in R \cup B /\ g \in DOMAIN groups
    BY <1>1
  <1>3. \A g \in fresh : g \notin DOMAIN groups /\ g \notin 0..(sample_group_index - 1)
    BY <1>1
  <1>4. ASSUME NEW g \in taken, NEW i \in Samples
        PROVE  groups[g].samples[i].pc = "off" /\ Old(groups[g].samples[i])
    <2>1. Placed(g, groups[g].samples[i])
      BY <1>2 DEF GroupsInv, SamplesInv
    <2>2. g \in R \cup B /\ g \in Recycled
      BY <1>2 DEF Recycled
    <2> QED
      BY <2>1, <2>2 DEF Placed
  <1>5. /\ groups' \in [DOMAIN groups \cup fresh -> Group] /\ Group' = Group
        /\ DOMAIN groups' = DOMAIN groups \cup fresh
        /\ \A g \in DOMAIN groups : g \notin taken => groups'[g] = groups[g]
        /\ \A g \in taken \cup fresh : Started(groups'[g])
    <2>1. \A g \in fresh : Created(new, g)
      BY <1>3 DEF Created
    <2>2. \A g \in taken : Unstarted(g)
      BY <1>2, <1>4 DEF Unstarted
    <2> QED
      BY <2>1, <2>2, SubmitStarts
  <1>6. pendings' = pendings \cup taken \cup fresh
    BY DEF Submit
  <1>7. TypeInv'
    <2>1. Cardinality(taken \cup fresh) \in Nat
      BY FS_CardinalityType
    <2>2. remaining_batch_size' \in Int
      BY <2>1 DEF Submit, Counted, GroupsInv, TypeInv
    <2>3. groups' \in [DOMAIN groups' -> Group]
      BY <1>5
    <2> QED
      BY <1>5, <2>2, <2>3 DEF GroupsInv, TypeInv, ArgsTyped
  <1>8. OrderInv'
    BY <1>6 DEF GroupsInv, OrderInv
  <1>9. /\ \A g : g \in R2 => g \in R /\ g \notin taken
        /\ \A g : g \in B2 => g \in B /\ g \notin taken
        /\ \A g : g \in R \/ g \in B => g \in taken \/ g \in R2 \/ g \in B2
    OBVIOUS
  <1> HIDE DEF R, B, R2, B2
  <1> DEFINE A == SetOf(aborted_samples)
             F == DOMAIN fate
             I == 0..(sample_group_index - 1)
             I2 == 0..(sample_group_index' - 1)
  <1>10. /\ Apart(pendings, done, data, R, A, B, F) /\ All(pendings, done, data, R, A, B, F) = I
         /\ A' = A /\ F' = F /\ done' = done /\ data' = data
    BY DEF GroupsInv, PlacesInv, R, B
  <1>11. \A g : g \in I2 <=> g \in I \/ g \in fresh
    BY <1>1
  <1> HIDE DEF A, F, I, I2
  <1>12. Apart(pendings', done, data, R2, A, B2, F)
    BY <1>2, <1>3, <1>6, <1>9, <1>10 DEF Apart, All, I
  <1>13. All(pendings', done, data, R2, A, B2, F) = I2
    BY <1>2, <1>6, <1>9, <1>10, <1>11 DEF All
  <1>14. PlacesInv'
    BY <1>10, <1>12, <1>13 DEF GroupsInv, PlacesInv, R2, B2, A, F, I2
  <1>15. AliveInv'
    <2>1. pendings \cup done \cup data \cup R \cup A \cup B \subseteq DOMAIN groups
      BY DEF GroupsInv, AliveInv, Recycled, R, A, B
    <2>2. pendings' \cup done \cup data \cup R2 \cup A \cup B2 \subseteq DOMAIN groups'
      BY <1>2, <1>5, <1>6, <1>9, <2>1
    <2>3. DOMAIN groups' \subseteq I2
      BY <1>1, <1>5, <1>11 DEF I
    <2> QED
      BY <1>10, <2>2, <2>3 DEF AliveInv, Recycled, R2, A, B2, I2
  <1>16. Samples' = Samples /\ (\A x : Sound(x)' <=> Sound(x)) /\ (\A x : OnPolicy(x)' <=> OnPolicy(x))
         /\ (\A x : Old(x)' <=> Old(x))
    BY Stays
  <1>17. SamplesInv'
    <2> SUFFICES ASSUME NEW h \in DOMAIN groups', NEW j \in Samples
                 PROVE  Sound(groups[h].samples[j])' /\ Placed(h, groups[h].samples[j])'
      BY <1>16 DEF SamplesInv
    <2>1. done = {} /\ finished \subseteq pendings /\ scoring \subseteq pendings
      BY DEF GroupsInv, OrderInv
    <2>2. CASE h \in taken \cup fresh
      <3>1. h \notin pendings /\ h \notin data /\ h \notin A /\ h \notin R2 /\ h \notin B2
        BY <1>2, <1>3, <1>9, <1>10, <2>2 DEF Apart, All, I
      <3>2. h \notin Recycled'
        BY <1>10, <3>1 DEF Recycled, R2, A, B2
      <3> DEFINE t == groups'[h].samples[j]
      <3>3. Sound(t) /\ OnPolicy(t) /\ (t.pc = "end" => t.status \in Final)
        BY <1>5, <2>2 DEF Started
      <3>4. h \notin SetOf(retry_groups') \cup SetOf(buffer')
        BY <3>1 DEF R2, B2
      <3> HIDE DEF t
      <3>5. Placed(h, groups[h].samples[j])'
        BY <1>16, <2>1, <3>1, <3>2, <3>3, <3>4 DEF Placed, t
      <3> QED
        BY <1>16, <3>3, <3>5 DEF t
    <2>3. CASE h \notin taken \cup fresh
      <3> DEFINE s == groups[h].samples[j]
      <3>1. h \in DOMAIN groups /\ groups'[h].samples[j] = s
        BY <1>5, <2>3
      <3>2. Sound(s) /\ Placed(h, s)
        BY <3>1 DEF GroupsInv, SamplesInv
      <3>3. h \in pendings' => h \in pendings
        BY <1>6, <2>3
      <3>4. /\ h \in Recycled' => h \in Recycled
            /\ h \in SetOf(retry_groups') \cup SetOf(buffer') => h \in SetOf(retry_groups) \cup SetOf(buffer)
        BY DEF Recycled
      <3> HIDE DEF s
      <3>5. Placed(h, groups[h].samples[j])'
        BY <1>16, <3>1, <3>2, <3>3, <3>4 DEF Placed, Complete
      <3> QED
        BY <1>16, <3>1, <3>2, <3>5
    <2> QED
      BY <2>2, <2>3
  <1> QED
    BY <1>7, <1>8, <1>14, <1>15, <1>17 DEF GroupsInv

LEMMA SubmitRetriesKeeps ==
    ASSUME GroupsInv, SubmitRetries, UNCHANGED args
    PROVE  GroupsInv'
  <1> DEFINE n == Min2(Len(retry_groups), args.rollout_batch_size - OnTheWay)
             head == SubSeq(retry_groups, 1, n)
             rest == SubSeq(retry_groups, n + 1, Len(retry_groups))
  <1>1. /\ pc = "fill" /\ OnTheWay < args.rollout_batch_size
        /\ Submit(SetOf(head), <<>>) /\ retry_groups' = rest
        /\ UNCHANGED <<rollout_id, pc, aborted, scoring, finished, done, data, aborted_samples,
                       buffer, sample_group_index, failed, fate, args>>
    BY DEF SubmitRetries, Short
  <1>2. retry_groups \in Seq(Nat) /\ NoDup(retry_groups) /\ NoDup(buffer) /\ buffer \in Seq(Nat)
        /\ sample_group_index \in Nat
    BY DEF GroupsInv, TypeInv, PlacesInv
  <1>3. n \in 0..Len(retry_groups)
    <2>1. args.rollout_batch_size \in Int /\ OnTheWay \in Int /\ Len(retry_groups) \in Nat
      BY <1>2, PlacesFinite DEF GroupsInv, TypeInv, ArgsTyped
    <2> QED
      BY <1>1, <2>1 DEF Min2
  <1> HIDE DEF n
  <1>4. /\ head \in Seq(Nat) /\ rest \in Seq(Nat)
        /\ SetOf(head) \cup SetOf(rest) = SetOf(retry_groups)
        /\ SetOf(head) \cap SetOf(rest) = {} /\ NoDup(rest)
    BY <1>2, <1>3, SetOfParts
  <1> DEFINE taken == SetOf(head)
             fresh == sample_group_index..(sample_group_index' - 1)
  <1>5. /\ \A g : g \in SetOf(retry_groups') => g \in SetOf(retry_groups) /\ g \notin taken
        /\ \A g : g \in taken => g \in SetOf(retry_groups) \cup SetOf(buffer)
        /\ \A g : g \in SetOf(retry_groups) \cup SetOf(buffer) =>
                    g \in taken \cup SetOf(retry_groups') \cup SetOf(buffer')
    BY <1>1, <1>4
  <1>6. \A g : g \in SetOf(buffer) => g \notin taken
    BY <1>4 DEF GroupsInv, PlacesInv, Apart
  <1>7. fresh = {} /\ taken \cup fresh = taken /\ DOMAIN <<>> = fresh
    BY <1>1, <1>2
  <1>8. IsFiniteSet(taken)
    BY <1>4, SetOfMembers
  <1>9. Submit(taken \cup fresh, <<>>) /\ IsFiniteSet(taken \cup fresh)
    BY <1>1, <1>7, <1>8
  <1> HIDE DEF head, rest, taken, fresh
  <1>10. /\ retry_groups' \in Seq(Nat) /\ buffer' \in Seq(Nat) /\ NoDup(retry_groups') /\ NoDup(buffer')
         /\ sample_group_index' \in Nat /\ sample_group_index <= sample_group_index'
    BY <1>1, <1>2, <1>4
  <1>11. fresh = sample_group_index..(sample_group_index' - 1)
    BY DEF fresh
  <1>12. (\A g : g \in SetOf(buffer') => g \in SetOf(buffer) /\ g \notin taken)
         /\ (\A g \in fresh : <<>>[g] = FreshGroup(0))
    BY <1>1, <1>6, <1>7
  <1> QED
    BY <1>1, <1>5, <1>7, <1>9, <1>10, <1>11, <1>12, SubmitKeeps

LEMMA SubmitFetchedKeeps ==
    ASSUME GroupsInv, SubmitFetched, UNCHANGED args
    PROVE  GroupsInv'
  <1> DEFINE n == Min2(Len(buffer), args.over_sampling_batch_size)
             head == SubSeq(buffer, 1, n)
             rest == SubSeq(buffer, n + 1, Len(buffer))
             fresh == sample_group_index..(sample_group_index + args.over_sampling_batch_size - n - 1)
             new == [g \in fresh |-> FreshGroup(0)]
             taken == SetOf(head)
  <1>1. /\ pc = "fill" /\ Submit(taken \cup fresh, new) /\ buffer' = rest
        /\ sample_group_index' = sample_group_index + args.over_sampling_batch_size - n
        /\ UNCHANGED <<rollout_id, pc, aborted, scoring, finished, done, data, aborted_samples,
                       retry_groups, failed, fate, args>>
    BY DEF SubmitFetched, Short
  <1>2. /\ buffer \in Seq(Nat) /\ retry_groups \in Seq(Nat) /\ NoDup(buffer) /\ NoDup(retry_groups)
        /\ sample_group_index \in Nat /\ args.over_sampling_batch_size \in Nat /\ Len(buffer) \in Nat
    BY DEF GroupsInv, TypeInv, ArgsTyped, PlacesInv
  <1>3. n \in 0..Len(buffer) /\ n <= args.over_sampling_batch_size /\ n \in Nat
    BY <1>2 DEF Min2
  <1> HIDE DEF n
  <1>4. /\ head \in Seq(Nat) /\ rest \in Seq(Nat)
        /\ SetOf(head) \cup SetOf(rest) = SetOf(buffer)
        /\ SetOf(head) \cap SetOf(rest) = {} /\ NoDup(rest)
    BY <1>2, <1>3, SetOfParts
  <1>5. /\ \A g : g \in SetOf(buffer') => g \in SetOf(buffer) /\ g \notin taken
        /\ \A g : g \in taken => g \in SetOf(retry_groups) \cup SetOf(buffer)
        /\ \A g : g \in SetOf(retry_groups) \cup SetOf(buffer) =>
                    g \in taken \cup SetOf(retry_groups') \cup SetOf(buffer')
    BY <1>1, <1>4
  <1>6. \A g : g \in SetOf(retry_groups') => g \in SetOf(retry_groups) /\ g \notin taken
    BY <1>1, <1>4 DEF GroupsInv, PlacesInv, Apart
  <1>7. /\ sample_group_index' \in Nat /\ sample_group_index <= sample_group_index'
        /\ fresh = sample_group_index..(sample_group_index' - 1)
    BY <1>1, <1>2, <1>3
  <1>8. DOMAIN new = fresh /\ \A g \in fresh : new[g] = FreshGroup(0)
    OBVIOUS
  <1>9. IsFiniteSet(taken \cup fresh)
    <2>1. IsFiniteSet(taken)
      BY <1>4, SetOfMembers
    <2>2. IsFiniteSet(fresh)
      BY <1>2, <1>7, FS_Interval
    <2> QED
      BY <2>1, <2>2, FS_Union
  <1> HIDE DEF head, rest, taken, fresh, new
  <1>10. retry_groups' \in Seq(Nat) /\ buffer' \in Seq(Nat) /\ NoDup(retry_groups') /\ NoDup(buffer')
    BY <1>1, <1>2, <1>4
  <1> QED
    BY <1>1, <1>5, <1>6, <1>7, <1>8, <1>9, <1>10, SubmitKeeps

(* A step that changes no group that stays, and may take some away.        *)
LEMMA RestKeeps ==
    ASSUME GroupsInv, UNCHANGED <<rollout_id, args>>, NEW D,
           groups' \in [D -> Group], \A g \in D : g \in DOMAIN groups /\ groups'[g] = groups[g],
           \A g \in D, i \in Samples : Placed(g, groups[g].samples[i]) => Placed(g, groups[g].samples[i])'
    PROVE  SamplesInv' /\ Group' = Group /\ DOMAIN groups' = D
  <1>1. Samples' = Samples /\ (\A x : Sound(x)' <=> Sound(x)) /\ DOMAIN groups' = D
    BY Stays
  <1>2. SamplesInv'
    <2> SUFFICES ASSUME NEW g \in D, NEW i \in Samples
                 PROVE  Sound(groups[g].samples[i])' /\ Placed(g, groups[g].samples[i])'
      BY <1>1 DEF SamplesInv
    <2> QED
      BY <1>1 DEF GroupsInv, SamplesInv
  <1> QED
    BY <1>1, <1>2 DEF Group

LEMMA WithoutTyped ==
    ASSUME NEW D, groups \in [D -> Group], NEW S, groups' = Without(groups, S)
    PROVE  /\ groups' \in [D \ S -> Group]
           /\ \A g \in D \ S : g \in DOMAIN groups /\ groups'[g] = groups[g]
  BY DEF Without

LEMMA FatedFacts ==
    ASSUME NEW f, NEW S, NEW what
    PROVE  /\ DOMAIN Fated(f, S, what) = DOMAIN f \cup S
           /\ \A g \in DOMAIN f \cup S : Fated(f, S, what)[g] = IF g \in S THEN what ELSE f[g]
  BY DEF Fated

LEMMA StartWaitKeeps ==
    ASSUME GroupsInv, StartWait, UNCHANGED args
    PROVE  GroupsInv'
  <1>1. /\ pc = "fill" /\ pc' = "wait"
        /\ UNCHANGED <<rollout_id, remaining_batch_size, aborted, groups, pendings, scoring, finished,
                   done, data, retry_groups, aborted_samples, buffer, sample_group_index, drops,
                   failures, failed, fate, args>>
    BY DEF StartWait
  <1>2. (\A x : OnPolicy(x)' <=> OnPolicy(x)) /\ (\A x : Old(x)' <=> Old(x))
    BY <1>1, Stays
  <1>3. ASSUME NEW h \in DOMAIN groups, NEW i \in Samples, Placed(h, groups[h].samples[i])
        PROVE  Placed(h, groups[h].samples[i])'
    <2> DEFINE s == groups[h].samples[i]
    <2>1. groups'[h].samples[i] = s /\ Placed(h, s)
      BY <1>1, <1>3
    <2> HIDE DEF s
    <2> QED
      BY <1>1, <1>2, <2>1 DEF Placed, Recycled, Complete
  <1>4. SamplesInv' /\ Group' = Group
    BY <1>1, <1>3, UnmovedKeep
  <1>5. TypeInv' /\ OrderInv' /\ PlacesInv' /\ AliveInv'
    BY <1>1, <1>4 DEF GroupsInv, TypeInv, ArgsTyped, OrderInv, PlacesInv, AliveInv, Recycled
  <1> QED
    BY <1>4, <1>5 DEF GroupsInv

LEMMA WaitReturnsKeeps ==
    ASSUME GroupsInv, WaitReturns, UNCHANGED args
    PROVE  GroupsInv'
  <1>1. /\ pc = "wait" /\ pc' = "collect"
        /\ done' = finished /\ pendings' = pendings \ finished /\ finished' = {}
        /\ UNCHANGED <<rollout_id, remaining_batch_size, aborted, groups, scoring, data, retry_groups,
                       aborted_samples, buffer, sample_group_index, failed, fate, args>>
    BY DEF WaitReturns
  <1>2. (\A x : OnPolicy(x)' <=> OnPolicy(x)) /\ (\A x : Old(x)' <=> Old(x))
    BY <1>1, Stays
  <1>3. done = {} /\ ~aborted /\ finished \subseteq pendings /\ scoring \subseteq pendings \ finished
    BY <1>1 DEF GroupsInv, OrderInv
  <1>4. ASSUME NEW h \in DOMAIN groups, NEW i \in Samples, Placed(h, groups[h].samples[i])
        PROVE  Placed(h, groups[h].samples[i])'
    <2> DEFINE s == groups[h].samples[i]
    <2>1. groups'[h].samples[i] = s /\ Placed(h, s)
      BY <1>1, <1>4
    <2> HIDE DEF s
    <2> QED
      BY <1>1, <1>2, <1>3, <2>1 DEF Placed, Recycled, Complete
  <1>5. SamplesInv' /\ Group' = Group
    BY <1>1, <1>4, UnmovedKeep
  <1>6. TypeInv' /\ OrderInv'
    BY <1>1, <1>3, <1>5 DEF GroupsInv, TypeInv, ArgsTyped, OrderInv
  <1>7. PlacesInv' /\ AliveInv'
    BY <1>1, <1>3 DEF GroupsInv, PlacesInv, AliveInv, Recycled, Apart, All
  <1> QED
    BY <1>5, <1>6, <1>7 DEF GroupsInv

LEMMA KeepGroupKeeps ==
    ASSUME GroupsInv, NEW g \in done, KeepGroup(g), UNCHANGED args
    PROVE  GroupsInv'
  <1>1. /\ pc = "collect" /\ g \in done \ failed /\ done' = done \ {g}
        /\ \/ data' = data \cup {g} /\ UNCHANGED <<groups, fate>>
           \/ Leave({g}, "surplus") /\ UNCHANGED data
        /\ UNCHANGED <<rollout_id, pc, remaining_batch_size, aborted, pendings, scoring, finished,
                       retry_groups, aborted_samples, buffer, sample_group_index, failed, args>>
    BY DEF KeepGroup
  <1>2. (\A x : OnPolicy(x)' <=> OnPolicy(x)) /\ (\A x : Old(x)' <=> Old(x))
    BY <1>1, Stays
  <1>3. OrderInv'
    BY <1>1 DEF GroupsInv, OrderInv
  <1>4. CASE data' = data \cup {g} /\ UNCHANGED <<groups, fate>>
    <2>1. ASSUME NEW h \in DOMAIN groups, NEW i \in Samples, Placed(h, groups[h].samples[i])
          PROVE  Placed(h, groups[h].samples[i])'
      <3> DEFINE s == groups[h].samples[i]
      <3>1. groups'[h].samples[i] = s /\ Placed(h, s)
        BY <1>4, <2>1
      <3> HIDE DEF s
      <3> QED
        BY <1>1, <1>2, <1>4, <3>1 DEF Placed, Recycled, Complete
    <2>2. SamplesInv' /\ Group' = Group
      BY <1>1, <1>4, <2>1, UnmovedKeep
    <2>3. TypeInv' /\ AliveInv'
      BY <1>1, <1>4, <2>2 DEF GroupsInv, TypeInv, ArgsTyped, AliveInv, Recycled
    <2>4. PlacesInv'
      BY <1>1, <1>4 DEF GroupsInv, PlacesInv, Apart, All
    <2> QED
      BY <1>3, <2>2, <2>3, <2>4 DEF GroupsInv
  <1>5. CASE Leave({g}, "surplus") /\ UNCHANGED data
    <2> DEFINE D == DOMAIN groups \ {g}
    <2>1. /\ groups' \in [D -> Group] /\ \A h \in D : h \in DOMAIN groups /\ groups'[h] = groups[h]
      BY <1>5, WithoutTyped DEF Leave, GroupsInv, TypeInv
    <2>2. ASSUME NEW h \in D, NEW i \in Samples, Placed(h, groups[h].samples[i])
          PROVE  Placed(h, groups[h].samples[i])'
      <3> DEFINE s == groups[h].samples[i]
      <3>1. groups'[h].samples[i] = s /\ Placed(h, s)
        BY <2>1, <2>2
      <3> HIDE DEF s
      <3> QED
        BY <1>1, <1>2, <1>5, <3>1 DEF Placed, Recycled, Complete
    <2>3. SamplesInv' /\ Group' = Group /\ DOMAIN groups' = D
      BY <1>1, <2>1, <2>2, RestKeeps
    <2>4. TypeInv'
      BY <1>1, <2>1, <2>3 DEF GroupsInv, TypeInv, ArgsTyped
    <2>5. /\ DOMAIN fate' = DOMAIN fate \cup {g}
          /\ \A h \in DOMAIN fate \cup {g} : fate'[h] = IF h \in {g} THEN "surplus" ELSE fate[h]
      BY <1>5, FatedFacts DEF Leave
    <2>6. PlacesInv'
      BY <1>1, <1>5, <2>5 DEF GroupsInv, PlacesInv, Apart, All
    <2>7. AliveInv'
      BY <1>1, <1>5, <2>3 DEF GroupsInv, PlacesInv, Apart, AliveInv, Recycled
    <2> QED
      BY <1>3, <2>3, <2>4, <2>6, <2>7 DEF GroupsInv
  <1> QED
    BY <1>1, <1>4, <1>5

(* A rejected group starts afresh, or leaves.                              *)
LEMMA RejectGroupKeeps ==
    ASSUME GroupsInv, NEW g \in done, NEW retryable, RejectGroup(g, retryable), UNCHANGED args
    PROVE  GroupsInv'
  <1> DEFINE new == FreshGroup(groups[g].retry + 1)
  <1>1. /\ pc = "collect" /\ g \in done \ failed /\ done' = done \ {g} /\ Counted(-1)
        /\ \/ /\ retry_groups' = Append(retry_groups, g)
              /\ groups' = [groups EXCEPT ![g] = new]
              /\ UNCHANGED fate
           \/ Leave({g}, "rejected") /\ UNCHANGED retry_groups
        /\ UNCHANGED <<rollout_id, pc, aborted, pendings, scoring, finished, data,
                       aborted_samples, buffer, sample_group_index, failed, args>>
    BY DEF RejectGroup
  <1>2. /\ Samples' = Samples /\ (\A x : Sound(x)' <=> Sound(x))
        /\ (\A x : OnPolicy(x)' <=> OnPolicy(x)) /\ (\A x : Old(x)' <=> Old(x))
    BY <1>1, Stays
  <1>3. OrderInv' /\ finished \subseteq pendings /\ scoring \subseteq pendings
    BY <1>1 DEF GroupsInv, OrderInv
  <1>4. remaining_batch_size' \in Int
    BY <1>1 DEF GroupsInv, TypeInv, Counted
  <1>5. /\ g \in DOMAIN groups /\ groups \in [DOMAIN groups -> Group] /\ ArgsTyped
        /\ retry_groups \in Seq(Nat) /\ sample_group_index \in Nat
    BY <1>1 DEF GroupsInv, AliveInv, TypeInv
  <1>6. g \in Nat
    BY <1>5 DEF GroupsInv, AliveInv
  <1>7. CASE Leave({g}, "rejected") /\ UNCHANGED retry_groups
    <2> DEFINE D == DOMAIN groups \ {g}
    <2>1. /\ groups' \in [D -> Group] /\ \A h \in D : h \in DOMAIN groups /\ groups'[h] = groups[h]
      BY <1>5, <1>7, WithoutTyped DEF Leave
    <2>2. ASSUME NEW h \in D, NEW i \in Samples, Placed(h, groups[h].samples[i])
          PROVE  Placed(h, groups[h].samples[i])'
      <3> DEFINE s == groups[h].samples[i]
      <3>1. groups'[h].samples[i] = s /\ Placed(h, s)
        BY <2>1, <2>2
      <3> HIDE DEF s
      <3> QED
        BY <1>1, <1>2, <1>7, <3>1 DEF Placed, Recycled, Complete
    <2>3. SamplesInv' /\ Group' = Group /\ DOMAIN groups' = D
      BY <1>1, <2>1, <2>2, RestKeeps
    <2>4. TypeInv'
      BY <1>1, <1>4, <1>7, <2>1, <2>3 DEF GroupsInv, TypeInv, ArgsTyped
    <2>5. /\ DOMAIN fate' = DOMAIN fate \cup {g}
          /\ \A h \in DOMAIN fate \cup {g} : fate'[h] = IF h \in {g} THEN "rejected" ELSE fate[h]
      BY <1>7, FatedFacts DEF Leave
    <2>6. PlacesInv'
      BY <1>1, <1>7, <2>5 DEF GroupsInv, PlacesInv, Apart, All
    <2>7. AliveInv'
      BY <1>1, <1>7, <2>3 DEF GroupsInv, PlacesInv, Apart, AliveInv, Recycled
    <2> QED
      BY <1>3, <2>3, <2>4, <2>6, <2>7 DEF GroupsInv
  <1>8. CASE /\ retry_groups' = Append(retry_groups, g)
             /\ groups' = [groups EXCEPT ![g] = new] /\ UNCHANGED fate
    <2>1. groups[g].retry \in Nat
      BY <1>5 DEF Group
    <2>2. groups[g].retry + 1 \in Nat
      BY <2>1
    <2>3. new \in Group /\ \A i \in Samples : new.samples[i] = FreshSample
      BY <1>5, <2>2, FreshSound DEF FreshGroup, Group
    <2> HIDE DEF new
    <2>4. /\ groups' \in [DOMAIN groups -> Group] /\ DOMAIN groups' = DOMAIN groups /\ Group' = Group
          /\ \A h \in DOMAIN groups : groups'[h] = IF h = g THEN new ELSE groups[h]
      BY <1>2, <1>5, <1>8, <2>3, OneGroup
    <2>5. /\ SetOf(retry_groups') = SetOf(retry_groups) \cup {g}
          /\ NoDup(retry_groups) /\ g \notin SetOf(retry_groups) => NoDup(retry_groups')
          /\ retry_groups' \in Seq(Nat)
      BY <1>5, <1>6, <1>8, SetOfAppend
    <2>6. TypeInv'
      BY <1>1, <1>4, <2>4, <2>5 DEF GroupsInv, TypeInv, ArgsTyped
    <2>7. PlacesInv'
      BY <1>1, <1>8, <2>5 DEF GroupsInv, PlacesInv, Apart, All
    <2>8. AliveInv'
      BY <1>1, <1>5, <2>4, <2>5 DEF GroupsInv, AliveInv, Recycled
    <2>9. SamplesInv'
      <3> SUFFICES ASSUME NEW h \in DOMAIN groups, NEW j \in Samples
                   PROVE  Sound(groups[h].samples[j])' /\ Placed(h, groups[h].samples[j])'
        BY <1>2, <2>4 DEF SamplesInv
      <3>1. CASE h = g
        <4>1. groups'[h].samples[j] = FreshSample
          BY <2>3, <2>4, <3>1
        <4>2. Sound(FreshSample) /\ Old(FreshSample) /\ FreshSample.pc = "off"
          BY <1>5, FreshSound
        <4>3. h \notin pendings /\ h \notin data
          BY <1>1, <3>1 DEF GroupsInv, PlacesInv, Apart
        <4> DEFINE t == FreshSample
        <4>4. groups'[h].samples[j] = t /\ Sound(t) /\ Old(t) /\ t.pc = "off"
          BY <4>1, <4>2
        <4> HIDE DEF t
        <4>5. Placed(h, groups[h].samples[j])'
          BY <1>1, <1>2, <1>3, <3>1, <4>3, <4>4 DEF Placed
        <4> QED
          BY <1>2, <4>4, <4>5
      <3>2. CASE h # g
        <4> DEFINE s == groups[h].samples[j]
        <4>1. groups'[h].samples[j] = s /\ Sound(s) /\ Placed(h, s)
          BY <2>4, <3>2 DEF GroupsInv, SamplesInv
        <4> HIDE DEF s
        <4>2. Placed(h, groups[h].samples[j])'
          BY <1>1, <1>2, <2>5, <3>2, <4>1 DEF Placed, Recycled, Complete
        <4> QED
          BY <1>2, <4>1, <4>2
      <3> QED
        BY <3>1, <3>2
    <2> QED
      BY <1>3, <2>6, <2>7, <2>8, <2>9 DEF GroupsInv
  <1> QED
    BY <1>1, <1>7, <1>8

(* The group of a task that raised is lost, or the job fails.              *)
LEMMA MeetFailedKeeps ==
    ASSUME GroupsInv, NEW g \in done, MeetFailed(g), UNCHANGED args
    PROVE  GroupsInv'
  <1>1. /\ pc = "collect" /\ g \in done \cap failed
        /\ \/ pc' = "failed" /\ UNCHANGED <<done, fate>>
           \/ done' = done \ {g} /\ fate' = Fated(fate, {g}, "failed") /\ UNCHANGED pc
        /\ UNCHANGED <<rollout_id, remaining_batch_size, aborted, groups, pendings, scoring, finished,
                       data, retry_groups, aborted_samples, buffer, sample_group_index, failed, args>>
    BY DEF MeetFailed
  <1>2. (\A x : OnPolicy(x)' <=> OnPolicy(x)) /\ (\A x : Old(x)' <=> Old(x))
    BY <1>1, Stays
  <1>3. ASSUME NEW h \in DOMAIN groups, NEW i \in Samples, Placed(h, groups[h].samples[i])
        PROVE  Placed(h, groups[h].samples[i])'
    <2> DEFINE s == groups[h].samples[i]
    <2>1. groups'[h].samples[i] = s /\ Placed(h, s)
      BY <1>1, <1>3
    <2>2. h \in done' => h \in done
      BY <1>1
    <2> HIDE DEF s
    <2> QED
      BY <1>1, <1>2, <2>1, <2>2 DEF Placed, Recycled, Complete
  <1>4. SamplesInv' /\ Group' = Group
    BY <1>1, <1>3, UnmovedKeep
  <1>5. TypeInv' /\ OrderInv'
    BY <1>1, <1>4 DEF GroupsInv, TypeInv, ArgsTyped, OrderInv
  <1>6. AliveInv'
    BY <1>1 DEF GroupsInv, AliveInv, Recycled
  <1>7. PlacesInv'
    <2>1. CASE UNCHANGED <<done, fate>>
      BY <1>1, <2>1 DEF GroupsInv, PlacesInv
    <2>2. CASE done' = done \ {g} /\ fate' = Fated(fate, {g}, "failed")
      <3>1. /\ DOMAIN fate' = DOMAIN fate \cup {g}
            /\ \A h \in DOMAIN fate \cup {g} : fate'[h] = IF h \in {g} THEN "failed" ELSE fate[h]
        BY <2>2, FatedFacts
      <3>2. args.partial_rollout => \A h \in DOMAIN fate' : fate'[h] # "discarded"
        BY <3>1 DEF GroupsInv, PlacesInv
      <3>3. g \in done
        BY <1>1
      <3>4. PlacesInv
        BY DEF GroupsInv
      <3> DEFINE R == SetOf(retry_groups)
                 A == SetOf(aborted_samples)
                 B == SetOf(buffer)
      <3>5. Apart(pendings, done \ {g}, data, R, A, B, DOMAIN fate \cup {g})
        BY <3>3, <3>4 DEF PlacesInv, Apart
      <3>6. All(pendings, done \ {g}, data, R, A, B, DOMAIN fate \cup {g}) = 0..(sample_group_index - 1)
        BY <3>3, <3>4 DEF PlacesInv, All
      <3> QED
        BY <1>1, <2>2, <3>1, <3>2, <3>3, <3>4, <3>5, <3>6 DEF PlacesInv
    <2> QED
      BY <1>1, <2>1, <2>2
  <1> QED
    BY <1>4, <1>5, <1>6, <1>7 DEF GroupsInv

(* The abort begins, or the next round of the loop.                        *)
LEMMA AbortBeginsKeeps ==
    ASSUME GroupsInv, DoneCollected \/ AbortPostRaises, UNCHANGED args
    PROVE  GroupsInv'
  <1>1. /\ pc = "collect" /\ done = {}
        /\ \/ pc' = "fill" /\ UNCHANGED aborted
           \/ pc' \in {"abort", "failed"} /\ aborted' = TRUE
        /\ UNCHANGED <<rollout_id, remaining_batch_size, groups, pendings, scoring, finished, done,
                       data, retry_groups, aborted_samples, buffer, sample_group_index, failed, fate, args>>
    BY DEF DoneCollected, AbortPostRaises
  <1>2. (\A x : OnPolicy(x)' <=> OnPolicy(x)) /\ (\A x : Old(x)' <=> Old(x))
    BY <1>1, Stays
  <1>3. ASSUME NEW h \in DOMAIN groups, NEW i \in Samples, Placed(h, groups[h].samples[i])
        PROVE  Placed(h, groups[h].samples[i])'
    <2> DEFINE s == groups[h].samples[i]
    <2>1. groups'[h].samples[i] = s /\ Placed(h, s)
      BY <1>1, <1>3
    <2>2. ~aborted' => ~aborted
      BY <1>1
    <2> HIDE DEF s
    <2> QED
      BY <1>1, <1>2, <2>1, <2>2 DEF Placed, Recycled, Complete
  <1>4. SamplesInv' /\ Group' = Group
    BY <1>1, <1>3, UnmovedKeep
  <1>5. aborted' \in BOOLEAN
    BY <1>1 DEF GroupsInv, TypeInv
  <1>6. TypeInv' /\ OrderInv'
    BY <1>1, <1>4, <1>5 DEF GroupsInv, TypeInv, ArgsTyped, OrderInv
  <1>7. AliveInv' /\ PlacesInv'
    BY <1>1 DEF GroupsInv, AliveInv, PlacesInv, Recycled
  <1> QED
    BY <1>4, <1>6, <1>7 DEF GroupsInv

(* abort collects a group: into aborted_samples, or it is discarded.       *)
LEMMA CollectAbortedKeeps ==
    ASSUME GroupsInv, NEW g \in finished, CollectAborted(g), UNCHANGED args
    PROVE  GroupsInv'
  <1>1. /\ pc = "abort" /\ g \in finished \ failed
        /\ pendings' = pendings \ {g} /\ finished' = finished \ {g}
        /\ \/ args.partial_rollout /\ aborted_samples' = Append(aborted_samples, g)
              /\ groups' = StopSamples({g}) /\ UNCHANGED fate
           \/ ~args.partial_rollout /\ Leave({g}, "discarded") /\ UNCHANGED aborted_samples
        /\ UNCHANGED <<rollout_id, pc, remaining_batch_size, aborted, scoring, done, data,
                       retry_groups, buffer, sample_group_index, failed, args>>
    BY DEF CollectAborted
  <1>2. /\ Samples' = Samples /\ (\A x : Sound(x)' <=> Sound(x))
        /\ (\A x : OnPolicy(x)' <=> OnPolicy(x)) /\ (\A x : Old(x)' <=> Old(x))
    BY <1>1, Stays
  <1>3. g \in pendings /\ scoring \subseteq pendings \ finished
    BY DEF GroupsInv, OrderInv
  <1>4. OrderInv'
    BY <1>1, <1>3 DEF GroupsInv, OrderInv
  <1>5. /\ g \in DOMAIN groups /\ groups \in [DOMAIN groups -> Group]
        /\ aborted_samples \in Seq(Nat) /\ sample_group_index \in Nat
    BY <1>3 DEF GroupsInv, AliveInv, TypeInv
  <1>6. g \in Nat
    BY <1>5 DEF GroupsInv, AliveInv
  <1>7. CASE ~args.partial_rollout /\ Leave({g}, "discarded") /\ UNCHANGED aborted_samples
    <2> DEFINE D == DOMAIN groups \ {g}
    <2>1. /\ groups' \in [D -> Group] /\ \A h \in D : h \in DOMAIN groups /\ groups'[h] = groups[h]
      BY <1>5, <1>7, WithoutTyped DEF Leave
    <2>2. ASSUME NEW h \in D, NEW i \in Samples, Placed(h, groups[h].samples[i])
          PROVE  Placed(h, groups[h].samples[i])'
      <3> DEFINE s == groups[h].samples[i]
      <3>1. groups'[h].samples[i] = s /\ Placed(h, s)
        BY <2>1, <2>2
      <3> HIDE DEF s
      <3> QED
        BY <1>1, <1>2, <1>7, <3>1 DEF Placed, Recycled, Complete
    <2>3. SamplesInv' /\ Group' = Group /\ DOMAIN groups' = D
      BY <1>1, <2>1, <2>2, RestKeeps
    <2>4. TypeInv'
      BY <1>1, <1>7, <2>1, <2>3 DEF GroupsInv, TypeInv, ArgsTyped
    <2>5. DOMAIN fate' = DOMAIN fate \cup {g}
      BY <1>7, FatedFacts DEF Leave
    <2>6. PlacesInv'
      BY <1>1, <1>3, <1>7, <2>5 DEF GroupsInv, PlacesInv, Apart, All
    <2>7. AliveInv'
      BY <1>1, <1>3, <1>7, <2>3 DEF GroupsInv, PlacesInv, Apart, AliveInv, Recycled
    <2> QED
      BY <1>4, <2>3, <2>4, <2>6, <2>7 DEF GroupsInv
  <1>8. CASE /\ aborted_samples' = Append(aborted_samples, g)
             /\ groups' = StopSamples({g}) /\ UNCHANGED fate
    <2> DEFINE stopped(s) == [s EXCEPT !.pc = "off"]
               new == [groups[g] EXCEPT !.samples = [i \in Samples |-> stopped(groups[g].samples[i])]]
    <2>1. /\ DOMAIN groups' = DOMAIN groups
          /\ \A h \in DOMAIN groups : groups'[h] = IF h = g THEN new ELSE groups[h]
          /\ groups' = [h \in DOMAIN groups |-> groups'[h]]
      BY <1>8 DEF StopSamples
    <2>2. \A s \in Sample : /\ stopped(s) \in Sample /\ stopped(s).pc = "off"
                            /\ stopped(s).status = s.status /\ stopped(s).response = s.response
                            /\ stopped(s).text = s.text /\ stopped(s).loss_mask = s.loss_mask
                            /\ stopped(s).masked = s.masked /\ stopped(s).reward = s.reward
      BY DEF Sample, Stages
    <2> HIDE DEF stopped
    <2>3. new \in Group /\ \A i \in Samples : new.samples[i] = stopped(groups[g].samples[i])
      BY <1>5, <2>2 DEF Group
    <2> HIDE DEF new
    <2>4. groups' \in [DOMAIN groups -> Group]
      BY <1>5, <2>1, <2>3
    <2>5. Group' = Group
      BY <1>2 DEF Group
    <2>6. /\ SetOf(aborted_samples') = SetOf(aborted_samples) \cup {g}
          /\ NoDup(aborted_samples) /\ g \notin SetOf(aborted_samples) => NoDup(aborted_samples')
          /\ aborted_samples' \in Seq(Nat)
      BY <1>5, <1>6, <1>8, SetOfAppend
    <2>7. TypeInv'
      BY <1>1, <2>1, <2>4, <2>5, <2>6 DEF GroupsInv, TypeInv, ArgsTyped
    <2>8. PlacesInv'
      BY <1>1, <1>3, <1>8, <2>6 DEF GroupsInv, PlacesInv, Apart, All
    <2>9. AliveInv'
      BY <1>1, <1>5, <2>1, <2>6 DEF GroupsInv, AliveInv, Recycled
    <2>10. SamplesInv'
      <3> SUFFICES ASSUME NEW h \in DOMAIN groups, NEW j \in Samples
                   PROVE  Sound(groups[h].samples[j])' /\ Placed(h, groups[h].samples[j])'
        BY <1>2, <2>1 DEF SamplesInv
      <3> DEFINE s == groups[h].samples[j]
      <3>1. Sound(s) /\ Placed(h, s) /\ s \in Sample
        BY <1>5 DEF GroupsInv, SamplesInv, Group
      <3>2. CASE h = g
        <4> DEFINE t == stopped(s)
        <4>1. groups'[h].samples[j] = t
          BY <2>1, <2>3, <3>2
        <4> HIDE DEF s
        <4>2. /\ t.pc = "off" /\ t.status = s.status /\ t.response = s.response
              /\ t.text = s.text /\ t.loss_mask = s.loss_mask
              /\ t.masked = s.masked /\ t.reward = s.reward
          BY <2>2, <3>1
        <4>3. s.pc = "end"
          BY <1>1, <3>1, <3>2 DEF Placed
        <4>4. Sound(t)
          BY <3>1, <4>2, <4>3 DEF Sound, Scored, OneText, Past
        <4>5. /\ h \notin data /\ h \notin done /\ h \notin SetOf(retry_groups) /\ h \notin SetOf(buffer)
              /\ h \notin scoring /\ h \notin pendings' /\ h \notin finished'
          BY <1>1, <1>3, <3>2 DEF GroupsInv, PlacesInv, Apart
        <4> HIDE DEF t
        <4>6. Placed(h, groups[h].samples[j])'
          BY <1>1, <4>1, <4>2, <4>5 DEF Placed
        <4> QED
          BY <1>2, <4>1, <4>4, <4>6
      <3>3. CASE h # g
        <4>1. groups'[h].samples[j] = s
          BY <2>1, <3>3
        <4> HIDE DEF s
        <4>2. Placed(h, groups[h].samples[j])'
          BY <1>1, <1>2, <2>6, <3>1, <3>3, <4>1 DEF Placed, Recycled, Complete
        <4> QED
          BY <1>2, <3>1, <4>1, <4>2
      <3> QED
        BY <3>2, <3>3
    <2> QED
      BY <1>4, <2>7, <2>8, <2>9, <2>10 DEF GroupsInv
  <1> QED
    BY <1>1, <1>7, <1>8

LEMMA AbortMeetsFailedKeeps ==
    ASSUME GroupsInv, NEW g \in finished, AbortMeetsFailed(g), UNCHANGED args
    PROVE  GroupsInv'
  <1>1. /\ pc = "abort" /\ g \in finished \cap failed
        /\ \/ pc' = "failed" /\ UNCHANGED <<pendings, finished, fate>>
           \/ /\ pendings' = pendings \ {g} /\ finished' = finished \ {g}
              /\ fate' = Fated(fate, {g}, "failed") /\ UNCHANGED pc
        /\ UNCHANGED <<rollout_id, remaining_batch_size, aborted, groups, scoring, done, data,
                       retry_groups, aborted_samples, buffer, sample_group_index, failed, args>>
    BY DEF AbortMeetsFailed
  <1>2. (\A x : OnPolicy(x)' <=> OnPolicy(x)) /\ (\A x : Old(x)' <=> Old(x))
    BY <1>1, Stays
  <1>3. g \in pendings /\ finished \subseteq pendings /\ scoring \subseteq pendings \ finished
    BY DEF GroupsInv, OrderInv
  <1>4. ASSUME NEW h \in DOMAIN groups, NEW i \in Samples, Placed(h, groups[h].samples[i])
        PROVE  Placed(h, groups[h].samples[i])'
    <2> DEFINE s == groups[h].samples[i]
    <2>1. groups'[h].samples[i] = s /\ Placed(h, s)
      BY <1>1, <1>4
    <2>2. (h \in pendings' => h \in pendings) /\ (h \in finished' => h \in finished)
      BY <1>1
    <2> HIDE DEF s
    <2> QED
      BY <1>1, <1>2, <2>1, <2>2 DEF Placed, Recycled, Complete
  <1>5. SamplesInv' /\ Group' = Group
    BY <1>1, <1>4, UnmovedKeep
  <1>6. TypeInv' /\ OrderInv'
    BY <1>1, <1>3, <1>5 DEF GroupsInv, TypeInv, ArgsTyped, OrderInv
  <1>7. AliveInv'
    BY <1>1, <1>3 DEF GroupsInv, AliveInv, Recycled
  <1>8. PlacesInv'
    <2>1. CASE UNCHANGED <<pendings, finished, fate>>
      BY <1>1, <2>1 DEF GroupsInv, PlacesInv
    <2>2. CASE pendings' = pendings \ {g} /\ fate' = Fated(fate, {g}, "failed")
      <3>1. /\ DOMAIN fate' = DOMAIN fate \cup {g}
            /\ \A h \in DOMAIN fate \cup {g} : fate'[h] = IF h \in {g} THEN "failed" ELSE fate[h]
        BY <2>2, FatedFacts
      <3>2. args.partial_rollout => \A h \in DOMAIN fate' : fate'[h] # "discarded"
        BY <3>1 DEF GroupsInv, PlacesInv
      <3>3. PlacesInv
        BY DEF GroupsInv
      <3> DEFINE R == SetOf(retry_groups)
                 A == SetOf(aborted_samples)
                 B == SetOf(buffer)
      <3>4. Apart(pendings \ {g}, done, data, R, A, B, DOMAIN fate \cup {g})
        BY <1>3, <3>3 DEF PlacesInv, Apart
      <3>5. All(pendings \ {g}, done, data, R, A, B, DOMAIN fate \cup {g}) = 0..(sample_group_index - 1)
        BY <1>3, <3>3 DEF PlacesInv, All
      <3> QED
        BY <1>1, <2>2, <3>1, <3>2, <3>3, <3>4, <3>5 DEF PlacesInv
    <2> QED
      BY <1>1, <2>1, <2>2
  <1> QED
    BY <1>5, <1>6, <1>7, <1>8 DEF GroupsInv

(* The next rollout: what is recycled is old, what is old stays so, and    *)
(* nothing is pending that would be on policy.                             *)
LEMMA FinishRolloutKeeps ==
    ASSUME GroupsInv, FinishRollout, UNCHANGED args
    PROVE  GroupsInv'
  <1> DEFINE R == SetOf(retry_groups)
             A == SetOf(aborted_samples)
             B == SetOf(buffer)
             F == DOMAIN fate
             gone == data \cup R
  <1>1. /\ pc = "abort" /\ pendings = {} /\ remaining_batch_size' = 0 /\ aborted' = FALSE
        /\ groups' = Without(groups, gone)
        /\ fate' = Fated(Fated(fate, R, "rejected"), data, "trained")
        /\ buffer' = buffer \o aborted_samples
        /\ data' = {} /\ retry_groups' = <<>> /\ aborted_samples' = <<>>
        /\ rollout_id' = rollout_id + 1 /\ pc' \in {"fill", "end"}
        /\ UNCHANGED <<pendings, scoring, finished, done, sample_group_index, failed, args>>
    BY DEF FinishRollout, Delivering
  <1>2. /\ rollout_id \in Nat /\ groups \in [DOMAIN groups -> Group] /\ Samples' = Samples
        /\ buffer \in Seq(Nat) /\ aborted_samples \in Seq(Nat)
    BY <1>1 DEF GroupsInv, TypeInv, Samples
  <1>3. done = {} /\ finished = {} /\ scoring = {}
    BY <1>1 DEF GroupsInv, OrderInv
  <1>4. /\ SetOf(buffer') = B \cup A
        /\ NoDup(buffer) /\ NoDup(aborted_samples) /\ B \cap A = {} => NoDup(buffer')
        /\ buffer' \in Seq(Nat)
    BY <1>1, <1>2, SetOfConcat
  <1>5. SetOf(retry_groups') = {} /\ SetOf(aborted_samples') = {}
        /\ NoDup(retry_groups') /\ NoDup(aborted_samples')
    BY <1>1, SetOfEmpty
  <1> DEFINE f1 == Fated(fate, R, "rejected")
  <1>6. DOMAIN f1 = F \cup R /\ \A g \in F \cup R : f1[g] = IF g \in R THEN "rejected" ELSE fate[g]
    BY FatedFacts
  <1>7. DOMAIN fate' = DOMAIN f1 \cup data
        /\ \A g \in DOMAIN f1 \cup data : fate'[g] = IF g \in data THEN "trained" ELSE f1[g]
    BY <1>1, FatedFacts
  <1>8. /\ Apart(pendings, done, data, R, A, B, F)
        /\ All(pendings, done, data, R, A, B, F) = 0..(sample_group_index - 1)
        /\ NoDup(buffer) /\ NoDup(aborted_samples)
        /\ args.partial_rollout => \A g \in F : fate[g] # "discarded"
    BY DEF GroupsInv, PlacesInv
  <1>9. \A g \in gone : g \notin A /\ g \notin B
    BY <1>8 DEF Apart
  <1>10. R \cup A \cup B \subseteq DOMAIN groups /\ DOMAIN groups \subseteq 0..(sample_group_index - 1)
    BY DEF GroupsInv, AliveInv, Recycled
  <1>11. Recycled' = B \cup A /\ SetOf(retry_groups') \cup SetOf(buffer') = B \cup A /\ Recycled = R \cup A \cup B
    BY <1>4, <1>5 DEF Recycled
  <1> HIDE DEF R, A, B, F, f1
  <1>12. /\ groups' \in [DOMAIN groups \ gone -> Group]
         /\ \A g \in DOMAIN groups \ gone : g \in DOMAIN groups /\ groups'[g] = groups[g]
    BY <1>1, <1>2, WithoutTyped
  <1>13. DOMAIN groups' = DOMAIN groups \ gone /\ Group' = Group
    BY <1>2, <1>12 DEF Group
  <1>14. TypeInv'
    <2>1. rollout_id' \in Nat /\ remaining_batch_size' \in Int
      BY <1>1, <1>2
    <2>4. aborted' \in BOOLEAN
      BY <1>1
    <2>2. retry_groups' \in Seq(Nat) /\ aborted_samples' \in Seq(Nat)
      BY <1>1
    <2>3. groups' \in [DOMAIN groups' -> Group]
      BY <1>12, <1>13
    <2> QED
      BY <1>1, <1>4, <1>13, <2>1, <2>2, <2>3, <2>4 DEF GroupsInv, TypeInv, ArgsTyped
  <1>15. OrderInv'
    BY <1>1, <1>3 DEF OrderInv
  <1>16. PlacesInv'
    <2>1. DOMAIN fate' = F \cup R \cup data
      BY <1>6, <1>7
    <2>2. args.partial_rollout => \A g \in DOMAIN fate' : fate'[g] # "discarded"
      BY <1>6, <1>7, <1>8
    <2>3. Apart(pendings, done, {}, {}, {}, B \cup A, F \cup R \cup data)
      BY <1>8 DEF Apart
    <2>4. All(pendings, done, {}, {}, {}, B \cup A, F \cup R \cup data) = 0..(sample_group_index - 1)
      BY <1>8 DEF All
    <2>5. NoDup(buffer')
      BY <1>4, <1>8 DEF Apart
    <2> QED
      BY <1>1, <1>4, <1>5, <2>1, <2>2, <2>3, <2>4, <2>5 DEF PlacesInv
  <1>17. AliveInv'
    BY <1>1, <1>3, <1>9, <1>10, <1>11, <1>13 DEF AliveInv
  <1>18. SamplesInv'
    <2> SUFFICES ASSUME NEW h \in DOMAIN groups', NEW j \in Samples
                 PROVE  Sound(groups[h].samples[j])' /\ Placed(h, groups[h].samples[j])'
      BY <1>2 DEF SamplesInv
    <2> DEFINE s == groups[h].samples[j]
    <2>1. h \in DOMAIN groups /\ groups'[h].samples[j] = s
      BY <1>12, <1>13
    <2>2. Sound(s) /\ Placed(h, s) /\ s \in Sample
      BY <1>2, <2>1 DEF GroupsInv, SamplesInv, Group
    <2> HIDE DEF s
    <2>3. \A k \in DOMAIN s.response : s.response[k].by \in Nat
      <3>1. s.response \in Seq(Token)
        BY <2>2 DEF Sample
      <3>2. \A k \in DOMAIN s.response : s.response[k] \in Token
        BY <3>1
      <3> QED
        BY <3>2 DEF Token
    <2>4. Sound(groups[h].samples[j])'
      <3>1. Scored(groups[h].samples[j])'
        BY <1>1, <2>1, <2>2 DEF Sound, Scored
      <3>2. OneText(groups[h].samples[j])'
        BY <1>1, <2>1, <2>2 DEF Sound, OneText
      <3>3. Past(groups[h].samples[j])'
        BY <1>1, <1>2, <2>1, <2>2, <2>3 DEF Sound, Past
      <3> QED
        BY <3>1, <3>2, <3>3 DEF Sound
    <2>5. Old(groups[h].samples[j])'
      BY <1>1, <1>2, <2>1, <2>2, <2>3 DEF Sound, Past, Old
    <2>6. h \in Recycled' => h \in Recycled
      BY <1>11
    <2>7. Placed(h, groups[h].samples[j])'
      BY <1>1, <1>3, <2>1, <2>2, <2>5, <2>6 DEF Placed
    <2> QED
      BY <2>4, <2>7
  <1> QED
    BY <1>14, <1>15, <1>16, <1>17, <1>18 DEF GroupsInv

(***************************************************************************)
(* The theorems.                                                           *)
(***************************************************************************)
LEMMA InitGroups == Init => GroupsInv
  <1> SUFFICES ASSUME Init PROVE GroupsInv
    OBVIOUS
  <1> USE DEF Init
  <1>1. ArgsTyped
    BY ArgsOk
  <1>2. DOMAIN groups = {} /\ DOMAIN fate = {} /\ <<>> \in Seq(Nat)
    OBVIOUS
  <1>3. groups \in [DOMAIN groups -> Group]
    BY <1>2
  <1>4. TypeInv
    <2>1. rollout_id \in Nat /\ sample_group_index \in Nat /\ remaining_batch_size \in Int
      OBVIOUS
    <2>2. aborted \in BOOLEAN
      OBVIOUS
    <2>3. retry_groups \in Seq(Nat) /\ aborted_samples \in Seq(Nat) /\ buffer \in Seq(Nat)
      BY <1>2
    <2> QED
      BY <1>1, <1>3, <2>1, <2>2, <2>3 DEF TypeInv
  <1>5. SetOf(retry_groups) = {} /\ SetOf(aborted_samples) = {} /\ SetOf(buffer) = {}
        /\ NoDup(retry_groups) /\ NoDup(aborted_samples) /\ NoDup(buffer)
    BY SetOfEmpty
  <1>6. OrderInv
    BY DEF OrderInv
  <1>7. Apart({}, {}, {}, {}, {}, {}, {}) /\ All({}, {}, {}, {}, {}, {}, {}) = 0..(0 - 1)
    BY DEF Apart, All
  <1>8. PlacesInv
    BY <1>2, <1>5, <1>7 DEF PlacesInv
  <1>9. AliveInv
    BY <1>2, <1>5 DEF AliveInv, Recycled
  <1>10. SamplesInv
    BY <1>2 DEF SamplesInv
  <1> QED
    BY <1>4, <1>6, <1>8, <1>9, <1>10 DEF GroupsInv

LEMMA StutterKeeps ==
    ASSUME GroupsInv, UNCHANGED vars
    PROVE  GroupsInv'
  <1> USE DEF vars
  <1>1. (\A x : OnPolicy(x)' <=> OnPolicy(x)) /\ (\A x : Old(x)' <=> Old(x))
    BY Stays
  <1>2. ASSUME NEW h \in DOMAIN groups, NEW i \in Samples, Placed(h, groups[h].samples[i])
        PROVE  Placed(h, groups[h].samples[i])'
    <2> DEFINE s == groups[h].samples[i]
    <2>1. groups'[h].samples[i] = s /\ Placed(h, s)
      BY <1>2
    <2> HIDE DEF s
    <2> QED
      BY <1>1, <2>1 DEF Placed, Recycled, Complete
  <1>3. SamplesInv' /\ Group' = Group
    BY <1>2, UnmovedKeep
  <1>4. TypeInv' /\ OrderInv' /\ PlacesInv' /\ AliveInv'
    BY <1>3 DEF GroupsInv, TypeInv, ArgsTyped, OrderInv, PlacesInv, AliveInv, Recycled
  <1> QED
    BY <1>3, <1>4 DEF GroupsInv

LEMMA NextGroups == GroupsInv /\ [Next]_vars => GroupsInv'
  <1> SUFFICES ASSUME GroupsInv, [Next]_vars PROVE GroupsInv'
    OBVIOUS
  <1>1. ASSUME NEW g \in DOMAIN groups, TaskStep(g), UNCHANGED args PROVE GroupsInv'
    BY <1>1, SampleStepsKeep, GatheredKeeps, GroupRewardKeeps, RewardRaisesKeeps DEF TaskStep
  <1>2. CASE MainStep
    <2>1. CASE SubmitRetries \/ SubmitFetched \/ StartWait \/ WaitReturns
      BY <1>2, <2>1, SubmitRetriesKeeps, SubmitFetchedKeeps, StartWaitKeeps, WaitReturnsKeeps DEF MainStep
    <2>2. ASSUME NEW g \in done,
                 KeepGroup(g) \/ MeetFailed(g) \/ \E retryable \in BOOLEAN : RejectGroup(g, retryable)
          PROVE  GroupsInv'
      BY <1>2, <2>2, KeepGroupKeeps, MeetFailedKeeps, RejectGroupKeeps DEF MainStep
    <2>3. CASE DoneCollected \/ AbortPostRaises
      BY <1>2, <2>3, AbortBeginsKeeps DEF MainStep
    <2>4. ASSUME NEW g \in finished, CollectAborted(g) \/ AbortMeetsFailed(g)
          PROVE  GroupsInv'
      BY <1>2, <2>4, CollectAbortedKeeps, AbortMeetsFailedKeeps DEF MainStep
    <2>5. CASE FinishRollout
      BY <1>2, <2>5, FinishRolloutKeeps DEF MainStep
    <2> QED
      BY <1>2, <2>1, <2>2, <2>3, <2>4, <2>5 DEF MainStep
  <1>3. CASE UNCHANGED vars
    BY <1>3, StutterKeeps
  <1> QED
    BY <1>1, <1>2, <1>3 DEF Next, SomeTaskStep, Ended

LEMMA GroupsAlways == Spec => []GroupsInv
  BY InitGroups, NextGroups, PTL DEF Spec

(* No group is lost, duplicated or trained on twice, and with partial      *)
(* rollout the abort discards none: every group that generate_rollout_async *)
(* fetched is in one of the seven places.                                  *)
THEOREM GroupsInOnePlace == Spec => []OnePlaceEach
  <1> DEFINE places == <<pendings, done, data, SetOf(retry_groups), SetOf(aborted_samples),
                         SetOf(buffer), DOMAIN fate>>
  <1>1. GroupsInv => OnePlaceEach
    <2> SUFFICES ASSUME GroupsInv PROVE OnePlaceEach
      OBVIOUS
    <2>1. PlacesInv /\ buffer \in Seq(Nat)
      BY DEF GroupsInv, TypeInv
    <2>2. Cardinality(SetOf(buffer)) = Len(buffer)
      BY <2>1, NoDupCounted DEF PlacesInv
    <2>3. DOMAIN places = 1..7 /\ Len(places) = 7
      OBVIOUS
    <2>4. UNION SetOf(places)
            = All(pendings, done, data, SetOf(retry_groups), SetOf(aborted_samples), SetOf(buffer), DOMAIN fate)
      <3> DEFINE R == SetOf(retry_groups)
                 A == SetOf(aborted_samples)
                 B == SetOf(buffer)
                 F == DOMAIN fate
      <3> HIDE DEF R, A, B, F
      <3>1. places = <<pendings, done, data, R, A, B, F>>
        BY DEF R, A, B, F
      <3> HIDE DEF places
      <3>2. SetOf(places) = {pendings, done, data, R, A, B, F}
        BY <3>1 DEF SetOf
      <3> QED
        BY <3>2 DEF All, R, A, B, F
    <2>5. \A a, b \in 1..7 : a # b => places[a] \cap places[b] = {}
      <3> DEFINE R == SetOf(retry_groups)
                 A == SetOf(aborted_samples)
                 B == SetOf(buffer)
                 F == DOMAIN fate
      <3>1. Apart(pendings, done, data, R, A, B, F)
        BY <2>1 DEF PlacesInv
      <3>2. places = <<pendings, done, data, R, A, B, F>>
        OBVIOUS
      <3> HIDE DEF places, R, A, B, F
      <3> QED
        BY <3>1, <3>2 DEF Apart
    <2> HIDE DEF places
    <2>6. /\ UNION SetOf(places) = 0..(sample_group_index - 1)
          /\ \A a, b \in DOMAIN places : a # b => places[a] \cap places[b] = {}
          /\ args.partial_rollout => \A g \in DOMAIN fate : fate[g] # "discarded"
      BY <2>1, <2>3, <2>4, <2>5 DEF PlacesInv
    <2> QED
      BY <2>2, <2>6 DEF OnePlaceEach, places
  <1> QED
    BY <1>1, GroupsAlways, PTL

(* What generate_rollout_async hands to training is complete, whatever was *)
(* aborted, recycled, retried or raised on the way.                        *)
THEOREM DeliveredIsComplete == Spec => []DeliveredComplete
  <1>1. GroupsInv => DeliveredComplete
    <2> SUFFICES ASSUME GroupsInv, NEW g \in data, NEW i \in Samples
                 PROVE  /\ groups[g].samples[i].status \in {"completed", "truncated"}
                        /\ groups[g].samples[i].reward = Len(groups[g].samples[i].response)
      BY DEF DeliveredComplete
    <2>1. g \in DOMAIN groups
      BY DEF GroupsInv, AliveInv
    <2>2. Complete(groups[g].samples[i])
      BY <2>1 DEF GroupsInv, SamplesInv, Placed
    <2> QED
      BY <2>2 DEF Complete, Final
  <1> QED
    BY <1>1, GroupsAlways, PTL

(* A masked partial rollout trains on its own tokens only, when the mask   *)
(* is the one of sglang_rollout, which covers the new tokens.              *)
THEOREM OnlyOnPolicyIsTrained ==
    ASSUME \A c \in Configurations : c.partial_rollout /\ c.mask_offpolicy => c.impl = "sglang"
    PROVE  Spec => []OnlyOnPolicyTrained
  <1>1. GroupsInv => OnlyOnPolicyTrained
    <2> SUFFICES ASSUME GroupsInv, args.partial_rollout, args.mask_offpolicy,
                        NEW g \in data, NEW i \in Samples
                 PROVE  LET s == groups[g].samples[i]
                        IN  /\ s.masked => Len(s.loss_mask) = Len(s.response)
                            /\ \A j \in DOMAIN s.response :
                                (s.response[j].by = rollout_id) <=> (s.masked => s.loss_mask[j] = 1)
      BY DEF OnlyOnPolicyTrained
    <2>1. Masking
      BY DEF Masking, GroupsInv, TypeInv, ArgsTyped
    <2>2. g \in DOMAIN groups
      BY DEF GroupsInv, AliveInv
    <2>3. OnPolicy(groups[g].samples[i])
      BY <2>2 DEF GroupsInv, SamplesInv, Placed
    <2> QED
      BY <2>1, <2>3 DEF OnPolicy
  <1> QED
    BY <1>1, GroupsAlways, PTL

(* A response is one text within its budget, when every token decodes to   *)
(* some text: what generate counts as already said is then what was said.  *)
THEOREM TokensFollowEachOther ==
    ASSUME \A c \in Configurations : ~c.silent
    PROVE  Spec => []TokensFollow
  <1>1. GroupsInv => TokensFollow
    <2> SUFFICES ASSUME GroupsInv, NEW g \in DOMAIN groups, NEW i \in Samples
                 PROVE  LET r == groups[g].samples[i].response
                        IN  Len(r) <= args.max_new_tokens /\ \A j \in DOMAIN r : r[j].pos = j
      BY DEF TokensFollow
    <2>1. ~args.silent
      BY DEF GroupsInv, TypeInv, ArgsTyped
    <2>2. OneText(groups[g].samples[i])
      BY DEF GroupsInv, SamplesInv, Sound
    <2> QED
      BY <2>1, <2>2 DEF OneText
  <1> QED
    BY <1>1, GroupsAlways, PTL

=============================================================================
