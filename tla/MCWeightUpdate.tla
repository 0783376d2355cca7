---------------------------- MODULE MCWeightUpdate ----------------------------
(* Configurations for WeightUpdate: two pipeline stages that broadcast to    *)
(* two engines; engines replaced between updates; writes from one trainer    *)
(* into an engine of two GPUs, and from two into two engines; engines on the *)
(* GPUs of the trainer with one that has its own; and plans alone, of many   *)
(* sizes.                                                                    *)
EXTENDS WeightUpdate

P(name, size, expert, fused) == [name |-> name, size |-> size, expert |-> expert, fused |-> fused]

\* A buffer of 2: the first stage fills two buckets, and the second one has a
\* parameter that is larger than the buffer, and experts.
TwoStages ==
    <<<<P("w1", 1, FALSE, "w1"), P("w2", 1, FALSE, "w2"), P("w3", 1, FALSE, "w3")>>,
      <<P("w4", 3, FALSE, "w4"), P("e1", 1, TRUE, "e1")>>>>

TwoParams == <<<<P("w1", 1, FALSE, "w1")>>, <<P("w2", 1, FALSE, "w2")>>>>

\* Two experts that the engine keeps in one parameter, in two buckets.
OneStage ==
    <<<<P("w1", 1, FALSE, "w1"), P("w2", 1, FALSE, "w2"),
        P("e1", 2, TRUE, "e"), P("e2", 2, TRUE, "e")>>>>

Base ==
    [transport |-> "broadcast", stages |-> 2, copies |-> 1, engines |-> 2, gpus |-> 1,
     distributed |-> {}, params |-> TwoStages, buffer |-> 2, in_place |-> FALSE,
     updates |-> 1, restarts |-> 0, failures |-> 0]

BroadcastLines ==
    <<Base,
      [Base EXCEPT !.in_place = TRUE, !.params = TwoParams, !.updates = 2, !.restarts = 1],
      [Base EXCEPT !.stages = 1, !.params = OneStage, !.updates = 2, !.restarts = 1]>>

P2PBase == [Base EXCEPT !.transport = "p2p", !.stages = 1, !.params = OneStage]

P2PLines ==
    <<[P2PBase EXCEPT !.engines = 1, !.gpus = 2, !.updates = 2],
      [P2PBase EXCEPT !.copies = 2],
      [P2PBase EXCEPT !.copies = 2, !.engines = 1],
      [P2PBase EXCEPT !.gpus = 2, !.copies = 3]>>

TensorLines ==
    <<[Base EXCEPT !.transport = "tensor", !.stages = 1, !.copies = 2, !.engines = 3,
                   !.distributed = {3}, !.params = OneStage, !.restarts = 1,
                   !.updates = 2]>>

\* A write fails or takes too long; an engine is replaced between updates.
WriteFailureLines == <<[P2PBase EXCEPT !.failures = 1]>>
ReconnectLines == <<[P2PBase EXCEPT !.engines = 1, !.updates = 2, !.restarts = 1]>>

\* Plans without an update: more trainers than there are GPUs to write to and fewer,
\* and buffers of every size from one below the smallest parameter.
PlanLines ==
    FoldSet(LAMBDA c, cs : Append(cs, c), <<>>,
        {[P2PBase EXCEPT !.copies = c, !.engines = e, !.gpus = g, !.buffer = b, !.updates = 0] :
              c \in 1..4, e \in 1..3, g \in 1..2, b \in 0..3}
        \cup {[Base EXCEPT !.buffer = b, !.updates = 0] : b \in 0..4})

UpdateLines ==
    BroadcastLines \o P2PLines \o TensorLines \o WriteFailureLines \o ReconnectLines \o PlanLines

=============================================================================
