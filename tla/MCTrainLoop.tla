---------------------------- MODULE MCTrainLoop ----------------------------
(* Command lines for TrainLoop: PPO with a warmup of the critic and GRPO,  *)
(* colocated or not, both drivers, both kinds of saving.                   *)
EXTENDS TrainLoop

Lines ==
    [driver : {"sync", "async"}, use_critic : BOOLEAN, num_critic_only_steps : 0..2,
     save_interval : 1..3, update_weights_interval : 1..3, async_save : BOOLEAN,
     offload : BOOLEAN, weights_backuper : BOOLEAN, keep_old_actor : BOOLEAN,
     archive_interval : {2, 4, 6}, stop_on_no_grad : BOOLEAN]

\* Only train.py colocates and stops early, only train_async.py has an interval
\* of updates, and only a critic has a warmup.  The old actor is kept wherever it can be.
ValidLines ==
    {c \in Lines :
        /\ c.driver = "sync" => c.update_weights_interval = 1
        /\ c.driver = "async" => ~c.offload /\ ~c.stop_on_no_grad
        /\ ~c.use_critic => c.num_critic_only_steps = 0
        /\ c.archive_interval = 2 * c.save_interval
        /\ c.weights_backuper \/ c.offload
        /\ c.keep_old_actor = ~c.offload}

CommandLines == {c \in ValidLines : SavesAwake(c)}
WarmupLines  == {c \in ValidLines : ~SavesAwake(c)}

=============================================================================
