----------------------------- MODULE TrainLoop -----------------------------
(***************************************************************************)
(* The two drivers, train.py ("sync") and train_async.py ("async"): rollouts *)
(* are generated, the critic and the actor train on them, checkpoints are  *)
(* saved, the weights are pushed to the engines.  The job may crash at any *)
(* step; started again it resumes from the checkpoints it finds.           *)
(*                                                                         *)
(* A model is its history, the sequence of data it was trained on; its     *)
(* weights are named by the length of that history, and what is not the    *)
(* weights of its history is Lost.  A rollout takes one batch of prompts,  *)
(* named by where the data source was in which epoch.                      *)
(***************************************************************************)
EXTENDS Integers, Sequences

CONSTANTS
    num_rollout, rollout_batch_size,
    dataset_size,       \* prompts in an epoch
    Configurations,     \* the command lines to check, see Configuration
    MaxCrashes          \* bound: crashes of the job

Configuration ==
    [driver : {"sync", "async"},
     use_critic : BOOLEAN,
     num_critic_only_steps : Nat,
     save_interval : Nat \ {0},
     update_weights_interval : Nat \ {0},
     archive_interval : Nat,     \* --archive-checkpoint-interval, 0 for none
     async_save : BOOLEAN,
     offload : BOOLEAN,          \* --colocate: offload_train and offload_rollout
     weights_backuper : BOOLEAN, \* FALSE: --disable-weights-backuper
     keep_old_actor : BOOLEAN,
     stop_on_no_grad : BOOLEAN]

ASSUME TrainAssumption ==
    /\ {num_rollout, rollout_batch_size, dataset_size} \subseteq Nat \ {0} /\ MaxCrashes \in Nat
    /\ rollout_batch_size <= dataset_size
    /\ \A c \in Configurations :
        /\ c \in Configuration
        /\ c.driver = "async" => ~c.offload    \* the assertion of train_async.py
        /\ ~c.use_critic => c.num_critic_only_steps = 0
        /\ c.archive_interval % c.save_interval = 0
        \* Help of --disable-weights-backuper; the second backup of an actor asleep would
        \* read memory that is not there.
        /\ c.keep_old_actor => c.weights_backuper /\ ~c.offload

VARIABLES
    args,            \* one of Configurations, fixed
    pc,              \* where the driver is
    rollout_id,
    critic, actor,   \* histories of the models in the trainers
    training,        \* role -> "no", "forward", "update": where train() is
    awake,           \* roles whose memory is on the GPUs
    groups,          \* roles whose NCCL process groups exist
    params,          \* role -> version the trainer's own memory holds, or Lost
    resident,        \* tags resident on the engines' GPUs
    weights,         \* version the engines serve
    backup,          \* tag -> version the actor's weights backuper keeps
    curr,            \* rollout_data_ref
    next,            \* rollout_data_next_future: [state, data]
    data_source,     \* [epoch_id, sample_offset]
    disk,            \* checkpoints by role, states of the data source, archives
    unfinished,      \* role -> asynchronous saves that are not finalized
    crashes

vars == <<args, pc, rollout_id, critic, actor, training, awake, groups, params, resident,
          weights, backup, curr, next, data_source, disk, unfinished, crashes>>

models == <<critic, actor>>
engines == <<resident, weights>>
memory == <<awake, groups, params>>
storage == <<disk, unfinished, crashes>>

Roles == IF args.use_critic THEN {"actor", "critic"} ELSE {"actor"}
AllTags == {"weights", "kv_cache", "cuda_graph"}

FirstEpoch == [epoch_id |-> 0, sample_offset |-> 0]
Nothing == [rollout |-> -1, prompts |-> FirstEpoch, version |-> -1]
NoFuture == [state |-> "none", data |-> Nothing]
NoCheckpoint == [iteration |-> -1, history |-> <<>>, weights |-> 0]
Lost == -1

TrainsActor(r) == r >= args.num_critic_only_steps
LastRollout(r) == r = num_rollout - 1

\* With save_interval set and no epoch boundary.
should_run_periodic_action(r, interval) == LastRollout(r) \/ (r + 1) % interval = 0

(***************************************************************************)
(* Start: create_rollout_manager and create_training_models.               *)
(***************************************************************************)
Init ==
    /\ args \in Configurations
    /\ pc = "start" /\ rollout_id = -1
    /\ critic = <<>> /\ actor = <<>>
    /\ training = [role \in {"actor", "critic"} |-> "no"]
    /\ awake = {} /\ groups = {} /\ params = [role \in {"actor", "critic"} |-> Lost]
    /\ resident = {} /\ weights = Lost
    /\ backup = [actor |-> Lost, old_actor |-> Lost, rollout_actor |-> Lost]
    /\ curr = Nothing /\ next = NoFuture /\ data_source = FirstEpoch
    /\ disk = [actor |-> NoCheckpoint, critic |-> NoCheckpoint, dataset |-> <<>>,
               archive |-> [actor |-> <<>>, critic |-> <<>>]]
    /\ unfinished = [role \in {"actor", "critic"} |-> NoCheckpoint]
    /\ crashes = 0

\* BUG: the data source is loaded with the rollout to start with.
LoadedNext(iteration) == iteration + 1

LoadedState(iteration) == iteration

\* BUG: the critic's memory is paused like the actor's, with no copy on the CPU.
DropsBoth(role) == args.weights_backuper

\* disable_param_buffers_cpu_backup: pausing frees the parameters of the actor for good,
\* the weights backuper has them; the critic has none and keeps its copy on the CPU.
DropsOnPause(role) == args.weights_backuper /\ role = "actor"

\* What is in the memory of the trainers after sleep() in those of roles.
Paused(roles, held) ==
    [role \in {"actor", "critic"} |-> IF role \in roles /\ DropsOnPause(role) THEN Lost ELSE held[role]]

\* Both are no-ops for groups that are gone, or there.
destroy_process_groups(roles) == groups' = groups \ roles
reload_process_groups(roles) == groups' = groups \cup roles

\* The rollout to start with is the actor's; the critic loads what it finds,
\* and the data source its state after the rollout before, if there is one.
create_training_models ==
    /\ pc = "start"
    /\ actor' = disk.actor.history /\ critic' = disk.critic.history
    /\ rollout_id' = disk.actor.iteration + 1
    /\ LET r == LoadedState(disk.actor.iteration)
       IN  data_source' = IF r \in DOMAIN disk.dataset THEN disk.dataset[r] ELSE FirstEpoch
    /\ backup' = [tag \in DOMAIN backup |->
                      IF /\ tag # "actor" => args.keep_old_actor
                         /\ tag = "rollout_actor" => args.update_weights_interval = 1
                      THEN disk.actor.weights ELSE Lost]
    /\ LET loaded == [role \in {"actor", "critic"} |-> disk[role].weights]
       IN  params' = IF args.offload THEN Paused(Roles, loaded) ELSE loaded
    /\ awake' = IF args.offload THEN {} ELSE Roles
    /\ groups' = IF args.offload THEN {} ELSE Roles
    /\ resident' = IF args.offload THEN {} ELSE AllTags
    /\ pc' = IF args.offload THEN "onload_weights" ELSE "first_update"
    /\ UNCHANGED <<args, training, weights, curr, next, storage>>

(***************************************************************************)
(* Weights.                                                                *)
(***************************************************************************)
onload_weights ==
    /\ pc = "onload_weights"
    /\ resident' = resident \cup {"weights"}
    /\ pc' = "update_weights"
    /\ UNCHANGED <<args, rollout_id, models, training, memory, weights, backup, curr, next,
                   data_source, storage>>

\* BUG: the actor is copied, whatever the interval.
CopyActor == [backup EXCEPT !.old_actor = params.actor]

\* --keep-old-actor: a queue of two when every rollout updates, else a copy.
KeepOldActor ==
    IF args.update_weights_interval = 1
    THEN [backup EXCEPT !.old_actor = backup.rollout_actor, !.rollout_actor = params.actor]
    ELSE [backup EXCEPT !.old_actor = params.actor]

\* TensorBackuper.get and .restore; without the backuper there is one tag, the memory itself.
Kept(tag) == IF args.weights_backuper THEN backup[tag] ELSE params.actor

\* The updater reads the backup, as the trainers may be asleep.
update_weights ==
    /\ pc \in {"first_update", "update_weights"}
    /\ weights' = Kept("actor")
    /\ backup' = IF args.keep_old_actor THEN KeepOldActor ELSE backup
    /\ IF args.offload THEN destroy_process_groups({"actor"}) ELSE UNCHANGED groups
    /\ pc' = CASE args.offload                            -> "onload_kv"
              [] ~args.offload /\ args.driver = "sync"    -> "generate"
              [] args.driver = "async" /\ pc = "first_update" -> "first"
              [] args.driver = "async" /\ pc # "first_update" -> "loop"
    /\ UNCHANGED <<args, rollout_id, models, training, awake, params, resident, curr, next,
                   data_source, storage>>

onload_kv ==
    /\ pc = "onload_kv"
    /\ resident' = AllTags
    /\ pc' = "generate"
    /\ UNCHANGED <<args, rollout_id, models, training, memory, weights, backup, curr, next,
                   data_source, storage>>

(***************************************************************************)
(* Rollouts.                                                               *)
(***************************************************************************)
Rollout(r) == [rollout |-> r, prompts |-> data_source, version |-> weights]

\* get_samples(rollout_batch_size): a batch may take the end of one epoch and the beginning
\* of the next, which is shuffled anew.
get_samples ==
    LET offset == data_source.sample_offset + rollout_batch_size
    IN  data_source' = IF offset <= dataset_size THEN [data_source EXCEPT !.sample_offset = offset]
                       ELSE [epoch_id |-> data_source.epoch_id + 1,
                             sample_offset |-> offset - dataset_size]

\* train.py waits for the rollout, and may stop when too many prompts have no gradient.
generate ==
    /\ pc = "generate"
    /\ IF rollout_id < num_rollout
       THEN /\ curr' = Rollout(rollout_id) /\ get_samples
            /\ \/ pc' = IF args.offload THEN "offload_rollout" ELSE "train"
               \/ args.stop_on_no_grad /\ pc' = "end"
       ELSE pc' = "end" /\ UNCHANGED <<curr, data_source>>
    /\ UNCHANGED <<args, rollout_id, models, training, memory, engines, backup, next, storage>>

\* With the default --offload-rollout-level: kv_cache weight.
offload_rollout ==
    /\ pc = "offload_rollout"
    /\ resident' = {}
    /\ pc' = "train"
    /\ UNCHANGED <<args, rollout_id, models, training, memory, weights, backup, curr, next,
                   data_source, storage>>

\* train_async.py: the first rollout is started before the loop ...
StartFirst ==
    /\ pc = "first"
    /\ next' = [state |-> "running", data |-> Rollout(rollout_id)]
    /\ get_samples
    /\ pc' = "loop"
    /\ UNCHANGED <<args, rollout_id, models, training, memory, engines, backup, curr, storage>>

\* ... the last one is awaited, unless it was already, and the next one started.
SyncAndStartNext ==
    /\ pc = "loop"
    /\ IF rollout_id < num_rollout
       THEN /\ next.state # "running"
            /\ curr' = IF next.state = "ready" THEN next.data ELSE curr
            /\ IF rollout_id + 1 < num_rollout
               THEN /\ next' = [state |-> "running", data |-> Rollout(rollout_id + 1)]
                    /\ get_samples
               ELSE UNCHANGED <<next, data_source>>
            /\ pc' = "train"
       ELSE pc' = "end" /\ UNCHANGED <<curr, next, data_source>>
    /\ UNCHANGED <<args, rollout_id, models, training, memory, engines, backup, storage>>

RolloutEnds ==
    /\ next.state = "running"
    /\ next' = [next EXCEPT !.state = "ready"]
    /\ UNCHANGED <<args, pc, rollout_id, models, training, memory, engines, backup, curr,
                   data_source, storage>>

(***************************************************************************)
(* Training.  The critic starts first; both exchange values and log-probs  *)
(* in a collective of the two before they update.                          *)
(***************************************************************************)
\* Of the tags the actor switches to, the one that ends up in memory.
ForwardTag == IF args.keep_old_actor THEN "old_actor" ELSE "actor"

\* train: wake up, with the process groups of before, and restore what the forward pass needs.
StartTraining ==
    /\ pc = "train"
    /\ LET started == {role \in Roles : role = "actor" => TrainsActor(rollout_id)}
       IN  /\ training' = [role \in {"actor", "critic"} |->
                               IF role \in started THEN "forward" ELSE "no"]
           /\ awake' = awake \cup started
           /\ reload_process_groups(started)
           /\ params' = IF "actor" \in started
                        THEN [params EXCEPT !.actor = Kept(ForwardTag)] ELSE params
    /\ pc' = "training"
    /\ UNCHANGED <<args, rollout_id, models, engines, backup, curr, next, data_source, storage>>

\* BUG: the critic takes part one rollout too late.
CriticExchangesLate(r) == r > args.num_critic_only_steps

CriticExchanges(r) == r >= args.num_critic_only_steps

sync_actor_critic_data ==
    /\ args.use_critic
    /\ training["actor"] = "forward" /\ training["critic"] = "forward"
    /\ CriticExchanges(rollout_id)
    /\ training' = [role \in {"actor", "critic"} |-> "update"]
    /\ params' = [params EXCEPT !.actor = Kept("actor")]
    /\ UNCHANGED <<args, pc, rollout_id, models, awake, groups, engines, backup, curr, next,
                   data_source, storage>>

\* Without the other role, or before the critic's warmup is over.
NoExchange(role) ==
    /\ training[role] = "forward"
    /\ IF role = "critic" THEN ~CriticExchanges(rollout_id) ELSE ~args.use_critic
    /\ training' = [training EXCEPT ![role] = "update"]
    /\ params' = IF role = "actor" THEN [params EXCEPT !.actor = Kept("actor")] ELSE params
    /\ UNCHANGED <<args, pc, rollout_id, models, awake, groups, engines, backup, curr, next,
                   data_source, storage>>

History(role) == IF role = "actor" THEN actor ELSE critic

\* One step more than the weights it started from, if those were the model's.
Trained(role) == IF params[role] = Len(History(role)) THEN params[role] + 1 ELSE Lost

\* BUG: the actor's weights are not backed up after it was trained.
NotBackedUp(role, version) == backup

\* weights_backuper.backup("actor"), at the end of train_actor.
BackedUp(role, version) == IF role = "actor" THEN [backup EXCEPT !.actor = version] ELSE backup

Update(role) ==
    /\ training[role] = "update"
    /\ training' = [training EXCEPT ![role] = "no"]
    /\ actor' = IF role = "actor" THEN Append(actor, curr) ELSE actor
    /\ critic' = IF role = "critic" THEN Append(critic, curr) ELSE critic
    /\ params' = [params EXCEPT ![role] = Trained(role)]
    /\ backup' = BackedUp(role, Trained(role))
    /\ UNCHANGED <<args, pc, rollout_id, awake, groups, engines, curr, next, data_source, storage>>

TrainingEnds ==
    /\ pc = "training" /\ \A role \in Roles : training[role] = "no"
    /\ pc' = IF should_run_periodic_action(rollout_id, args.save_interval)
             THEN "save_actor" ELSE "saved"
    /\ UNCHANGED <<args, rollout_id, models, training, memory, engines, backup, curr, next,
                   data_source, storage>>

(***************************************************************************)
(* Saving: first the actor, then the critic, then the data source.         *)
(***************************************************************************)
\* is_archive_point: a function of the rollout and the command line only.
is_archive_point(r) ==
    args.archive_interval # 0 /\ (LastRollout(r) \/ (r + 1) % args.archive_interval = 0)

\* BUG: whatever is in the directory is copied.
CopiesPartial(background) == TRUE

\* archive_checkpoint copies a checkpoint that has its .metadata, which a save that goes on
\* in the background has not.
IsComplete(background) == ~background

\* A table with a file more, or a file that is written again.
Written(table, r, content) ==
    [q \in DOMAIN table \cup {r} |-> IF q = r THEN content ELSE table[q]]

Archived(role, checkpoint, background) ==
    IF /\ is_archive_point(rollout_id) /\ IsComplete(background)
       /\ rollout_id \notin DOMAIN disk.archive[role]
    THEN [disk.archive EXCEPT ![role] = Written(@, rollout_id, checkpoint)]
    ELSE disk.archive

\* save_model finalizes the asynchronous save before, then starts its own; the last one is
\* finalized at once.  A trainer asleep is woken up for the save, with what its memory
\* holds then, and put back to sleep; the process groups are destroyed at the end.
save_model(role) ==
    LET checkpoint == [iteration |-> rollout_id, history |-> History(role), weights |-> params[role]]
        background == args.async_save /\ ~LastRollout(rollout_id)
        finished   == IF ~background THEN checkpoint
                      ELSE IF unfinished[role] = NoCheckpoint THEN disk[role] ELSE unfinished[role]
    IN  /\ disk' = [disk EXCEPT ![role] = finished, !.archive = Archived(role, checkpoint, background)]
        /\ unfinished' = [unfinished EXCEPT ![role] = IF background THEN checkpoint ELSE NoCheckpoint]
        /\ IF args.offload THEN destroy_process_groups({role}) ELSE UNCHANGED groups

Saving ==
    UNCHANGED <<args, rollout_id, models, training, awake, params, engines, backup, curr, next,
                data_source, crashes>>

SavedRole(where) == IF where = "save_actor" THEN "actor" ELSE "critic"

save ==
    /\ pc \in {"save_actor", "save_critic"}
    /\ save_model(SavedRole(pc))
    /\ pc' = IF args.use_critic /\ pc = "save_actor" THEN "save_critic" ELSE "save_dataset"
    /\ Saving

\* A call to the rollout manager waits for the rollout it is working on.
save_dataset ==
    /\ pc = "save_dataset"
    /\ next.state # "running"
    /\ disk' = [disk EXCEPT !.dataset = Written(@, rollout_id, data_source)]
    /\ pc' = "saved"
    /\ Saving /\ UNCHANGED <<groups, unfinished>>

\* BUG: only the critic is put to sleep.
SleepingCritic(r) == IF args.use_critic THEN {"critic"} ELSE {"actor"}

\* train.py: what trained goes to sleep.
Sleeping(r) == IF args.use_critic
               THEN {"critic"} \cup (IF r >= args.num_critic_only_steps THEN {"actor"} ELSE {})
               ELSE {"actor"}

offload_train ==
    /\ pc = "saved" /\ args.driver = "sync"
    /\ IF args.offload
       THEN /\ awake' = awake \ Sleeping(rollout_id)
            /\ destroy_process_groups(Sleeping(rollout_id))
            /\ params' = Paused(Sleeping(rollout_id), params)
       ELSE UNCHANGED memory
    /\ rollout_id' = rollout_id + 1
    /\ pc' = IF args.offload THEN "onload_weights" ELSE "update_weights"
    /\ UNCHANGED <<args, models, training, engines, backup, curr, next, data_source, storage>>

\* BUG: the future awaited before the update is awaited again, its data are lost.
SyncAndForget ==
    /\ pc = "saved" /\ args.driver = "async"
    /\ rollout_id' = rollout_id + 1
    /\ IF (rollout_id + 1) % args.update_weights_interval = 0
       THEN /\ next.state # "running"
            /\ next' = NoFuture
            /\ pc' = "update_weights"
       ELSE pc' = "loop" /\ UNCHANGED next
    /\ UNCHANGED <<args, models, training, memory, engines, backup, curr, data_source, storage>>

\* train_async.py: the next rollout is awaited before the weights are updated.
SyncBeforeUpdate ==
    /\ pc = "saved" /\ args.driver = "async"
    /\ rollout_id' = rollout_id + 1
    /\ IF (rollout_id + 1) % args.update_weights_interval = 0
       THEN /\ next.state # "running"
            /\ curr' = next.data /\ next' = NoFuture
            /\ pc' = "update_weights"
       ELSE pc' = "loop" /\ UNCHANGED <<curr, next>>
    /\ UNCHANGED <<args, models, training, memory, engines, backup, data_source, storage>>

\* A command line that saves no actor in its warmup which was put to sleep and lost what
\* it held, see SavedAsTrained.
SavesAwake(c) ==
    c.offload /\ c.weights_backuper =>
        \A r \in 0..(num_rollout - 1) : r < c.num_critic_only_steps =>
            ~LastRollout(r) /\ (r + 1) % c.save_interval # 0

(***************************************************************************)
(* Crash and specification.                                                *)
(***************************************************************************)
Crash ==
    /\ pc \notin {"start", "end"} /\ crashes < MaxCrashes
    /\ crashes' = crashes + 1
    /\ pc' = "start" /\ rollout_id' = -1
    /\ critic' = <<>> /\ actor' = <<>>
    /\ training' = [role \in {"actor", "critic"} |-> "no"]
    /\ awake' = {} /\ groups' = {} /\ params' = [role \in {"actor", "critic"} |-> Lost]
    /\ resident' = {} /\ weights' = Lost
    /\ backup' = [actor |-> Lost, old_actor |-> Lost, rollout_actor |-> Lost]
    /\ curr' = Nothing /\ next' = NoFuture /\ data_source' = FirstEpoch
    /\ unfinished' = [role \in {"actor", "critic"} |-> NoCheckpoint]
    /\ UNCHANGED <<args, disk>>

JobStep ==
    \/ create_training_models \/ onload_weights \/ update_weights \/ onload_kv
    \/ generate \/ offload_rollout \/ StartFirst \/ SyncAndStartNext \/ RolloutEnds
    \/ StartTraining \/ sync_actor_critic_data
    \/ \E role \in Roles : NoExchange(role) \/ Update(role)
    \/ TrainingEnds \/ save \/ save_dataset
    \/ offload_train \/ SyncBeforeUpdate

Next == JobStep \/ Crash

Spec == Init /\ [][Next]_vars

\* Rollouts, trainers and the driver make progress; a crash never has to happen.
FairSpec == Spec /\ WF_vars(JobStep)

(***************************************************************************)
(* Properties.                                                             *)
(***************************************************************************)
(* The actor is trained on every rollout once, in order, on the data of    *)
(* that rollout, from the end of the critic's warmup: whatever the futures *)
(* of train_async.py, the update interval and the restarts.                *)
EveryRolloutOnce ==
    \A i \in DOMAIN actor : actor[i].rollout = args.num_critic_only_steps + i - 1

(* train.py is on-policy: data come from the weights trained just before.  *)
(* In train_async.py they are at most update_weights_interval updates old, *)
(* and of one version: "prevent update weight in the middle of generation".*)
StalenessBounded ==
    /\ \A i \in DOMAIN actor :
        (i - 1) - actor[i].version \in 0..(IF args.driver = "sync" THEN 0 ELSE args.update_weights_interval)
    /\ pc \in {"first_update", "update_weights"} => next.state # "running"

(* With colocation, trainers and engines are never on the GPUs together,   *)
(* and of the trainers those are put to sleep that are awake, through the  *)
(* critic's warmup and the restarts.                                       *)
MemoryExclusive ==
    args.offload =>
        /\ awake = {} \/ resident = {}
        /\ pc = "saved" => awake = Sleeping(rollout_id)

\* Prompts taken from a data source since its first epoch.
Taken(source) == source.epoch_id * dataset_size + source.sample_offset

(* A crash may fall between any two saves, and a restart goes on together  *)
(* all the same.  The critic is never ahead of the actor: it is not        *)
(* trained on a rollout it saw before (it may have missed some).  And when *)
(* the data source has a state of the actor's checkpoint, the prompts go   *)
(* on after those of its last rollout, in its epoch or the next one;       *)
(* train_async.py may skip one batch, which was taken for the next rollout *)
(* before the state was saved.                                             *)
RestartsTogether ==
    /\ [](/\ disk.critic.iteration <= disk.actor.iteration
          /\ \A i, j \in DOMAIN critic : i < j => critic[i].rollout < critic[j].rollout)
    /\ [][pc = "start" /\ disk.actor.history # <<>> /\ disk.actor.iteration \in DOMAIN disk.dataset
            => Taken(data_source') - Taken(disk.actor.history[Len(disk.actor.history)].prompts)
                   \in {k * rollout_batch_size : k \in 1..(IF args.driver = "sync" THEN 1 ELSE 2)}]_vars

(* The job ends: the futures, the manager's queue and the collective of    *)
(* actor and critic never wait for each other.                             *)
JobEnds == <>(pc = "end")

(* With an update after each rollout of the asynchronous driver, the old   *)
(* actor the actor is compared with is the model that generated the data:  *)
(* the queue of two makes up for the rollout that is generated meanwhile.  *)
OldActorGenerated ==
    (/\ pc = "train" /\ TrainsActor(rollout_id)
     /\ args.keep_old_actor /\ args.driver = "async" /\ args.update_weights_interval = 1)
        => curr.version = backup.old_actor

(* Whatever was put to sleep, woken, swapped for the old actor or loaded   *)
(* from a checkpoint in between, a trainer computes in memory that is on   *)
(* the GPUs, over process groups that exist, and updates the weights of    *)
(* its own model: "The actor's contents survive because TensorBackuper     *)
(* holds a CPU copy", the critic's because its memory is copied.           *)
TrainersReady ==
    \A role \in Roles : training[role] # "no" =>
        /\ role \in awake /\ role \in groups
        /\ training[role] = "update" \/ role = "critic" => params[role] = Len(History(role))

(* "so the actor and critic archives stay paired": to an archived critic   *)
(* there is the actor of the same rollout, which ended with the same data  *)
(* (if it was out of the warmup), through crashes in between and restarts. *)
ArchivesPair ==
    \A r \in DOMAIN disk.archive.critic :
        /\ r \in DOMAIN disk.archive.actor
        /\ LET a == disk.archive.actor[r].history
               c == disk.archive.critic[r].history
           IN  a = <<>> \/ a[Len(a)] = c[Len(c)]

(* A checkpoint holds the weights of the model it is named for: a restart  *)
(* goes on with what was trained.                                          *)
SavedAsTrained == \A role \in Roles : disk[role].weights = Len(disk[role].history)
=============================================================================
