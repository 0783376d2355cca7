-------------------------- MODULE TrainLoopProofs --------------------------
(***************************************************************************)
(* For any number of rollouts, any command lines and any number of crashes *)
(* at any step: the actor is trained on every rollout once, on data of the *)
(* age the driver allows, in the weights of its own model; checkpoints,    *)
(* archives and the states of the data source stay together.               *)
(***************************************************************************)
EXTENDS TrainLoop, TLAPS

Trainers == {"actor", "critic"}
Sources == [epoch_id : Nat, sample_offset : Nat]
Batches == [rollout : Int, prompts : Sources, version : Int]
Checkpoints == [iteration : Int, history : Seq(Batches), weights : Int]

\* The steps from the start of training to the end of the saves.
Saves == {"save_actor", "save_critic", "save_dataset"}
InRollout == {"train", "training", "saved"} \cup Saves
Drivers ==
    {"start", "first_update", "update_weights", "onload_weights", "onload_kv", "generate",
     "offload_rollout", "first", "loop", "end"} \cup InRollout

IsTable(table, S) == DOMAIN table \subseteq Int /\ \A r \in DOMAIN table : table[r] \in S

\* The records of disk.
DiskShape ==
    /\ disk = [actor |-> disk.actor, critic |-> disk.critic, dataset |-> disk.dataset,
               archive |-> disk.archive]
    /\ disk.archive = [actor |-> disk.archive.actor, critic |-> disk.archive.critic]

TypeInv ==
    /\ args \in Configurations /\ pc \in Drivers /\ rollout_id \in Int
    /\ critic \in Seq(Batches) /\ actor \in Seq(Batches)
    /\ training \in [Trainers -> {"no", "forward", "update"}]
    /\ params \in [Trainers -> Int]
    /\ weights \in Int
    /\ backup \in [actor : Int, old_actor : Int, rollout_actor : Int]
    /\ curr \in Batches
    /\ next \in [state : {"none", "running", "ready"}, data : Batches]
    /\ data_source \in Sources
    /\ DiskShape
    /\ disk.actor \in Checkpoints /\ disk.critic \in Checkpoints
    /\ IsTable(disk.dataset, Sources)
    /\ \A role \in Trainers : IsTable(disk.archive[role], Checkpoints)
    /\ unfinished \in [Trainers -> Checkpoints]

(***************************************************************************)
(* Where the driver is.                                                    *)
(***************************************************************************)
StageInv ==
    /\ IF pc = "start" THEN rollout_id = -1 ELSE rollout_id \in Nat
    /\ pc \in {"offload_rollout"} \cup InRollout => rollout_id < num_rollout
    /\ args.driver = "sync" => pc \notin {"first", "loop"} /\ next = NoFuture
    /\ args.driver = "async" => pc # "generate"
    /\ ~args.offload => pc \notin {"onload_weights", "onload_kv", "offload_rollout"}
    /\ args.offload => pc # "first_update"
    /\ pc \in {"start", "first_update", "first", "update_weights"} => next = NoFuture
    /\ pc = "save_critic" => args.use_critic
    /\ pc = "save_actor" => should_run_periodic_action(rollout_id, args.save_interval)
    /\ \A role \in Trainers : training[role] # "no" =>
        /\ pc = "training" /\ role \in Roles
        /\ role = "actor" => TrainsActor(rollout_id)

(***************************************************************************)
(* Rollouts.  Between the end of a rollout and its training its batch is   *)
(* the one awaited; in train_async.py the next one is generated meanwhile. *)
(***************************************************************************)
HasBatch ==
    \/ pc \in {"offload_rollout"} \cup InRollout
    \/ /\ args.driver = "async" /\ pc \in {"update_weights", "loop"}
       /\ rollout_id < num_rollout
HasNext == args.driver = "async" /\ pc \in InRollout /\ rollout_id + 1 < num_rollout
Awaited == IF pc = "loop" /\ next.state # "none" THEN next.data ELSE curr

BatchInv ==
    /\ HasBatch => Awaited.rollout = rollout_id
    /\ HasNext => next.state # "none" /\ next.data.rollout = rollout_id + 1

\* Steps of the actor before rollout r.
Steps(r) == IF r > args.num_critic_only_steps THEN r - args.num_critic_only_steps ELSE 0

\* The rollout the actor, or the critic, is trained up to.
UpTo(role) ==
    IF pc \in Saves \cup {"saved"} \/ (pc = "training" /\ training[role] = "no")
    THEN rollout_id + 1 ELSE rollout_id

Fits(history, r) ==
    /\ Len(history) = Steps(r)
    /\ \A i \in 1..Len(history) : history[i].rollout = args.num_critic_only_steps + i - 1

HistoryInv ==
    /\ IF pc = "start" THEN actor = <<>> ELSE Fits(actor, UpTo("actor"))
    /\ disk.actor.iteration >= -1 /\ Fits(disk.actor.history, disk.actor.iteration + 1)
    /\ unfinished.actor.iteration >= -1
    /\ Fits(unfinished.actor.history, unfinished.actor.iteration + 1)

(***************************************************************************)
(* Memory of the GPUs.                                                     *)
(***************************************************************************)
MemoryInv ==
    /\ pc = "start" => awake = {} /\ resident = {}
    /\ ~args.offload /\ pc # "start" => awake = Roles /\ groups = Roles
    /\ args.offload /\ pc \notin InRollout \ {"train"} => awake = {}
    /\ args.offload /\ pc \in InRollout \ {"train"} => awake = Sleeping(rollout_id)
    /\ args.offload /\ pc \in {"onload_weights"} \cup InRollout => resident = {}
    /\ \A role \in Trainers : training[role] # "no" => role \in awake /\ role \in groups

(***************************************************************************)
(* Weights.  What a trainer asleep has lost is in its backup; params of an *)
(* actor in its forward pass may be those of the old one.                  *)
(***************************************************************************)
InMemory ==
    \/ ~args.weights_backuper
    \/ /\ "actor" \in awake
       /\ training["actor"] # "forward"

WeightsInv ==
    /\ pc # "start" =>
        /\ args.weights_backuper => backup.actor = Len(actor)
        /\ InMemory => params["actor"] = Len(actor)
        /\ params["critic"] = Len(critic)
    /\ \A role \in Trainers :
        /\ disk[role].weights = Len(disk[role].history)
        /\ unfinished[role].weights = Len(unfinished[role].history)

(***************************************************************************)
(* Age of the data.                                                        *)
(***************************************************************************)
MaxAge == IF args.driver = "sync" THEN 0 ELSE args.update_weights_interval

\* Steps the actor may be ahead of the engines when rollout_id is trained on.
Lead == IF pc = "first" THEN 0 ELSE rollout_id % args.update_weights_interval

IsFresh(history) == \A i \in 1..Len(history) : (i - 1) - history[i].version \in 0..MaxAge

AgeInv ==
    /\ HasBatch => Steps(rollout_id) - Awaited.version \in 0..MaxAge
    /\ HasNext => Steps(rollout_id + 1) - next.data.version \in 0..MaxAge
    /\ args.driver = "async" /\ pc \in {"first", "loop"} \cup InRollout
        => Steps(rollout_id) - weights \in 0..Lead
    /\ args.driver = "sync" /\ pc \in {"onload_kv", "generate"} => weights = Steps(rollout_id)
    /\ IsFresh(actor) /\ IsFresh(disk.actor.history) /\ IsFresh(unfinished.actor.history)

\* The queue of two, with an update after each rollout.
KeepsTwo == args.keep_old_actor /\ args.driver = "async" /\ args.update_weights_interval = 1

OldActorInv ==
    KeepsTwo =>
        /\ pc = "first_update" => backup.rollout_actor = Len(actor)
        /\ pc \in {"first", "loop"} \cup InRollout => backup.rollout_actor = weights
        /\ pc = "first" => backup.old_actor = weights
        /\ pc = "loop" => rollout_id >= num_rollout \/ Awaited.version = backup.old_actor
        /\ pc \in InRollout => curr.version = backup.old_actor
        /\ pc = "update_weights" => rollout_id >= num_rollout \/ curr.version = backup.rollout_actor
        /\ HasNext => next.data.version = backup.rollout_actor

(***************************************************************************)
(* Checkpoints.                                                            *)
(***************************************************************************)
Background == args.async_save /\ ~LastRollout(rollout_id)

OrderInv ==
    /\ pc \notin {"start", "save_critic", "save_dataset", "saved"} =>
        disk.actor.iteration < rollout_id /\ unfinished.actor.iteration < rollout_id
    /\ pc # "start" =>
        disk.actor.iteration <= rollout_id /\ unfinished.actor.iteration <= rollout_id
    /\ unfinished.actor = NoCheckpoint \/ disk.actor.iteration <= unfinished.actor.iteration
    /\ pc = "start" => unfinished.actor = NoCheckpoint
    /\ pc \in {"save_critic", "save_dataset"} =>
        IF Background
        THEN /\ unfinished.actor.iteration = rollout_id /\ unfinished.actor.history = actor
             /\ disk.actor.iteration < rollout_id
        ELSE /\ unfinished.actor = NoCheckpoint
             /\ disk.actor.iteration = rollout_id /\ disk.actor.history = actor
    /\ disk.critic.iteration <= disk.actor.iteration
    /\ args.use_critic =>
        IF pc = "save_critic" THEN unfinished.critic.iteration <= disk.actor.iteration
        ELSE unfinished.critic.iteration = unfinished.actor.iteration

\* The rollouts of a critic's history ascend, all before rollout r.
Ascends(history, r) ==
    /\ \A i \in 1..Len(history) : history[i].rollout < r
    /\ \A i, j \in 1..Len(history) : i < j => history[i].rollout < history[j].rollout

CriticInv ==
    /\ Ascends(critic, UpTo("critic"))
    /\ Ascends(disk.critic.history, disk.critic.iteration + 1)
    /\ Ascends(unfinished.critic.history, unfinished.critic.iteration + 1)

\* What was trained on the rollout ends with its batch.
TrainedInv ==
    \A role \in Sleeping(rollout_id) :
        pc \in Saves \/ (pc = "training" /\ training[role] = "no")
            => History(role) # <<>> /\ History(role)[Len(History(role))] = curr

ArchiveInv ==
    /\ \A r \in DOMAIN disk.archive.actor : r <= disk.actor.iteration
    /\ pc = "save_critic" /\ is_archive_point(rollout_id) /\ ~Background =>
        /\ rollout_id \in DOMAIN disk.archive.actor
        /\ disk.archive.actor[rollout_id].history = actor
    /\ ArchivesPair

(***************************************************************************)
(* Prompts.                                                                *)
(***************************************************************************)
PromptsInv ==
    /\ HasBatch =>
        Taken(data_source) = Taken(Awaited.prompts)
                                 + (IF HasNext THEN 2 ELSE 1) * rollout_batch_size
    /\ HasNext => Taken(data_source) = Taken(next.data.prompts) + rollout_batch_size

Resumes(source, batch) ==
    \E k \in 1..(IF args.driver = "sync" THEN 1 ELSE 2) :
        Taken(source) = Taken(batch.prompts) + k * rollout_batch_size

Covered(checkpoint) ==
    checkpoint.history # <<>> /\ checkpoint.iteration \in DOMAIN disk.dataset
        => Resumes(disk.dataset[checkpoint.iteration], checkpoint.history[Len(checkpoint.history)])

DatasetInv ==
    /\ Covered(disk.actor)
    /\ pc \notin {"save_critic", "save_dataset"} => Covered(unfinished.actor)
    /\ \A r \in DOMAIN disk.dataset :
        ~args.async_save \/ LastRollout(r) => r <= disk.actor.iteration

(***************************************************************************)
(* Operators.                                                              *)
(***************************************************************************)

(* What the assumption says of the command line in use.                    *)
LEMMA ArgsTyped ==
    ASSUME args \in Configurations
    PROVE  /\ args \in Configuration
           /\ args.num_critic_only_steps \in Nat /\ args.update_weights_interval \in Nat \ {0}
           /\ args.save_interval \in Nat \ {0} /\ args.archive_interval \in Nat
           /\ args.driver \in {"sync", "async"}
           /\ args.driver = "async" => ~args.offload
           /\ ~args.use_critic => args.num_critic_only_steps = 0
           /\ args.keep_old_actor => args.weights_backuper /\ ~args.offload
           /\ {num_rollout, rollout_batch_size, dataset_size} \subseteq Nat \ {0}
  BY TrainAssumption DEF Configuration

(* Only the actor and the critic are roles, and there is an actor.         *)
LEMMA RolesTyped == Roles \subseteq Trainers /\ "actor" \in Roles
  BY DEF Roles, Trainers

(* Taking a batch takes rollout_batch_size prompts, across epochs.         *)
LEMMA BatchTaken ==
    ASSUME data_source \in Sources, get_samples
    PROVE  /\ data_source' \in Sources
           /\ Taken(data_source') = Taken(data_source) + rollout_batch_size
  <1> DEFINE e == data_source.epoch_id
             o == data_source.sample_offset
  <1>1. /\ e \in Nat /\ o \in Nat
        /\ data_source = [epoch_id |-> e, sample_offset |-> o]
    BY DEF Sources
  <1>2. rollout_batch_size \in Nat /\ dataset_size \in Nat
    BY TrainAssumption
  <1>3. CASE o + rollout_batch_size <= dataset_size
    <2>1. data_source' = [epoch_id |-> e, sample_offset |-> o + rollout_batch_size]
      BY <1>1, <1>3 DEF get_samples
    <2> QED
      BY <1>1, <1>2, <2>1 DEF Taken, Sources
  <1>4. CASE ~(o + rollout_batch_size <= dataset_size)
    <2>1. data_source' = [epoch_id |-> e + 1,
                          sample_offset |-> o + rollout_batch_size - dataset_size]
      BY <1>1, <1>2, <1>4 DEF get_samples
    <2>2. o + rollout_batch_size - dataset_size \in Nat
      BY <1>1, <1>2, <1>4
    <2>3. (e + 1) * dataset_size = e * dataset_size + dataset_size
      BY <1>1, <1>2
    <2> QED
      BY <1>1, <1>2, <2>1, <2>2, <2>3 DEF Taken, Sources
  <1> QED
    BY <1>3, <1>4

(***************************************************************************)
(* Types.                                                                  *)
(***************************************************************************)

(* The command line stays, and every step keeps the types.                 *)
LEMMA TypeInit == Init => TypeInv
  BY DEF Init, TypeInv, Drivers, Trainers, Sources, Batches, Checkpoints, IsTable, Nothing,
         FirstEpoch, NoFuture, NoCheckpoint, Lost, DiskShape

(* An entry added to a table.                                              *)
LEMMA TableExtended ==
    ASSUME NEW S, NEW table, IsTable(table, S), NEW r \in Int, NEW v \in S
    PROVE  /\ IsTable(Written(table, r, v), S)
           /\ DOMAIN Written(table, r, v) = DOMAIN table \cup {r}
           /\ Written(table, r, v)[r] = v
           /\ \A q \in DOMAIN table \ {r} : Written(table, r, v)[q] = table[q]
  BY DEF IsTable, Written

\* The checkpoint save_model makes.
Snapshot(role) == [iteration |-> rollout_id, history |-> History(role), weights |-> params[role]]

(* What a save writes: the checkpoint of one role, or the one that was     *)
(* unfinished, and its archive; the other role's stay.                     *)
LEMMA SaveEffect ==
    ASSUME TypeInv, save, NEW role \in Trainers, role = SavedRole(pc)
    PROVE  /\ Snapshot(role) \in Checkpoints
           /\ disk'[role] = IF ~Background THEN Snapshot(role)
                            ELSE IF unfinished[role] = NoCheckpoint THEN disk[role]
                            ELSE unfinished[role]
           /\ unfinished' = [unfinished EXCEPT ![role] =
                                 IF Background THEN Snapshot(role) ELSE NoCheckpoint]
           /\ \A other \in Trainers \ {role} :
               disk'[other] = disk[other] /\ disk'.archive[other] = disk.archive[other]
           /\ disk'.archive[role] =
                  IF /\ is_archive_point(rollout_id) /\ ~Background
                     /\ rollout_id \notin DOMAIN disk.archive[role]
                  THEN Written(disk.archive[role], rollout_id, Snapshot(role))
                  ELSE disk.archive[role]
           /\ disk'.dataset = disk.dataset
           /\ DiskShape'
  <1> DEFINE finished == IF ~Background THEN Snapshot(role)
                         ELSE IF unfinished[role] = NoCheckpoint THEN disk[role]
                         ELSE unfinished[role]
             archive == Archived(role, Snapshot(role), Background)
  <1>1. disk' = [disk EXCEPT ![role] = finished, !.archive = archive]
    BY DEF save, save_model, Background, Snapshot
  <1>2. unfinished' = [unfinished EXCEPT ![role] =
                           IF Background THEN Snapshot(role) ELSE NoCheckpoint]
    BY DEF save, save_model, Background, Snapshot
  <1>3. Snapshot(role) \in Checkpoints
    BY DEF TypeInv, History, Checkpoints, Trainers, Snapshot
  <1>4. archive = IF /\ is_archive_point(rollout_id) /\ ~Background
                     /\ rollout_id \notin DOMAIN disk.archive[role]
                  THEN [disk.archive EXCEPT ![role] = Written(@, rollout_id, Snapshot(role))]
                  ELSE disk.archive
    BY DEF Archived, IsComplete
  <1> HIDE DEF finished, archive
  <1>5. /\ archive = [actor |-> archive.actor, critic |-> archive.critic]
        /\ archive[role] = IF /\ is_archive_point(rollout_id) /\ ~Background
                              /\ rollout_id \notin DOMAIN disk.archive[role]
                           THEN Written(disk.archive[role], rollout_id, Snapshot(role))
                           ELSE disk.archive[role]
        /\ \A other \in Trainers \ {role} : archive[other] = disk.archive[other]
    BY <1>4 DEF TypeInv, Trainers, DiskShape
  <1>6. /\ disk' = [actor |-> disk'.actor, critic |-> disk'.critic,
                    dataset |-> disk'.dataset, archive |-> disk'.archive]
        /\ disk'[role] = finished /\ disk'.archive = archive /\ disk'.dataset = disk.dataset
        /\ \A other \in Trainers \ {role} : disk'[other] = disk[other]
    BY <1>1 DEF TypeInv, Trainers, DiskShape
  <1>7. DiskShape'
    BY <1>5, <1>6 DEF DiskShape
  <1> QED
    BY <1>2, <1>3, <1>5, <1>6, <1>7 DEF finished

(* The histories on disk after a save are those of before and the actor's. *)
LEMMA SavedHistories ==
    ASSUME TypeInv, save
    PROVE  /\ disk'.actor.history \in {actor, disk.actor.history, unfinished.actor.history}
           /\ unfinished'.actor.history \in {actor, NoCheckpoint.history, unfinished.actor.history}
  <1>1. CASE pc = "save_actor"
    <2>1. Snapshot("actor").history = actor
      BY DEF Snapshot, History
    <2> QED
      BY <1>1, <2>1, SaveEffect DEF SavedRole, Trainers, TypeInv
  <1>2. CASE pc = "save_critic"
    BY <1>2, SaveEffect DEF SavedRole, Trainers, TypeInv
  <1> QED
    BY <1>1, <1>2 DEF save

(* Every step keeps the types.                                            *)
LEMMA TypeStep ==
    ASSUME TypeInv, [Next]_vars
    PROVE  TypeInv'
  <1> USE DEF TypeInv, Drivers, InRollout, Saves
  <1>a. Roles \subseteq Trainers /\ Trainers = {"actor", "critic"}
    BY RolesTyped DEF Trainers
  <1>b. disk' = disk => DiskShape'
    BY DEF DiskShape
  <1>1. CASE create_training_models
    <2>1. data_source' \in Sources
      BY <1>1 DEF create_training_models, FirstEpoch, Sources, IsTable
    <2>2. params' \in [Trainers -> Int]
      <3>1. \A role \in Trainers : disk[role].weights \in Int
        BY <1>a DEF Checkpoints
      <3> QED
        BY <1>1, <1>a, <3>1 DEF create_training_models, Paused, Lost
    <2>3. backup' \in [actor : Int, old_actor : Int, rollout_actor : Int]
      BY <1>1 DEF create_training_models, Checkpoints, Lost
    <2> QED
      <3>1. actor' \in Seq(Batches) /\ critic' \in Seq(Batches) /\ rollout_id' \in Int
        BY <1>1 DEF create_training_models, Checkpoints
      <3>2. pc' \in Drivers /\ UNCHANGED <<args, training, weights, curr, next, disk, unfinished>>
        BY <1>1 DEF create_training_models, storage
      <3> QED
        BY <1>b, <2>1, <2>2, <2>3, <3>1, <3>2
  <1>2. CASE onload_weights \/ onload_kv \/ offload_rollout
    BY <1>2, <1>b DEF onload_weights, onload_kv, offload_rollout, models, memory, storage
  <1>3. CASE update_weights
    <2>1. weights' \in Int /\ backup' \in [actor : Int, old_actor : Int, rollout_actor : Int]
      BY <1>3, <1>a DEF update_weights, Kept, KeepOldActor
    <2>2. pc' \in Drivers
      BY <1>3, ArgsTyped DEF update_weights
    <2> QED
      BY <1>3, <1>b, <2>1, <2>2 DEF update_weights, models, storage
  <1>4. CASE generate
    <2>1. curr' \in Batches /\ data_source' \in Sources
      BY <1>4, BatchTaken, ArgsTyped DEF generate, Rollout, Batches
    <2> QED
      BY <1>4, <1>b, <2>1 DEF generate, models, memory, engines, storage
  <1>5. CASE StartFirst
    <2>1. next' \in [state : {"none", "running", "ready"}, data : Batches]
      BY <1>5 DEF StartFirst, Rollout, Batches
    <2> QED
      BY <1>5, <1>b, <2>1, BatchTaken DEF StartFirst, models, memory, engines, storage
  <1>6. CASE SyncAndStartNext
    <2>1. next' \in [state : {"none", "running", "ready"}, data : Batches] /\ curr' \in Batches
      BY <1>6 DEF SyncAndStartNext, Rollout, Batches
    <2>2. data_source' \in Sources
      BY <1>6, BatchTaken DEF SyncAndStartNext
    <2> QED
      BY <1>6, <1>b, <2>1, <2>2 DEF SyncAndStartNext, models, memory, engines, storage
  <1>7. CASE RolloutEnds
    BY <1>7, <1>b DEF RolloutEnds, models, memory, engines, storage
  <1>8. CASE StartTraining
    <2>1. params' \in [Trainers -> Int]
      BY <1>8, <1>a DEF StartTraining, Kept, ForwardTag
    <2> QED
      BY <1>8, <2>1, <1>a, <1>b DEF StartTraining, models, engines, storage
  <1>9. CASE sync_actor_critic_data
    BY <1>9, <1>a, <1>b DEF sync_actor_critic_data, Kept, models, engines, storage
  <1>10. ASSUME NEW role \in Roles, NoExchange(role)
         PROVE  TypeInv'
    BY <1>10, <1>a, <1>b DEF NoExchange, Kept, models, engines, storage
  <1>11. ASSUME NEW role \in Roles, Update(role)
         PROVE  TypeInv'
    <2>1. Trained(role) \in Int
      BY <1>11, <1>a DEF Trained, Lost
    <2>2. actor' \in Seq(Batches) /\ critic' \in Seq(Batches)
      BY <1>11 DEF Update
    <2>3. backup' \in [actor : Int, old_actor : Int, rollout_actor : Int]
      BY <1>11, <2>1 DEF Update, BackedUp
    <2> QED
      BY <1>11, <1>a, <1>b, <2>1, <2>2, <2>3 DEF Update, engines, storage
  <1>12. CASE TrainingEnds
    BY <1>12, <1>b DEF TrainingEnds, models, memory, engines, storage
  <1>13. CASE save
    <2> DEFINE role == SavedRole(pc)
    <2>1. role \in Trainers
      BY <1>a DEF SavedRole
    <2>2. pc' \in Drivers
      BY <1>13 DEF save
    <2>3. UNCHANGED <<args, rollout_id, actor, critic, training, params, weights, backup, curr,
                      next, data_source>>
      BY <1>13 DEF save, Saving, models, engines
    <2>4. NoCheckpoint \in Checkpoints
      BY DEF NoCheckpoint, Checkpoints
    <2>5. disk'.actor \in Checkpoints /\ disk'.critic \in Checkpoints
      BY <1>13, <1>a, <2>1, SaveEffect
    <2>6. unfinished' \in [Trainers -> Checkpoints]
      BY <1>13, <1>a, <2>1, <2>4, SaveEffect
    <2>7. \A other \in Trainers : IsTable(disk'.archive[other], Checkpoints)
      <3>1. IsTable(disk.archive[role], Checkpoints)
        BY <2>1
      <3>2. Snapshot(role) \in Checkpoints
        BY <1>13, <2>1, SaveEffect
      <3>3. IsTable(Written(disk.archive[role], rollout_id, Snapshot(role)), Checkpoints)
        BY <3>1, <3>2, TableExtended
      <3>4. IsTable(disk'.archive[role], Checkpoints)
        BY <1>13, <2>1, <3>1, <3>3, SaveEffect
      <3> QED
        BY <1>13, <2>1, <3>4, SaveEffect
    <2> QED
      BY <1>13, <2>1, <2>2, <2>3, <2>5, <2>6, <2>7, SaveEffect
  <1>14. CASE save_dataset
    <2>1. disk' = [disk EXCEPT !.dataset = Written(disk.dataset, rollout_id, data_source)]
      BY <1>14 DEF save_dataset
    <2>2. IsTable(disk'.dataset, Sources)
      <3>1. disk'.dataset = Written(disk.dataset, rollout_id, data_source)
        BY <2>1 DEF DiskShape
      <3>2. IsTable(disk.dataset, Sources) /\ rollout_id \in Int /\ data_source \in Sources
        OBVIOUS
      <3>3. IsTable(Written(disk.dataset, rollout_id, data_source), Sources)
        BY <3>2, TableExtended
      <3> QED
        BY <3>1, <3>3 DEF IsTable
    <2>3. /\ DiskShape'
          /\ disk'.actor = disk.actor /\ disk'.critic = disk.critic /\ disk'.archive = disk.archive
      BY <2>1 DEF DiskShape
    <2> QED
      BY <1>14, <2>2, <2>3 DEF save_dataset, Saving, models, engines
  <1>15. CASE offload_train
    BY <1>15, <1>a, <1>b DEF offload_train, Paused, Lost, memory, models, engines, storage
  <1>16. CASE SyncBeforeUpdate
    <2>1. NoFuture \in [state : {"none", "running", "ready"}, data : Batches]
      BY DEF NoFuture, Nothing, FirstEpoch, Batches, Sources
    <2> QED
      BY <1>16, <1>b, <2>1 DEF SyncBeforeUpdate, memory, models, engines, storage
  <1>17. CASE Crash
    <2>1. /\ curr' \in Batches /\ next' \in [state : {"none", "running", "ready"}, data : Batches]
          /\ data_source' \in Sources /\ unfinished' \in [Trainers -> Checkpoints]
      BY <1>17 DEF Crash, Trainers, Sources, Batches, Checkpoints, Nothing, FirstEpoch, NoFuture,
                   NoCheckpoint
    <2> QED
      BY <1>17, <1>a, <1>b, <2>1 DEF Crash, Lost
  <1>18. CASE UNCHANGED vars
    BY <1>18, <1>b DEF vars, models, engines, memory, storage
  <1> QED
    BY <1>1, <1>2, <1>3, <1>4, <1>5, <1>6, <1>7, <1>8, <1>9, <1>10, <1>11, <1>12, <1>13,
       <1>14, <1>15, <1>16, <1>17, <1>18 DEF Next, JobStep

(***************************************************************************)
(* Where the driver is.                                                    *)
(***************************************************************************)

(* At most what the stage says is going on: a role trains only in the      *)
(* training step of a rollout it takes part in.                            *)
LEMMA StageInit == TypeInv /\ Init => StageInv
  BY DEF Init, StageInv, InRollout, Saves, Trainers

LEMMA StageStep ==
    ASSUME TypeInv, StageInv, HistoryInv, [Next]_vars
    PROVE  StageInv'
  <1> USE DEF StageInv, InRollout, Saves
  <1>a. Roles \subseteq Trainers /\ Trainers = {"actor", "critic"} /\ args \in Configurations
    BY RolesTyped DEF Trainers, TypeInv
  <1>b. (args' = args) => /\ Roles' = Roles
                          /\ \A r : TrainsActor(r)' = TrainsActor(r)
    BY DEF Roles, TrainsActor
  <1>1. CASE create_training_models
    <2>1. disk.actor.iteration + 1 \in Nat
      <3>1. disk.actor.iteration \in Int
        BY DEF TypeInv, Checkpoints
      <3>2. disk.actor.iteration >= -1
        BY DEF HistoryInv
      <3> QED
        BY <3>1, <3>2
    <2> QED
      BY <1>1, <1>a, <1>b, <2>1, ArgsTyped DEF create_training_models
  <1>2. CASE onload_weights \/ onload_kv \/ offload_rollout
    BY <1>2, <1>a, <1>b, ArgsTyped DEF onload_weights, onload_kv, offload_rollout
  <1>3. CASE update_weights
    BY <1>3, <1>a, <1>b, ArgsTyped DEF update_weights
  <1>4. CASE generate
    BY <1>4, <1>a, <1>b, ArgsTyped DEF generate
  <1>5. CASE StartFirst
    BY <1>5, <1>a, <1>b, ArgsTyped DEF StartFirst
  <1>6. CASE SyncAndStartNext
    BY <1>6, <1>a, <1>b, ArgsTyped DEF SyncAndStartNext
  <1>7. CASE RolloutEnds
    BY <1>7, <1>a, <1>b, ArgsTyped DEF RolloutEnds, NoFuture
  <1>8. CASE StartTraining
    BY <1>8, <1>a, <1>b, ArgsTyped DEF StartTraining
  <1>9. CASE sync_actor_critic_data
    BY <1>9, <1>a, <1>b, ArgsTyped DEF sync_actor_critic_data
  <1>10. ASSUME NEW role \in Roles, NoExchange(role)
         PROVE  StageInv'
    BY <1>10, <1>a, <1>b DEF NoExchange, TypeInv
  <1>11. ASSUME NEW role \in Roles, Update(role)
         PROVE  StageInv'
    BY <1>11, <1>a, <1>b DEF Update, TypeInv
  <1>12. CASE TrainingEnds
    BY <1>12, <1>a, <1>b DEF TrainingEnds, should_run_periodic_action, LastRollout
  <1>13. CASE save
    BY <1>13, <1>a, <1>b DEF save, Saving
  <1>14. CASE save_dataset
    BY <1>14, <1>a, <1>b DEF save_dataset, Saving
  <1>15. CASE offload_train
    BY <1>15, <1>a, <1>b DEF offload_train
  <1>16. CASE SyncBeforeUpdate
    BY <1>16, <1>a, <1>b, ArgsTyped DEF SyncBeforeUpdate
  <1>17. CASE Crash
    BY <1>17, <1>a, <1>b DEF Crash
  <1>18. CASE UNCHANGED vars
    BY <1>18, <1>a, <1>b DEF vars
  <1> QED
    BY <1>1, <1>2, <1>3, <1>4, <1>5, <1>6, <1>7, <1>8, <1>9, <1>10, <1>11, <1>12, <1>13,
       <1>14, <1>15, <1>16, <1>17, <1>18 DEF Next, JobStep

(***************************************************************************)
(* Rollouts.                                                               *)
(***************************************************************************)

(* The batch awaited is that of the rollout, the next one of the next.     *)
LEMMA BatchInit == TypeInv /\ Init => BatchInv
  BY ArgsTyped DEF Init, BatchInv, HasBatch, HasNext, InRollout, Saves, TypeInv

LEMMA BatchStep ==
    ASSUME TypeInv, StageInv, BatchInv, [Next]_vars
    PROVE  BatchInv'
  <1> USE DEF BatchInv, HasBatch, HasNext, Awaited, InRollout, Saves
  <1>a. args \in Configurations /\ rollout_id \in Int /\ num_rollout \in Int
    BY ArgsTyped DEF TypeInv
  <1>1. CASE create_training_models
    BY <1>1, <1>a, ArgsTyped DEF create_training_models, StageInv
  <1>2. CASE onload_weights \/ onload_kv \/ offload_rollout
    BY <1>2, <1>a, ArgsTyped DEF onload_weights, onload_kv, offload_rollout, StageInv
  <1>3. CASE update_weights
    BY <1>3, <1>a, ArgsTyped DEF update_weights, StageInv, NoFuture
  <1>4. CASE generate
    BY <1>4, <1>a, ArgsTyped DEF generate, Rollout, StageInv
  <1>5. CASE StartFirst
    BY <1>5, <1>a, ArgsTyped DEF StartFirst, Rollout
  <1>6. CASE SyncAndStartNext
    BY <1>6, <1>a, ArgsTyped DEF SyncAndStartNext, Rollout, TypeInv, StageInv
  <1>7. CASE RolloutEnds
    BY <1>7, <1>a, ArgsTyped DEF RolloutEnds, TypeInv
  <1>8. CASE StartTraining
    BY <1>8, <1>a, ArgsTyped DEF StartTraining
  <1>9. CASE sync_actor_critic_data
    BY <1>9, <1>a, ArgsTyped DEF sync_actor_critic_data
  <1>10. ASSUME NEW role \in Roles, NoExchange(role)
         PROVE  BatchInv'
    BY <1>10, <1>a DEF NoExchange
  <1>11. ASSUME NEW role \in Roles, Update(role)
         PROVE  BatchInv'
    BY <1>11, <1>a DEF Update
  <1>12. CASE TrainingEnds
    BY <1>12, <1>a DEF TrainingEnds
  <1>13. CASE save
    BY <1>13, <1>a DEF save, Saving
  <1>14. CASE save_dataset
    BY <1>14, <1>a DEF save_dataset, Saving
  <1>15. CASE offload_train
    BY <1>15, <1>a DEF offload_train
  <1>16. CASE SyncBeforeUpdate
    BY <1>16, <1>a, ArgsTyped DEF SyncBeforeUpdate, NoFuture
  <1>17. CASE Crash
    BY <1>17, <1>a DEF Crash
  <1>18. CASE UNCHANGED vars
    BY <1>18, <1>a DEF vars
  <1> QED
    BY <1>1, <1>2, <1>3, <1>4, <1>5, <1>6, <1>7, <1>8, <1>9, <1>10, <1>11, <1>12, <1>13,
       <1>14, <1>15, <1>16, <1>17, <1>18 DEF Next, JobStep


(* An actor of the rollouts before r, trained on rollout r or in warmup.   *)
LEMMA FitsNext ==
    ASSUME NEW h \in Seq(Batches), NEW r \in Nat, Fits(h, r), args \in Configurations
    PROVE  /\ ~TrainsActor(r) => Fits(h, r + 1)
           /\ \A batch \in Batches :
               TrainsActor(r) /\ batch.rollout = r => Fits(Append(h, batch), r + 1)
  <1> DEFINE W == args.num_critic_only_steps
  <1>1. W \in Nat
    BY ArgsTyped
  <1>2. ~TrainsActor(r) => Fits(h, r + 1)
    BY <1>1 DEF Fits, Steps, TrainsActor
  <1>3. ASSUME NEW batch \in Batches, TrainsActor(r), batch.rollout = r
        PROVE  Fits(Append(h, batch), r + 1)
    <2>1. Len(h) = r - W /\ r >= W
      BY <1>1, <1>3 DEF Fits, Steps, TrainsActor
    <2>2. /\ Len(Append(h, batch)) = Len(h) + 1 /\ Append(h, batch)[Len(h) + 1] = batch
          /\ \A i \in 1..Len(h) : Append(h, batch)[i] = h[i]
      OBVIOUS
    <2>3. Len(Append(h, batch)) = Steps(r + 1)
      BY <1>1, <2>1, <2>2 DEF Steps
    <2>4. ASSUME NEW i \in 1..(Len(h) + 1)
          PROVE  Append(h, batch)[i].rollout = W + i - 1
      BY <1>1, <1>3, <2>1, <2>2 DEF Fits
    <2> QED
      BY <2>2, <2>3, <2>4 DEF Fits
  <1> QED
    BY <1>2, <1>3

(* The actor is trained on the rollouts in order, and so is what is saved. *)
LEMMA HistoryInit == TypeInv /\ Init => HistoryInv
  BY ArgsTyped DEF Init, HistoryInv, Fits, Steps, NoCheckpoint, TypeInv

LEMMA HistoryStep ==
    ASSUME TypeInv, StageInv, BatchInv, HistoryInv, [Next]_vars
    PROVE  HistoryInv'
  <1> USE DEF HistoryInv, UpTo, InRollout, Saves
  <1>a. args \in Configurations /\ rollout_id \in Int /\ num_rollout \in Int
    BY ArgsTyped DEF TypeInv
  <1>b. ASSUME args' = args
        PROVE  \A h, r : Fits(h, r)' = Fits(h', r')
    BY <1>b DEF Fits, Steps
  <1>1. CASE create_training_models
    <2>1. actor' = disk.actor.history /\ rollout_id' = disk.actor.iteration + 1
      BY <1>1 DEF create_training_models
    <2>2. UpTo("actor")' = rollout_id' /\ pc' # "start"
      BY <1>1 DEF create_training_models
    <2> QED
      BY <1>1, <1>b, <2>1, <2>2 DEF create_training_models, storage
  <1>2. CASE \/ onload_weights \/ onload_kv \/ offload_rollout \/ update_weights
             \/ generate \/ StartFirst \/ SyncAndStartNext \/ RolloutEnds
    <2>1. /\ UNCHANGED <<args, actor, rollout_id, training, disk, unfinished>>
          /\ pc' = pc \/ {pc, pc'} \cap ({"training", "saved", "start"} \cup Saves) = {}
      BY <1>2, <1>a, ArgsTyped DEF onload_weights, onload_kv, offload_rollout, update_weights, generate,
                  StartFirst, SyncAndStartNext, RolloutEnds, models, storage
    <2>2. UpTo("actor")' = UpTo("actor") /\ (pc' = "start" <=> pc = "start")
      BY <2>1
    <2> QED
      BY <1>b, <2>1, <2>2
  <1>3. CASE StartTraining
    <2>1. /\ UNCHANGED <<args, actor, rollout_id, disk, unfinished>>
          /\ pc = "train" /\ pc' = "training"
          /\ TrainsActor(rollout_id) => training'["actor"] = "forward"
          /\ ~TrainsActor(rollout_id) => training'["actor"] = "no"
      BY <1>3 DEF StartTraining, models, storage, Roles
    <2>2. UpTo("actor")' = IF TrainsActor(rollout_id) THEN rollout_id ELSE rollout_id + 1
      BY <2>1
    <2>3. Fits(actor, UpTo("actor")')
      BY <1>a, <2>1, <2>2, FitsNext DEF StageInv, TypeInv
    <2> QED
      BY <1>b, <2>1, <2>3
  <1>4. CASE sync_actor_critic_data \/ (\E role \in Roles : NoExchange(role))
    <2>1. /\ UNCHANGED <<args, actor, rollout_id, disk, unfinished, pc>>
          /\ training'["actor"] = "no" <=> training["actor"] = "no"
      BY <1>4 DEF sync_actor_critic_data, NoExchange, models, storage, TypeInv, Trainers
    <2> QED
      BY <1>b, <2>1
  <1>5. ASSUME NEW role \in Roles, Update(role)
        PROVE  HistoryInv'
    <2>1. /\ UNCHANGED <<args, rollout_id, disk, unfinished, pc>>
          /\ training' = [training EXCEPT ![role] = "no"]
          /\ actor' = IF role = "actor" THEN Append(actor, curr) ELSE actor
          /\ training[role] # "no" /\ role \in Trainers
      BY <1>5, RolesTyped DEF Update, storage
    <2>2. pc = "training"
      BY <2>1 DEF StageInv
    <2>3. CASE role = "actor"
      <3>1. UpTo("actor") = rollout_id /\ UpTo("actor")' = rollout_id + 1
        BY <2>1, <2>2, <2>3 DEF TypeInv, Trainers
      <3>2. TrainsActor(rollout_id) /\ curr \in Batches /\ curr.rollout = rollout_id /\ rollout_id \in Nat
        BY <2>1, <2>2, <2>3 DEF StageInv, BatchInv, HasBatch, Awaited, TypeInv
      <3>3. Fits(actor', rollout_id + 1)
        BY <1>a, <2>1, <2>2, <2>3, <3>1, <3>2, FitsNext DEF TypeInv
      <3> QED
        BY <1>b, <2>1, <2>2, <3>1, <3>3
    <2>4. CASE role # "actor"
      <3>1. UpTo("actor")' = UpTo("actor")
        BY <2>1, <2>2, <2>4 DEF TypeInv, Trainers
      <3> QED
        BY <1>b, <2>1, <2>2, <2>4, <3>1
    <2> QED
      BY <2>3, <2>4
  <1>6. CASE TrainingEnds
    <2>1. /\ UNCHANGED <<args, actor, rollout_id, disk, unfinished>>
          /\ pc = "training" /\ training["actor"] = "no" /\ pc' \in {"save_actor", "saved"}
      BY <1>6, RolesTyped DEF TrainingEnds, models, storage
    <2>2. UpTo("actor") = rollout_id + 1 /\ UpTo("actor")' = rollout_id + 1
      BY <2>1
    <2> QED
      BY <1>b, <2>1, <2>2
  <1>7. CASE save
    <2>1. /\ UNCHANGED <<args, actor, rollout_id>>
          /\ pc \in {"save_actor", "save_critic"} /\ pc' \in {"save_critic", "save_dataset"}
      BY <1>7 DEF save, Saving, models
    <2>2. UpTo("actor") = rollout_id + 1 /\ UpTo("actor")' = rollout_id + 1
      BY <2>1
    <2>3. \A cp : cp \in {disk'.actor, unfinished'.actor}
             => cp.iteration >= -1 /\ Fits(cp.history, cp.iteration + 1)
      <3>1. CASE pc = "save_actor"
        <4>1. /\ disk'.actor \in {Snapshot("actor"), disk.actor, unfinished.actor}
              /\ unfinished'.actor \in {Snapshot("actor"), NoCheckpoint}
          BY <1>7, <3>1, SaveEffect DEF SavedRole, Trainers, TypeInv
        <4>2. Snapshot("actor").iteration = rollout_id /\ Snapshot("actor").history = actor
          BY DEF Snapshot, History
        <4>3. Fits(NoCheckpoint.history, NoCheckpoint.iteration + 1) /\ NoCheckpoint.iteration = -1
          BY <1>a, ArgsTyped DEF NoCheckpoint, Fits, Steps
        <4> QED
          BY <2>1, <2>2, <4>1, <4>2, <4>3 DEF StageInv
      <3>2. CASE pc = "save_critic"
        <4>1. disk'.actor = disk.actor /\ unfinished'.actor = unfinished.actor
          BY <1>7, <3>2, SaveEffect DEF SavedRole, Trainers, TypeInv
        <4> QED
          BY <4>1
      <3> QED
        BY <2>1, <3>1, <3>2
    <2> QED
      BY <1>b, <2>1, <2>2, <2>3
  <1>8. CASE save_dataset
    <2>1. /\ UNCHANGED <<args, actor, rollout_id, unfinished>>
          /\ disk'.actor = disk.actor
          /\ pc = "save_dataset" /\ pc' = "saved"
      BY <1>8 DEF save_dataset, Saving, models, TypeInv, DiskShape
    <2> QED
      BY <1>b, <2>1
  <1>9. CASE offload_train \/ SyncBeforeUpdate
    <2>1. /\ UNCHANGED <<args, actor, disk, unfinished>> /\ rollout_id' = rollout_id + 1
          /\ pc = "saved" /\ pc' \in {"onload_weights", "update_weights", "loop"}
      BY <1>9 DEF offload_train, SyncBeforeUpdate, models, storage
    <2>2. UpTo("actor") = rollout_id + 1 /\ UpTo("actor")' = rollout_id + 1
      BY <2>1
    <2> QED
      BY <1>b, <2>1, <2>2
  <1>10. CASE Crash
    <2>1. Fits(NoCheckpoint.history, NoCheckpoint.iteration + 1) /\ NoCheckpoint.iteration = -1
      BY <1>a, ArgsTyped DEF NoCheckpoint, Fits, Steps
    <2> QED
      BY <1>10, <1>b, <2>1 DEF Crash
  <1>11. CASE UNCHANGED vars
    BY <1>11, <1>b DEF vars, models, storage
  <1> QED
    BY <1>1, <1>2, <1>3, <1>4, <1>5, <1>6, <1>7, <1>8, <1>9, <1>10, <1>11 DEF Next, JobStep


(***************************************************************************)
(* Memory of the GPUs.                                                     *)
(***************************************************************************)

(* The roles that start training on a rollout are those put to sleep after *)
(* it.                                                                     *)
LEMMA StartedSleep ==
    ASSUME args \in Configurations, NEW r \in Nat
    PROVE  /\ {role \in Roles : role = "actor" => TrainsActor(r)} = Sleeping(r)
           /\ Sleeping(r) \subseteq Roles
  <1>1. args.num_critic_only_steps \in Nat /\ (~args.use_critic => args.num_critic_only_steps = 0)
    BY ArgsTyped
  <1> QED
    BY <1>1 DEF Roles, Sleeping, TrainsActor

(* With colocation the trainers are on the GPUs in the training step and   *)
(* the saves only, and the engines are not.                                *)
LEMMA MemoryInit == TypeInv /\ Init => MemoryInv
  BY DEF Init, MemoryInv, InRollout, Saves, Trainers

LEMMA MemoryStep ==
    ASSUME TypeInv, StageInv, MemoryInv, [Next]_vars
    PROVE  MemoryInv'
  <1> USE DEF MemoryInv, InRollout, Saves
  <1>a. args \in Configurations /\ rollout_id \in Int
    BY DEF TypeInv
  <1>b. (args' = args) => /\ Roles' = Roles
                          /\ \A r : Sleeping(r)' = Sleeping(r')
    BY DEF Roles, Sleeping
  <1>c. Trainers = {"actor", "critic"} /\ Roles \subseteq Trainers
    BY RolesTyped DEF Trainers
  <1>1. CASE create_training_models
    BY <1>1, <1>a, <1>b, ArgsTyped DEF create_training_models, StageInv
  <1>2. CASE onload_weights \/ onload_kv \/ offload_rollout
    BY <1>2, <1>b DEF onload_weights, onload_kv, offload_rollout, memory, StageInv
  <1>3. CASE update_weights
    BY <1>3, <1>a, <1>b, ArgsTyped DEF update_weights, destroy_process_groups, StageInv
  <1>4. CASE generate
    BY <1>4, <1>b DEF generate, memory, engines
  <1>5. CASE StartFirst \/ SyncAndStartNext \/ RolloutEnds
    BY <1>5, <1>a, <1>b, ArgsTyped
    DEF StartFirst, SyncAndStartNext, RolloutEnds, memory, engines, StageInv
  <1>6. CASE StartTraining
    <2> DEFINE started == {role \in Roles : role = "actor" => TrainsActor(rollout_id)}
    <2>1. started = Sleeping(rollout_id) /\ started \subseteq Roles
      BY <1>6, StartedSleep, <1>a DEF StartTraining, StageInv
    <2>2. /\ awake' = awake \cup started /\ groups' = groups \cup started
          /\ \A role \in Trainers : training'[role] # "no" => role \in started
          /\ pc = "train" /\ pc' = "training" /\ UNCHANGED <<args, rollout_id, resident>>
      BY <1>6, <1>c DEF StartTraining, reload_process_groups, engines
    <2> HIDE DEF started
    <2> QED
      BY <2>1, <2>2, <1>b DEF StageInv
  <1>7. CASE sync_actor_critic_data
    BY <1>7, <1>b, <1>c DEF sync_actor_critic_data, engines
  <1>8. ASSUME NEW role \in Roles, NoExchange(role) \/ Update(role)
        PROVE  MemoryInv'
    BY <1>8, <1>b, <1>c DEF NoExchange, Update, engines, TypeInv
  <1>9. CASE TrainingEnds
    BY <1>9, <1>b DEF TrainingEnds, memory, engines, StageInv
  <1>10. CASE save
    <2>1. /\ UNCHANGED <<args, rollout_id, training, awake, resident>>
          /\ pc \in {"save_actor", "save_critic"} /\ pc' \in {"save_critic", "save_dataset"}
          /\ ~args.offload => groups' = groups
      BY <1>10 DEF save, save_model, Saving, engines
    <2>2. \A role \in Trainers : training[role] = "no"
      BY <2>1 DEF StageInv
    <2> QED
      BY <2>1, <2>2, <1>b
  <1>11. CASE save_dataset
    BY <1>11, <1>b DEF save_dataset, Saving, engines, StageInv
  <1>12. CASE offload_train
    <2>1. \A role \in Trainers : training[role] = "no"
      BY <1>12 DEF StageInv, offload_train
    <2>2. /\ pc = "saved" /\ pc' \in {"onload_weights", "update_weights"}
          /\ UNCHANGED <<args, training, resident>>
          /\ IF args.offload THEN awake' = awake \ Sleeping(rollout_id)
             ELSE awake' = awake /\ groups' = groups
      BY <1>12 DEF offload_train, memory, engines
    <2> QED
      BY <2>1, <2>2, <1>b
  <1>13. CASE SyncBeforeUpdate
    BY <1>13, <1>a, <1>b, ArgsTyped DEF SyncBeforeUpdate, memory, engines, StageInv
  <1>14. CASE Crash
    BY <1>14, <1>c DEF Crash
  <1>15. CASE UNCHANGED vars
    BY <1>15, <1>b DEF vars, memory, engines
  <1> QED
    BY <1>1, <1>2, <1>3, <1>4, <1>5, <1>6, <1>7, <1>8, <1>9, <1>10, <1>11, <1>12, <1>13,
       <1>14, <1>15 DEF Next, JobStep


(***************************************************************************)
(* Weights.                                                                *)
(***************************************************************************)

(* The memory of a trainer, its backup and its checkpoints hold the        *)
(* weights of its history, where no actor is saved asleep.                 *)
LEMMA WeightsInit == TypeInv /\ Init => WeightsInv
  BY DEF Init, WeightsInv, Trainers, NoCheckpoint

LEMMA WeightsStep ==
    ASSUME \A c \in Configurations : SavesAwake(c), TypeInv, StageInv, MemoryInv, WeightsInv, [Next]_vars
    PROVE  WeightsInv'
  <1> USE DEF WeightsInv, InMemory
  <1>a. args \in Configurations /\ rollout_id \in Int
    BY DEF TypeInv
  <1>c. Trainers = {"actor", "critic"} /\ Roles \subseteq Trainers /\ "actor" \in Roles
    BY RolesTyped DEF Trainers
  <1>d. /\ Len(actor) \in Nat /\ Len(critic) \in Nat
        /\ \A role \in Trainers : /\ Len(disk[role].history) \in Nat
                                  /\ Len(unfinished[role].history) \in Nat
    <2>1. \A role \in Trainers : disk[role] \in Checkpoints /\ unfinished[role] \in Checkpoints
      BY <1>c DEF TypeInv
    <2>2. \A cp \in Checkpoints : cp.history \in Seq(Batches)
      BY DEF Checkpoints
    <2>3. \A h \in Seq(Batches) : Len(h) \in Nat
      OBVIOUS
    <2>4. actor \in Seq(Batches) /\ critic \in Seq(Batches)
      BY DEF TypeInv
    <2> QED
      BY <2>1, <2>2, <2>3, <2>4
  <1>1. CASE create_training_models
    <2>1. /\ actor' = disk.actor.history /\ critic' = disk.critic.history
          /\ UNCHANGED <<args, disk, unfinished, training>>
          /\ awake' = IF args.offload THEN {} ELSE Roles
          /\ pc = "start"
      BY <1>1 DEF create_training_models, storage
    <2>2. backup'.actor = disk.actor.weights
      BY <1>1 DEF create_training_models, TypeInv
    <2>3. /\ \/ args.offload /\ args.weights_backuper
             \/ params'["actor"] = disk.actor.weights
          /\ params'["critic"] = disk.critic.weights
      BY <1>1, <1>c DEF create_training_models, Paused, DropsOnPause
    <2>4. training["actor"] = "no"
      BY <2>1, <1>c DEF StageInv, TypeInv
    <2> QED
      BY <2>1, <2>2, <2>3, <1>c
  <1>2. CASE \/ onload_weights \/ onload_kv \/ offload_rollout
             \/ generate \/ StartFirst \/ SyncAndStartNext \/ RolloutEnds
    <2>1. /\ UNCHANGED <<args, actor, critic, training, awake, params, backup, disk, unfinished>>
          /\ pc # "start" \/ pc' = pc
      BY <1>2 DEF onload_weights, onload_kv, offload_rollout, generate, StartFirst,
                  SyncAndStartNext, RolloutEnds, models, memory, storage
    <2> QED
      BY <2>1
  <1>3. CASE update_weights
    <2>1. /\ UNCHANGED <<args, actor, critic, training, awake, params, disk, unfinished>>
          /\ pc # "start"
      BY <1>3 DEF update_weights, models, storage
    <2>2. backup'.actor = backup.actor
      BY <1>3 DEF update_weights, KeepOldActor, TypeInv
    <2> QED
      BY <2>1, <2>2
  <1>4. CASE StartTraining
    <2>1. /\ UNCHANGED <<args, actor, critic, backup, disk, unfinished>>
          /\ pc = "train" /\ pc' = "training"
      BY <1>4 DEF StartTraining, models, storage
    <2>2. training["actor"] = "no"
      BY <2>1, <1>c DEF StageInv, TypeInv
    <2>3. /\ params'["critic"] = params["critic"]
          /\ \/ /\ training'["actor"] = "forward"
                /\ params'["actor"] = Kept(ForwardTag)
             \/ /\ params' = params
                /\ "actor" \in awake' => "actor" \in awake
      BY <1>4, <1>c DEF StartTraining, TypeInv
    <2> QED
      BY <2>1, <2>2, <2>3 DEF Kept
  <1>5. ASSUME NEW role \in Roles, sync_actor_critic_data \/ NoExchange(role)
        PROVE  WeightsInv'
    <2>1. /\ UNCHANGED <<args, pc, actor, critic, awake, backup, disk, unfinished>>
          /\ params'["critic"] = params["critic"]
          /\ \/ params'["actor"] = params["actor"] /\ training'["actor"] = training["actor"]
             \/ params'["actor"] = Kept("actor")
      BY <1>5, <1>c DEF sync_actor_critic_data, NoExchange, models, storage, TypeInv
    <2>2. pc # "start"
      BY <1>5, <1>c DEF sync_actor_critic_data, NoExchange, StageInv
    <2> QED
      BY <2>1, <2>2 DEF Kept
  <1>6. ASSUME NEW role \in Roles, Update(role)
        PROVE  WeightsInv'
    <2>1. /\ UNCHANGED <<args, pc, awake, disk, unfinished>>
          /\ training[role] = "update" /\ role \in Trainers
          /\ pc = "training" /\ role \in awake
      BY <1>6, <1>c DEF Update, storage, StageInv, MemoryInv
    <2>2. params[role] = Len(History(role))
      BY <2>1, <1>c DEF History
    <2>3. params' = [params EXCEPT ![role] = params[role] + 1]
      BY <1>6, <2>2 DEF Update, Trained
    <2>4. CASE role = "actor"
      <3>1. Len(actor') = Len(actor) + 1 /\ critic' = critic
        BY <1>6, <2>4 DEF Update, TypeInv
      <3>2. backup'.actor = params["actor"] + 1
        BY <1>6, <2>2, <2>4 DEF Update, BackedUp, Trained, TypeInv
      <3>3. params'["actor"] = params["actor"] + 1 /\ params'["critic"] = params["critic"]
        BY <2>3, <2>4, <1>c DEF TypeInv
      <3> QED
        BY <2>1, <2>2, <2>4, <3>1, <3>2, <3>3 DEF History
    <2>5. CASE role = "critic"
      <3>1. Len(critic') = Len(critic) + 1 /\ actor' = actor /\ backup' = backup
        BY <1>6, <2>5 DEF Update, BackedUp, TypeInv
      <3>2. /\ params'["critic"] = params["critic"] + 1 /\ params'["actor"] = params["actor"]
            /\ training'["actor"] = training["actor"]
        BY <1>6, <2>3, <2>5, <1>c DEF Update, TypeInv
      <3> QED
        BY <2>1, <2>5, <3>1, <3>2
    <2> QED
      BY <2>1, <2>4, <2>5, <1>c
  <1>7. CASE TrainingEnds
    BY <1>7 DEF TrainingEnds, models, memory, storage
  <1>8. CASE save
    <2> DEFINE role == SavedRole(pc)
    <2>1. role \in Trainers
      BY <1>c DEF SavedRole
    <2>2. /\ UNCHANGED <<args, actor, critic, training, awake, params, backup>>
          /\ pc \in {"save_actor", "save_critic"}
      BY <1>8 DEF save, Saving, models, engines
    <2>3. params[role] = Len(History(role))
      <3>1. CASE pc = "save_critic"
        BY <3>1 DEF SavedRole, History
      <3>2. CASE pc = "save_actor"
        <4>1. training["actor"] = "no"
          BY <3>2, <1>c DEF StageInv, TypeInv
        <4>2. args.weights_backuper => "actor" \in awake
          <5>1. CASE ~args.offload
            BY <5>1, <3>2, <1>c DEF MemoryInv
          <5>2. CASE args.offload /\ args.weights_backuper
            <6>1. rollout_id \in 0..(num_rollout - 1)
              BY <3>2, <1>a, ArgsTyped DEF StageInv, InRollout, Saves
            <6>2. rollout_id >= args.num_critic_only_steps
              BY <3>2, <5>2, <6>1, <1>a, ArgsTyped
              DEF SavesAwake, StageInv, should_run_periodic_action
            <6>3. "actor" \in Sleeping(rollout_id)
              BY <6>2 DEF Sleeping
            <6> QED
              BY <3>2, <5>2, <6>3 DEF MemoryInv, InRollout, Saves
          <5> QED
            BY <5>1, <5>2
        <4> QED
          BY <3>2, <4>1, <4>2 DEF SavedRole, History
      <3> QED
        BY <2>2, <3>1, <3>2
    <2>4. \A other \in Trainers :
            /\ disk'[other] \in {Snapshot(role), disk[other], unfinished[other]}
            /\ unfinished'[other] \in {Snapshot(role), NoCheckpoint, unfinished[other]}
      BY <1>8, <2>1, <1>c, SaveEffect DEF TypeInv
    <2>5. /\ Snapshot(role).weights = Len(Snapshot(role).history)
          /\ NoCheckpoint.weights = Len(NoCheckpoint.history)
      BY <2>3 DEF Snapshot, NoCheckpoint
    <2>6. \A other \in Trainers :
            /\ disk'[other].weights = Len(disk'[other].history)
            /\ unfinished'[other].weights = Len(unfinished'[other].history)
      BY <2>4, <2>5
    <2> QED
      BY <2>2, <2>6
  <1>9. CASE save_dataset
    BY <1>9, <1>c DEF save_dataset, Saving, models, TypeInv, DiskShape
  <1>10. CASE offload_train
    <2>1. UNCHANGED <<args, actor, critic, training, backup, disk, unfinished>> /\ pc # "start"
      BY <1>10 DEF offload_train, models, storage
    <2>2. \/ params' = params /\ awake' \subseteq awake
          \/ /\ args.offload /\ awake' = awake \ Sleeping(rollout_id)
             /\ params' = Paused(Sleeping(rollout_id), params)
      BY <1>10 DEF offload_train, memory
    <2>3. params'["critic"] = params["critic"]
      BY <2>2, <1>c DEF Paused, DropsOnPause
    <2>4. \/ params'["actor"] = params["actor"]
          \/ args.weights_backuper /\ "actor" \notin awake'
      BY <2>2, <1>c DEF Paused, DropsOnPause
    <2>5. awake' \subseteq awake
      BY <2>2
    <2> QED
      BY <2>1, <2>3, <2>4, <2>5
  <1>11. CASE SyncBeforeUpdate
    BY <1>11 DEF SyncBeforeUpdate, models, memory, storage
  <1>12. CASE Crash
    <2>1. \A role \in Trainers : unfinished'[role] = NoCheckpoint /\ disk'[role] = disk[role]
      BY <1>12, <1>c DEF Crash
    <2>2. NoCheckpoint.weights = Len(NoCheckpoint.history)
      BY DEF NoCheckpoint
    <2>3. pc' = "start"
      BY <1>12 DEF Crash
    <2> QED
      BY <2>1, <2>2, <2>3
  <1>13. CASE UNCHANGED vars
    BY <1>13 DEF vars, models, memory, storage
  <1> QED
    BY <1>1, <1>2, <1>3, <1>4, <1>5, <1>6, <1>7, <1>8, <1>9, <1>10, <1>11, <1>12, <1>13, <1>c
    DEF Next, JobStep

(***************************************************************************)
(* Age of the data.                                                        *)
(***************************************************************************)

(* The remainder of a rollout grows by one until it is zero again.         *)
LEMMA LeadGrows ==
    ASSUME NEW r \in Nat, NEW U \in Nat \ {0}
    PROVE  /\ r % U \in 0..(U - 1)
           /\ (r + 1) % U # 0 => (r + 1) % U = (r % U) + 1
           /\ U = 1 => (r + 1) % U = 0
  <1> DEFINE q == r \div U
             m == r % U
             p == (r + 1) \div U
             n == (r + 1) % U
  <1>1. m \in 0..(U - 1) /\ q \in Int /\ r = U * q + m
    OBVIOUS
  <1>2. n \in 0..(U - 1) /\ p \in Int /\ r + 1 = U * p + n
    OBVIOUS
  <1> HIDE DEF q, m, p, n
  <1>3. U * (p - q) = m + 1 - n
    BY <1>1, <1>2
  <1>4. p - q >= 1 => U * (p - q) >= U
    BY <1>1, <1>2
  <1>5. p - q <= -1 => U * (p - q) <= -U
    BY <1>1, <1>2
  <1>6. n # 0 => n = m + 1
    BY <1>1, <1>2, <1>3, <1>4, <1>5
  <1>7. U = 1 => n = 0
    BY <1>2
  <1> QED
    BY <1>1, <1>6, <1>7 DEF m, n

(* A rollout is one step of the actor, or none.                            *)
LEMMA StepsGrow ==
    ASSUME args \in Configurations, NEW r \in Nat
    PROVE  Steps(r) \in Nat /\ Steps(r + 1) - Steps(r) \in {0, 1}
  BY ArgsTyped DEF Steps

(* What the actor is trained on next keeps its history fresh.              *)
LEMMA FreshNext ==
    ASSUME NEW h \in Seq(Batches), NEW batch \in Batches, args \in Configurations,
           IsFresh(h), Len(h) - batch.version \in 0..MaxAge
    PROVE  IsFresh(Append(h, batch))
  <1>1. MaxAge \in Nat
    BY ArgsTyped DEF MaxAge
  <1>2. /\ Len(Append(h, batch)) = Len(h) + 1 /\ Append(h, batch)[Len(h) + 1] = batch
        /\ \A i \in 1..Len(h) : Append(h, batch)[i] = h[i]
    OBVIOUS
  <1>3. ASSUME NEW i \in 1..(Len(h) + 1)
        PROVE  (i - 1) - Append(h, batch)[i].version \in 0..MaxAge
    <2>1. CASE i = Len(h) + 1
      BY <1>2, <2>1
    <2>2. CASE i \in 1..Len(h)
      BY <1>2, <2>2 DEF IsFresh
    <2> QED
      BY <2>1, <2>2
  <1> QED
    BY <1>2, <1>3 DEF IsFresh

(* The engines get the weights of the actor as it is.                      *)
LEMMA PushedWeights ==
    ASSUME TypeInv, StageInv, HistoryInv, MemoryInv, WeightsInv, update_weights
    PROVE  /\ weights' = Len(actor)
           /\ ~args.offload => params["actor"] = Len(actor)
           /\ weights' = Steps(rollout_id)
  <1>1. pc \in {"first_update", "update_weights"}
    BY DEF update_weights
  <1>2. Len(actor) = Steps(rollout_id)
    BY <1>1 DEF HistoryInv, Fits, UpTo, Saves
  <1>3. training["actor"] = "no"
    BY <1>1 DEF StageInv, TypeInv, Trainers
  <1>4. weights' = Len(actor)
    BY <1>1, <1>3 DEF update_weights, Kept, WeightsInv, InMemory
  <1>5. ~args.offload => params["actor"] = Len(actor)
    BY <1>1, <1>3, RolesTyped DEF MemoryInv, WeightsInv, InMemory
  <1> QED
    BY <1>2, <1>4, <1>5

(* Batches are of the weights the driver allows.                           *)
LEMMA AgeInit == TypeInv /\ Init => AgeInv
  BY ArgsTyped DEF Init, AgeInv, HasBatch, HasNext, IsFresh, InRollout, Saves, NoCheckpoint, TypeInv

LEMMA AgeStep ==
    ASSUME TypeInv, StageInv, BatchInv, HistoryInv, MemoryInv, WeightsInv, AgeInv, [Next]_vars
    PROVE  AgeInv'
  <1> USE DEF AgeInv, HasBatch, HasNext, Awaited, InRollout, Saves
  <1>a. /\ args \in Configurations /\ rollout_id \in Int /\ num_rollout \in Int
        /\ args.driver \in {"sync", "async"} /\ args.update_weights_interval \in Nat \ {0}
        /\ args.driver = "async" => ~args.offload /\ MaxAge = args.update_weights_interval
        /\ MaxAge \in Nat /\ weights \in Int
    BY ArgsTyped DEF TypeInv, MaxAge
  <1>b. (args' = args) => /\ MaxAge' = MaxAge
                          /\ \A r : Steps(r)' = Steps(r')
                          /\ \A h : IsFresh(h)' = IsFresh(h')
    BY DEF MaxAge, Steps, IsFresh
  <1>c. IsFresh(NoCheckpoint.history)
    BY DEF IsFresh, NoCheckpoint
  <1>d. /\ curr.version \in Int /\ next.data.version \in Int
        /\ \A r \in Nat : Steps(r) \in Nat
    BY <1>a, StepsGrow DEF TypeInv, Batches
  <1>1. CASE create_training_models
    BY <1>1, <1>a, <1>b, ArgsTyped DEF create_training_models, StageInv, storage
  <1>2. CASE onload_weights \/ onload_kv \/ offload_rollout
    BY <1>2, <1>a, <1>b DEF onload_weights, onload_kv, offload_rollout, StageInv, models, storage
  <1>3. CASE update_weights
    <2>1. weights' = Steps(rollout_id) /\ rollout_id \in Nat
      BY <1>3, PushedWeights DEF StageInv, update_weights
    <2>2. 0 \in 0..Lead'
      BY <1>3, <1>a, <2>1, LeadGrows DEF Lead, update_weights
    <2>3. /\ UNCHANGED <<args, rollout_id, actor, curr, next, disk, unfinished>>
          /\ pc' \in {"onload_kv", "generate", "first", "loop"}
          /\ next = NoFuture /\ next.state = "none"
          /\ pc' = "loop" => args.driver = "async" /\ pc = "update_weights"
      BY <1>3, <1>a DEF update_weights, models, storage, StageInv, NoFuture
    <2>4. Steps(rollout_id)' - weights' = 0
      BY <1>b, <1>d, <2>1, <2>3
    <2> QED
      BY <1>a, <1>b, <2>1, <2>2, <2>3, <2>4
  <1>4. CASE generate
    <2>1. curr' = curr \/ curr'.version = weights
      BY <1>4 DEF generate, Rollout
    <2>2. /\ UNCHANGED <<args, rollout_id, actor, next, disk, unfinished, weights>>
          /\ pc' \in {"offload_rollout", "train", "end"} /\ pc = "generate" /\ args.driver = "sync"
          /\ pc' # "end" => curr'.version = weights
      BY <1>4, <1>a DEF generate, Rollout, models, engines, storage, StageInv
    <2>3. weights = Steps(rollout_id)
      BY <2>2
    <2> QED
      BY <1>a, <1>b, <1>d, <2>1, <2>2, <2>3 DEF StageInv
  <1>5. CASE StartFirst
    <2>1. /\ UNCHANGED <<args, rollout_id, actor, disk, unfinished, weights>>
          /\ pc = "first" /\ pc' = "loop" /\ args.driver = "async"
          /\ next'.state = "running" /\ next'.data.version = weights
      BY <1>5, <1>a DEF StartFirst, Rollout, models, engines, storage, StageInv
    <2>2. weights = Steps(rollout_id) /\ rollout_id \in Nat
      BY <1>a, <1>d, <2>1 DEF Lead, StageInv
    <2>3. rollout_id % args.update_weights_interval
              \in 0..(args.update_weights_interval - 1)
      BY <1>a, <2>2, LeadGrows
    <2>4. Lead' = rollout_id % args.update_weights_interval
      BY <2>1 DEF Lead
    <2>5. 0 \in 0..Lead'
      BY <1>a, <2>3, <2>4
    <2> QED
      BY <1>a, <1>b, <1>d, <2>1, <2>2, <2>5
  <1>6. CASE SyncAndStartNext
    <2>1. /\ UNCHANGED <<args, rollout_id, actor, disk, unfinished, weights>>
          /\ pc = "loop" /\ pc' \in {"train", "end"} /\ args.driver = "async" /\ rollout_id \in Nat
      BY <1>6, <1>a DEF SyncAndStartNext, models, engines, storage, StageInv
    <2>2. CASE pc' = "train"
      <3>1. rollout_id < num_rollout /\ curr' = Awaited
        BY <1>6, <2>2 DEF SyncAndStartNext, TypeInv
      <3>2. rollout_id + 1 < num_rollout => next'.data.version = weights
        BY <1>6, <2>2 DEF SyncAndStartNext, Rollout
      <3>3. Lead' = Lead /\ Lead = rollout_id % args.update_weights_interval
        BY <2>1, <2>2 DEF Lead
      <3>4. Steps(rollout_id + 1) - weights \in 0..MaxAge
        <4>1. Lead \in 0..(args.update_weights_interval - 1)
          BY <1>a, <2>1, <3>3, LeadGrows
        <4>2. Steps(rollout_id) - weights \in 0..Lead
          BY <2>1
        <4>3. Steps(rollout_id) \in Nat /\ Steps(rollout_id + 1) - Steps(rollout_id) \in {0, 1}
          BY <1>a, <2>1, StepsGrow
        <4>4. Steps(rollout_id + 1) \in Nat
          BY <1>a, <2>1, StepsGrow
        <4> QED
          BY <1>a, <2>1, <4>1, <4>2, <4>3, <4>4
      <3> QED
        BY <1>b, <2>1, <2>2, <3>1, <3>2, <3>3, <3>4
    <2> QED
      BY <1>b, <2>1, <2>2
  <1>7. CASE RolloutEnds
    BY <1>7, <1>b DEF RolloutEnds, models, engines, storage, Lead, TypeInv
  <1>8. CASE StartTraining \/ sync_actor_critic_data \/ (\E role \in Roles : NoExchange(role))
    <2>1. /\ UNCHANGED <<args, rollout_id, actor, curr, next, disk, unfinished, weights>>
          /\ pc \in InRollout /\ pc' \in InRollout
      BY <1>8, RolesTyped DEF StartTraining, sync_actor_critic_data, NoExchange, models, engines,
                              storage, StageInv, Trainers
    <2> QED
      BY <1>b, <2>1 DEF Lead
  <1>9. ASSUME NEW role \in Roles, Update(role)
        PROVE  AgeInv'
    <2>1. /\ UNCHANGED <<args, pc, rollout_id, curr, next, disk, unfinished, weights>>
          /\ training[role] # "no" /\ role \in Trainers
          /\ actor' = IF role = "actor" THEN Append(actor, curr) ELSE actor
      BY <1>9, RolesTyped DEF Update, engines, storage
    <2>2. pc = "training"
      BY <2>1 DEF StageInv
    <2>3. role = "actor" => Len(actor) = Steps(rollout_id)
      BY <2>1, <2>2 DEF HistoryInv, UpTo, Fits
    <2>4. IsFresh(actor')
      BY <1>a, <2>1, <2>2, <2>3, FreshNext DEF TypeInv
    <2> QED
      BY <1>b, <2>1, <2>2, <2>4 DEF Lead
  <1>10. CASE TrainingEnds \/ save_dataset
    <2>1. /\ UNCHANGED <<args, rollout_id, actor, curr, next, unfinished, weights>>
          /\ disk'.actor = disk.actor /\ pc \in InRollout /\ pc' \in InRollout
      BY <1>10 DEF TrainingEnds, save_dataset, Saving, models, engines, storage, TypeInv, DiskShape
    <2> QED
      BY <1>b, <2>1 DEF Lead
  <1>11. CASE save
    <2>1. /\ UNCHANGED <<args, rollout_id, actor, curr, next, weights>>
          /\ pc \in {"save_actor", "save_critic"} /\ pc' \in {"save_critic", "save_dataset"}
      BY <1>11 DEF save, Saving, models, engines
    <2>2. /\ disk'.actor.history \in {actor, disk.actor.history, unfinished.actor.history}
          /\ unfinished'.actor.history \in {actor, NoCheckpoint.history, unfinished.actor.history}
      BY <1>11, SavedHistories
    <2> QED
      BY <1>b, <1>c, <2>1, <2>2 DEF Lead
  <1>12. CASE offload_train
    BY <1>12, <1>a, <1>b DEF offload_train, models, engines, storage, StageInv
  <1>13. CASE SyncBeforeUpdate
    <2>1. /\ UNCHANGED <<args, actor, disk, unfinished, weights>> /\ rollout_id' = rollout_id + 1
          /\ pc = "saved" /\ args.driver = "async" /\ rollout_id \in Nat
      BY <1>13 DEF SyncBeforeUpdate, models, engines, storage, StageInv
    <2>2. CASE pc' = "update_weights"
      BY <1>13, <1>a, <1>b, <2>1, <2>2 DEF SyncBeforeUpdate, NoFuture
    <2>3. CASE pc' = "loop"
      <3>1. /\ (rollout_id + 1) % args.update_weights_interval # 0
            /\ UNCHANGED <<curr, next>>
        BY <1>13, <2>3 DEF SyncBeforeUpdate
      <3>2. Lead' = Lead + 1 /\ Lead \in Nat
        <4> DEFINE U == args.update_weights_interval
        <4>1. Lead = rollout_id % U /\ Lead' = (rollout_id + 1) % U
          BY <2>1, <2>3 DEF Lead
        <4>2. rollout_id % U \in 0..(U - 1) /\ (rollout_id + 1) % U = (rollout_id % U) + 1
          BY <1>a, <2>1, <3>1, LeadGrows
        <4> QED
          BY <1>a, <4>1, <4>2
      <3>3. Steps(rollout_id + 1) - weights \in 0..Lead'
        BY <1>a, <1>d, <2>1, <3>2, StepsGrow
      <3> QED
        BY <1>a, <1>b, <2>1, <2>3, <3>1, <3>3 DEF BatchInv
    <2> QED
      BY <1>13, <2>2, <2>3 DEF SyncBeforeUpdate
  <1>14. CASE Crash
    BY <1>14, <1>b, <1>c DEF Crash, IsFresh
  <1>15. CASE UNCHANGED vars
    BY <1>15, <1>b DEF vars, models, engines, storage, Lead
  <1> QED
    BY <1>1, <1>2, <1>3, <1>4, <1>5, <1>6, <1>7, <1>8, <1>9, <1>10, <1>11, <1>12, <1>13,
       <1>14, <1>15 DEF Next, JobStep

(* The queue of the old actor and the rollout actor follows the batches.   *)
LEMMA OldActorInit == TypeInv /\ Init => OldActorInv
  BY DEF Init, OldActorInv, HasNext, InRollout, Saves

LEMMA OldActorStep ==
    ASSUME TypeInv, StageInv, BatchInv, HistoryInv, MemoryInv, WeightsInv, OldActorInv, [Next]_vars
    PROVE  OldActorInv'
  <1> SUFFICES ASSUME KeepsTwo'
               PROVE  OldActorInv'
    BY DEF OldActorInv
  <1> USE DEF OldActorInv, HasBatch, HasNext, Awaited, InRollout, Saves
  <1>1. CASE args' # args
    BY <1>1 DEF Next, JobStep, create_training_models, onload_weights, onload_kv, offload_rollout,
                update_weights, generate, StartFirst, SyncAndStartNext, RolloutEnds, StartTraining,
                sync_actor_critic_data, NoExchange, Update, TrainingEnds, save, save_dataset,
                Saving, offload_train, SyncBeforeUpdate, Crash, vars
  <1>a. CASE args' = args
    <2>a. /\ KeepsTwo
          /\ args.driver = "async" /\ args.update_weights_interval = 1 /\ args.keep_old_actor
          /\ args.weights_backuper /\ ~args.offload
          /\ rollout_id \in Int /\ num_rollout \in Int
      BY <1>a, ArgsTyped DEF KeepsTwo, TypeInv
    <2>1. CASE create_training_models
      <3>1. pc' = "first_update" /\ actor' = disk.actor.history
        BY <2>1, <2>a DEF create_training_models
      <3>2. backup'.rollout_actor = disk.actor.weights
        BY <2>1, <2>a DEF create_training_models, TypeInv
      <3> QED
        BY <3>1, <3>2 DEF WeightsInv, Trainers
    <2>2. CASE onload_weights \/ onload_kv \/ offload_rollout \/ generate
      BY <2>2, <2>a DEF onload_weights, onload_kv, offload_rollout, generate, StageInv
    <2>3. CASE update_weights
      <3>1. /\ weights' = Len(actor) /\ params["actor"] = Len(actor)
        BY <2>3, <2>a, PushedWeights
      <3>2. backup'.old_actor = backup.rollout_actor /\ backup'.rollout_actor = Len(actor)
        BY <2>3, <2>a, <3>1 DEF update_weights, KeepOldActor, TypeInv
      <3>3. /\ UNCHANGED <<rollout_id, curr, next>> /\ next = NoFuture
            /\ \/ pc = "first_update" /\ pc' = "first"
               \/ pc = "update_weights" /\ pc' = "loop"
        BY <2>3, <2>a DEF update_weights, StageInv
      <3>4. NoFuture.state = "none"
        BY DEF NoFuture
      <3> QED
        BY <2>a, <3>1, <3>2, <3>3, <3>4
    <2>4. CASE StartFirst
      BY <2>4, <2>a DEF StartFirst, Rollout, models, engines
    <2>5. CASE SyncAndStartNext
      <3>1. CASE pc' = "train"
        <4>1. /\ rollout_id < num_rollout /\ curr' = Awaited
              /\ rollout_id + 1 < num_rollout => next'.data.version = weights
              /\ UNCHANGED <<rollout_id, weights, backup>> /\ pc = "loop"
          BY <2>5, <3>1 DEF SyncAndStartNext, Rollout, TypeInv, engines
        <4> QED
          BY <1>a, <2>a, <3>1, <4>1
      <3>2. CASE pc' = "end"
        BY <3>2, <2>a
      <3> QED
        BY <2>5, <3>1, <3>2 DEF SyncAndStartNext
    <2>6. CASE RolloutEnds
      BY <1>a, <2>6, <2>a DEF RolloutEnds, models, engines, TypeInv
    <2>7. CASE StartTraining \/ sync_actor_critic_data \/ (\E role \in Roles : NoExchange(role))
               \/ TrainingEnds
      <3>1. /\ UNCHANGED <<rollout_id, curr, next, weights, backup>>
            /\ pc \in InRollout /\ pc' \in InRollout
        BY <2>7, RolesTyped DEF StartTraining, sync_actor_critic_data, NoExchange, TrainingEnds, models,
                                engines, StageInv, Trainers
      <3> QED
        BY <1>a, <2>a, <3>1
    <2>8. ASSUME NEW role \in Roles, Update(role)
          PROVE  OldActorInv'
      <3>1. /\ UNCHANGED <<pc, rollout_id, curr, next, weights>> /\ pc \in InRollout
        BY <2>8, RolesTyped DEF Update, engines, StageInv, Trainers
      <3>2. backup'.old_actor = backup.old_actor /\ backup'.rollout_actor = backup.rollout_actor
        BY <2>8 DEF Update, BackedUp, TypeInv
      <3> QED
        BY <1>a, <2>a, <3>1, <3>2
    <2>9. CASE save \/ save_dataset
      <3>1. /\ UNCHANGED <<rollout_id, curr, next, weights, backup>>
            /\ pc \in InRollout /\ pc' \in InRollout
        BY <2>9 DEF save, save_dataset, Saving, engines
      <3> QED
        BY <1>a, <2>a, <3>1
    <2>10. CASE offload_train
      BY <2>10, <2>a DEF offload_train
    <2>11. CASE SyncBeforeUpdate
      <3>1. pc = "saved" /\ rollout_id' = rollout_id + 1 /\ rollout_id \in Nat
        BY <2>11 DEF SyncBeforeUpdate, StageInv
      <3>2. (rollout_id + 1) % args.update_weights_interval = 0
        BY <2>a, <3>1, LeadGrows
      <3> QED
        BY <2>11, <1>a, <2>a, <3>1, <3>2 DEF SyncBeforeUpdate, models, engines
    <2>12. CASE Crash
      BY <2>12, <2>a DEF Crash
    <2>13. CASE UNCHANGED vars
      BY <2>13, <1>a, <2>a DEF vars, models, engines
    <2> QED
      BY <2>1, <2>2, <2>3, <2>4, <2>5, <2>6, <2>7, <2>8, <2>9, <2>10, <2>11, <2>12, <2>13
      DEF Next, JobStep
  <1> QED
    BY <1>1, <1>a

(***************************************************************************)
(* Checkpoints.                                                            *)
(***************************************************************************)

(* The steps that write no checkpoint.                                     *)
LEMMA DiskKept ==
    ASSUME TypeInv, [Next]_vars, ~save, ~Crash
    PROVE  /\ UNCHANGED <<args, unfinished>> /\ DOMAIN disk.dataset \subseteq DOMAIN disk'.dataset
           /\ disk'.actor = disk.actor /\ disk'.critic = disk.critic /\ disk'.archive = disk.archive
           /\ ~save_dataset => disk' = disk
  <1>1. CASE save_dataset
    <2>1. disk'.dataset = Written(disk.dataset, rollout_id, data_source)
      BY <1>1 DEF save_dataset, TypeInv, DiskShape
    <2>2. DOMAIN disk.dataset \subseteq DOMAIN disk'.dataset
      BY <2>1 DEF Written
    <2> QED
      BY <1>1, <2>2 DEF save_dataset, Saving, TypeInv, DiskShape
  <1>2. CASE ~save_dataset
    BY <1>2 DEF Next, JobStep, create_training_models, onload_weights, onload_kv, offload_rollout,
                update_weights, generate, StartFirst, SyncAndStartNext, RolloutEnds, StartTraining,
                sync_actor_critic_data, NoExchange, Update, TrainingEnds, offload_train,
                SyncBeforeUpdate, vars, storage
  <1> QED
    BY <1>1, <1>2

(* What of the driver they leave alone, up to a rollout's end.             *)
LEMMA PlacesKept ==
    ASSUME TypeInv, StageInv, [Next]_vars, ~save, ~Crash, ~create_training_models
    PROVE  \/ /\ rollout_id' = rollout_id + 1 /\ pc = "saved"
              /\ pc' \in {"onload_weights", "update_weights", "loop"}
           \/ /\ rollout_id' = rollout_id
              /\ \/ pc' = pc
                 \/ pc = "save_dataset" /\ pc' = "saved"
                 \/ pc = "training" /\ pc' \in {"save_actor", "saved"}
                 \/ /\ pc \notin {"start", "training", "saved"} \cup Saves
                    /\ pc' \notin {"start", "saved"} \cup Saves
  <1> USE DEF Saves
  <1>1. CASE offload_train \/ SyncBeforeUpdate
    BY <1>1 DEF offload_train, SyncBeforeUpdate
  <1>2. CASE update_weights
    BY <1>2, ArgsTyped DEF update_weights, TypeInv
  <1>3. CASE ~(offload_train \/ SyncBeforeUpdate \/ update_weights)
    BY <1>3 DEF Next, JobStep, onload_weights, onload_kv, offload_rollout,
                generate, StartFirst, SyncAndStartNext, RolloutEnds, StartTraining,
                sync_actor_critic_data, NoExchange, Update, TrainingEnds, save_dataset,
                Saving, vars
  <1> QED
    BY <1>1, <1>2, <1>3

(* The critic's checkpoints follow the actor's, also unfinished ones.      *)
LEMMA OrderInit == TypeInv /\ Init => OrderInv
  BY DEF Init, OrderInv, Saves, NoCheckpoint

LEMMA OrderStep ==
    ASSUME TypeInv, StageInv, HistoryInv, OrderInv, [Next]_vars
    PROVE  OrderInv'
  <1> USE DEF OrderInv, Saves
  <1>a. /\ rollout_id \in Int /\ disk.actor.iteration \in Int /\ disk.critic.iteration \in Int
        /\ disk.actor.iteration >= -1 /\ unfinished.actor.iteration >= -1
        /\ unfinished.actor.iteration \in Int /\ unfinished.critic.iteration \in Int
        /\ unfinished["actor"] = unfinished.actor /\ unfinished["critic"] = unfinished.critic
    <2>1. /\ disk.actor \in Checkpoints /\ disk.critic \in Checkpoints
          /\ unfinished["actor"] \in Checkpoints /\ unfinished["critic"] \in Checkpoints
          /\ rollout_id \in Int
      BY DEF TypeInv, Trainers
    <2>2. disk.actor.iteration >= -1 /\ unfinished.actor.iteration >= -1
      BY DEF HistoryInv
    <2> QED
      BY <2>1, <2>2 DEF Checkpoints
  <1>b. NoCheckpoint.iteration = -1
    BY DEF NoCheckpoint
  <1>1. CASE create_training_models
    <2>1. /\ pc = "start" /\ pc' \in {"onload_weights", "first_update"}
          /\ rollout_id' = disk.actor.iteration + 1 /\ UNCHANGED <<args, disk, unfinished>>
      BY <1>1 DEF create_training_models, storage
    <2> QED
      BY <1>a, <1>b, <2>1
  <1>2. CASE save
    <2>1. /\ UNCHANGED <<args, rollout_id, actor, critic>>
          /\ pc \in {"save_actor", "save_critic"}
          /\ pc' = IF args.use_critic /\ pc = "save_actor" THEN "save_critic" ELSE "save_dataset"
      BY <1>2 DEF save, Saving, models
    <2>2. Background' = Background
      BY <2>1 DEF Background, LastRollout
    <2>3. CASE pc = "save_actor"
      <3>1. /\ disk'.actor = IF ~Background THEN Snapshot("actor")
                             ELSE IF unfinished.actor = NoCheckpoint THEN disk.actor
                             ELSE unfinished.actor
            /\ unfinished'.actor = IF Background THEN Snapshot("actor") ELSE NoCheckpoint
            /\ disk'.critic = disk.critic /\ unfinished'.critic = unfinished.critic
        BY <1>2, <2>3, SaveEffect DEF SavedRole, Trainers, TypeInv
      <3>2. Snapshot("actor").iteration = rollout_id /\ Snapshot("actor").history = actor
        BY DEF Snapshot, History
      <3>3. disk.actor.iteration < rollout_id /\ unfinished.actor.iteration < rollout_id
        BY <2>3
      <3>4. disk'.actor.iteration >= disk.actor.iteration
            /\ disk'.actor.iteration >= unfinished.actor.iteration
        BY <1>a, <1>b, <3>1, <3>2, <3>3
      <3>5. disk'.actor.iteration \in Int
        BY <1>a, <3>1, <3>2
      <3>6. IF Background
            THEN /\ unfinished'.actor.iteration = rollout_id /\ unfinished'.actor.history = actor
                 /\ disk'.actor.iteration < rollout_id
            ELSE /\ unfinished'.actor = NoCheckpoint
                 /\ disk'.actor.iteration = rollout_id /\ disk'.actor.history = actor
        BY <3>1, <3>2, <3>3
      <3> QED
        BY <1>a, <1>b, <2>1, <2>2, <2>3, <3>1, <3>4, <3>5, <3>6
    <2>4. CASE pc = "save_critic"
      <3>1. /\ disk'.critic = IF ~Background THEN Snapshot("critic")
                              ELSE IF unfinished.critic = NoCheckpoint THEN disk.critic
                              ELSE unfinished.critic
            /\ unfinished'.critic = IF Background THEN Snapshot("critic") ELSE NoCheckpoint
            /\ disk'.actor = disk.actor /\ unfinished'.actor = unfinished.actor
        BY <1>2, <2>4, SaveEffect DEF SavedRole, Trainers, TypeInv
      <3>2. Snapshot("critic").iteration = rollout_id
        BY DEF Snapshot
      <3>3. args.use_critic
        BY <2>4 DEF StageInv
      <3> QED
        BY <1>a, <1>b, <2>1, <2>2, <2>4, <3>1, <3>2, <3>3
    <2> QED
      BY <2>1, <2>3, <2>4
  <1>3. CASE Crash
    <2>1. /\ pc' = "start" /\ UNCHANGED <<args, disk>>
          /\ unfinished'.actor = NoCheckpoint /\ unfinished'.critic = NoCheckpoint
      BY <1>3 DEF Crash
    <2> QED
      BY <1>a, <1>b, <2>1
  <1>4. CASE ~save /\ ~Crash /\ ~create_training_models
    <2>1. /\ UNCHANGED <<args, unfinished>>
          /\ disk'.actor = disk.actor /\ disk'.critic = disk.critic
      BY <1>4, DiskKept
    <2>2. pc \in {"save_critic", "save_dataset"} /\ pc' \in {"save_critic", "save_dataset"}
             => actor' = actor
      BY <1>4, RolesTyped
      DEF Next, JobStep, onload_weights, onload_kv, offload_rollout, update_weights,
          generate, StartFirst, SyncAndStartNext, RolloutEnds, StartTraining,
          sync_actor_critic_data, NoExchange, Update, TrainingEnds, save_dataset,
          Saving, offload_train, SyncBeforeUpdate, vars, models, StageInv, Trainers
    <2>3. rollout_id' = rollout_id => Background' = Background
      BY <2>1 DEF Background, LastRollout
    <2> QED
      <3>1. CASE rollout_id' = rollout_id + 1 /\ pc = "saved"
        BY <1>4, <1>a, <2>1, <3>1, PlacesKept
      <3>2. CASE rollout_id' = rollout_id /\ pc' = pc
        <4>1. Background' = Background
          BY <2>3, <3>2
        <4> QED
          BY <1>a, <2>1, <2>2, <3>2, <4>1
      <3>3. CASE rollout_id' = rollout_id /\ pc' # pc
        <4>1. /\ pc' \notin {"save_critic", "save_dataset", "start"}
              /\ pc \notin {"save_critic", "start"}
              /\ pc' # "saved" => pc \notin {"save_dataset", "saved"}
          BY <1>4, <1>a, <3>3, PlacesKept
        <4> QED
          BY <1>a, <2>1, <3>3, <4>1
      <3> QED
        BY <1>4, <3>1, <3>2, <3>3, PlacesKept
  <1> QED
    BY <1>1, <1>2, <1>3, <1>4

(* The rollouts the critic sees ascend, through its restarts.              *)
LEMMA RolloutsTyped == \A h \in Seq(Batches) : \A i \in 1..Len(h) : h[i].rollout \in Int
  <1>1. \A h \in Seq(Batches) : \A i \in 1..Len(h) : h[i] \in Batches
    OBVIOUS
  <1>2. \A batch \in Batches : batch.rollout \in Int
    BY DEF Batches
  <1> QED
    BY <1>1, <1>2

LEMMA AscendsMore ==
    ASSUME NEW h \in Seq(Batches), NEW r \in Int, NEW q \in Int, r <= q, Ascends(h, r)
    PROVE  Ascends(h, q)
  <1>1. \A i \in 1..Len(h) : h[i].rollout \in Int
    BY RolloutsTyped
  <1> QED
    BY <1>1 DEF Ascends

LEMMA AscendsNext ==
    ASSUME NEW h \in Seq(Batches), NEW r \in Int, Ascends(h, r),
           NEW batch \in Batches, batch.rollout = r
    PROVE  Ascends(Append(h, batch), r + 1)
  <1>1. /\ Len(Append(h, batch)) = Len(h) + 1 /\ Append(h, batch)[Len(h) + 1] = batch
        /\ \A i \in 1..Len(h) : Append(h, batch)[i] = h[i] /\ h[i].rollout \in Int
    BY RolloutsTyped
  <1>2. \A i \in 1..(Len(h) + 1) : Append(h, batch)[i].rollout < r + 1
    BY <1>1 DEF Ascends
  <1>3. ASSUME NEW i \in 1..(Len(h) + 1), NEW j \in 1..(Len(h) + 1), i < j
        PROVE  Append(h, batch)[i].rollout < Append(h, batch)[j].rollout
    <2>1. i \in 1..Len(h)
      BY <1>3
    <2>2. CASE j = Len(h) + 1
      BY <1>1, <2>1, <2>2 DEF Ascends
    <2>3. CASE j \in 1..Len(h)
      BY <1>1, <1>3, <2>1, <2>3 DEF Ascends
    <2> QED
      BY <2>2, <2>3
  <1> QED
    BY <1>1, <1>2, <1>3 DEF Ascends

LEMMA CriticInit == TypeInv /\ Init => CriticInv
  BY DEF Init, CriticInv, Ascends, NoCheckpoint

LEMMA CriticStep ==
    ASSUME TypeInv, StageInv, BatchInv, OrderInv, CriticInv, [Next]_vars
    PROVE  CriticInv'
  <1> USE DEF CriticInv
  <1>a. /\ rollout_id \in Int /\ UpTo("critic") \in Int /\ critic \in Seq(Batches)
        /\ disk.actor.iteration \in Int /\ disk.critic.iteration \in Int
        /\ disk.critic.history \in Seq(Batches)
    BY DEF TypeInv, UpTo, Checkpoints
  <1>b. \A h, r : Ascends(h, r)' = Ascends(h', r')
    BY DEF Ascends
  <1>c. Ascends(NoCheckpoint.history, NoCheckpoint.iteration + 1)
    BY DEF Ascends, NoCheckpoint
  <1>1. CASE create_training_models
    <2>1. /\ critic' = disk.critic.history /\ UNCHANGED <<disk, unfinished>>
          /\ UpTo("critic")' = disk.actor.iteration + 1
      BY <1>1 DEF create_training_models, storage, UpTo, Saves
    <2>2. disk.critic.iteration + 1 <= disk.actor.iteration + 1
      BY <1>a DEF OrderInv
    <2>3. Ascends(critic', UpTo("critic")')
      BY <1>a, <2>1, <2>2, AscendsMore
    <2> QED
      BY <1>b, <2>1, <2>3
  <1>2. CASE save
    <2>1. /\ UNCHANGED <<rollout_id, critic, training>>
          /\ pc \in {"save_actor", "save_critic"} /\ pc' \in {"save_critic", "save_dataset"}
      BY <1>2 DEF save, Saving, models
    <2>2. UpTo("critic") = rollout_id + 1 /\ UpTo("critic")' = rollout_id + 1
      BY <2>1 DEF UpTo, Saves
    <2>3. /\ disk'.critic \in {Snapshot("critic"), disk.critic, unfinished.critic}
          /\ unfinished'.critic \in {Snapshot("critic"), NoCheckpoint, unfinished.critic}
      BY <1>2, <2>1, SaveEffect DEF SavedRole, Trainers, TypeInv
    <2>4. Snapshot("critic").history = critic /\ Snapshot("critic").iteration = rollout_id
      BY DEF Snapshot, History
    <2> QED
      BY <1>b, <1>c, <2>1, <2>2, <2>3, <2>4
  <1>3. ASSUME NEW role \in Roles, Update(role)
        PROVE  CriticInv'
    <2>1. /\ UNCHANGED <<pc, rollout_id, disk, unfinished>>
          /\ critic' = IF role = "critic" THEN Append(critic, curr) ELSE critic
          /\ training' = [training EXCEPT ![role] = "no"] /\ role \in Trainers
          /\ pc = "training" /\ training[role] # "no"
      BY <1>3, RolesTyped DEF Update, storage, StageInv
    <2>2. CASE role = "critic"
      <3>1. UpTo("critic") = rollout_id /\ UpTo("critic")' = rollout_id + 1
        BY <2>1, <2>2 DEF UpTo, Saves, TypeInv, Trainers
      <3>2. curr \in Batches /\ curr.rollout = rollout_id
        BY <2>1 DEF BatchInv, HasBatch, Awaited, InRollout, TypeInv
      <3>3. Ascends(critic', rollout_id + 1)
        BY <1>a, <2>1, <2>2, <3>1, <3>2, AscendsNext
      <3> QED
        BY <1>b, <2>1, <3>1, <3>3
    <2>3. CASE role # "critic"
      <3>1. UpTo("critic")' = UpTo("critic")
        BY <2>1, <2>3 DEF UpTo, Saves, TypeInv, Trainers
      <3> QED
        BY <1>b, <2>1, <2>3, <3>1
    <2> QED
      BY <2>2, <2>3
  <1>4. CASE Crash
    BY <1>4, <1>b, <1>c DEF Crash, Ascends
  <1>5. CASE ~save /\ ~Crash /\ ~create_training_models /\ ~(\E role \in Roles : Update(role))
    <2>1. disk'.critic = disk.critic /\ unfinished' = unfinished
      BY <1>5, DiskKept
    <2>2. /\ critic' = critic
          /\ pc = "training" /\ pc' = pc /\ training["critic"] = "no" => training'["critic"] = "no"
      BY <1>5 DEF Next, JobStep, onload_weights, onload_kv, offload_rollout, update_weights,
                  generate, StartFirst, SyncAndStartNext, RolloutEnds, StartTraining,
                  sync_actor_critic_data, NoExchange, TrainingEnds, save_dataset,
                  Saving, offload_train, SyncBeforeUpdate, vars, models, TypeInv, Trainers
    <2>3. UpTo("critic") <= UpTo("critic")' /\ UpTo("critic")' \in Int
      BY <1>5, <1>a, <2>2, PlacesKept DEF UpTo, Saves
    <2>4. Ascends(critic', UpTo("critic")')
      BY <1>a, <2>2, <2>3, AscendsMore
    <2> QED
      BY <1>b, <2>1, <2>4
  <1> QED
    BY <1>1, <1>2, <1>3, <1>4, <1>5

(* What is saved ends with the batch of the rollout.                       *)
LEMMA TrainedInit == TypeInv /\ Init => TrainedInv
  BY DEF Init, TrainedInv, Saves

LEMMA TrainedStep ==
    ASSUME TypeInv, StageInv, TrainedInv, [Next]_vars
    PROVE  TrainedInv'
  <1> USE DEF TrainedInv, Saves
  <1>a. /\ args' = args
        /\ \A r : Sleeping(r)' = Sleeping(r')
    <2>1. args' = args
      BY DEF Next, JobStep, create_training_models, onload_weights, onload_kv, offload_rollout,
             update_weights, generate, StartFirst, SyncAndStartNext, RolloutEnds, StartTraining,
             sync_actor_critic_data, NoExchange, Update, TrainingEnds, save, save_dataset,
             Saving, offload_train, SyncBeforeUpdate, Crash, vars
    <2> QED
      BY <2>1 DEF Sleeping
  <1>b. \A role \in Roles : role \in Trainers
    BY RolesTyped
  <1>1. CASE create_training_models \/ Crash
    BY <1>1 DEF create_training_models, Crash
  <1>2. CASE StartTraining
    <2>1. /\ rollout_id' = rollout_id /\ pc' = "training" /\ rollout_id \in Nat
          /\ \A role \in Roles : (role = "actor" => TrainsActor(rollout_id)) => training'[role] # "no"
      BY <1>2, <1>b DEF StartTraining, StageInv, Trainers
    <2>2. \A role \in Sleeping(rollout_id) : training'[role] # "no"
      BY <2>1, StartedSleep DEF TypeInv
    <2> QED
      BY <1>a, <2>1, <2>2
  <1>3. ASSUME NEW role \in Roles, Update(role)
        PROVE  TrainedInv'
    <2>1. /\ UNCHANGED <<pc, rollout_id, curr>> /\ role \in Trainers
          /\ training' = [training EXCEPT ![role] = "no"]
          /\ History(role)' = Append(History(role), curr)
          /\ \A other \in Trainers \ {role} : History(other)' = History(other)
      BY <1>3, <1>b DEF Update, History, Trainers
    <2>2. History(role) \in Seq(Batches) /\ curr \in Batches
      BY DEF TypeInv, History
    <2>3. History(role)' # <<>> /\ History(role)'[Len(History(role)')] = curr
      BY <2>1, <2>2
    <2>4. \A other \in Sleeping(rollout_id) : other \in Trainers
      BY DEF Sleeping, Trainers
    <2> QED
      BY <1>a, <2>1, <2>3, <2>4 DEF TypeInv
  <1>4. CASE ~StartTraining /\ ~create_training_models /\ ~Crash /\ ~(\E role \in Roles : Update(role))
    <2>1. /\ pc' \in {"training"} \cup Saves => UNCHANGED <<rollout_id, curr, actor, critic>>
          /\ pc' = "training" => pc = "training"
          /\ \A role \in Trainers : pc = "training" /\ training'[role] = "no" => training[role] = "no"
          /\ pc' \in Saves /\ pc \notin Saves => pc = "training" /\ \A role \in Roles : training[role] = "no"
      <3>1. CASE update_weights
        BY <3>1, ArgsTyped DEF update_weights, TypeInv
      <3>2. CASE ~update_weights
        BY <1>4, <3>2 DEF Next, JobStep, onload_weights, onload_kv, offload_rollout,
                    generate, StartFirst, SyncAndStartNext, RolloutEnds, StageInv,
                    sync_actor_critic_data, NoExchange, TrainingEnds, save, save_dataset,
                    Saving, offload_train, SyncBeforeUpdate, vars, models, TypeInv, Trainers
      <3> QED
        BY <3>1, <3>2
    <2>2. \A role \in Sleeping(rollout_id) : role \in Trainers /\ role \in Roles
      BY DEF Sleeping, Trainers, Roles
    <2>3. CASE pc' \in {"training"} \cup Saves
      <3>1. \A role \in Trainers : History(role)' = History(role)
        BY <2>1, <2>3 DEF History
      <3> QED
        BY <1>a, <2>1, <2>2, <2>3, <3>1
    <2>4. CASE pc' \notin {"training"} \cup Saves
      BY <2>4
    <2> QED
      BY <2>3, <2>4
  <1> QED
    BY <1>1, <1>2, <1>3, <1>4

(***************************************************************************)
(* Archives.                                                               *)
(***************************************************************************)

(* Archives of actor and critic stay paired.                               *)
LEMMA ArchiveInit == TypeInv /\ Init => ArchiveInv
  BY DEF Init, ArchiveInv, ArchivesPair

LEMMA ArchiveStep ==
    ASSUME TypeInv, StageInv, HistoryInv, OrderInv, TrainedInv, ArchiveInv, [Next]_vars
    PROVE  ArchiveInv'
  <1>a. /\ rollout_id \in Int /\ disk.actor \in Checkpoints /\ disk.actor.iteration \in Int
        /\ IsTable(disk.archive.actor, Checkpoints) /\ IsTable(disk.archive.critic, Checkpoints)
    BY DEF TypeInv, Checkpoints, Trainers
  <1>1. CASE save /\ pc = "save_actor"
    <2> DEFINE archived == /\ is_archive_point(rollout_id) /\ ~Background
                           /\ rollout_id \notin DOMAIN disk.archive.actor
    <2>1. /\ Snapshot("actor") \in Checkpoints
          /\ disk'.actor = IF ~Background THEN Snapshot("actor")
                           ELSE IF unfinished.actor = NoCheckpoint THEN disk.actor
                           ELSE unfinished.actor
          /\ disk'.archive.critic = disk.archive.critic
          /\ disk'.archive.actor = IF archived
                                   THEN Written(disk.archive.actor, rollout_id, Snapshot("actor"))
                                   ELSE disk.archive.actor
      BY <1>1, SaveEffect DEF SavedRole, Trainers, TypeInv
    <2>2. Snapshot("actor").iteration = rollout_id /\ Snapshot("actor").history = actor
      BY DEF Snapshot, History
    <2>3. disk.actor.iteration < rollout_id
      BY <1>1 DEF OrderInv
    <2>4. rollout_id \notin DOMAIN disk.archive.actor
      BY <1>a, <2>3 DEF ArchiveInv
    <2>5. UNCHANGED <<args, rollout_id, actor>>
      BY <1>1 DEF save, Saving, models
    <2>6. is_archive_point(rollout_id)' = is_archive_point(rollout_id) /\ Background' = Background
      BY <2>5 DEF is_archive_point, Background, LastRollout
    <2>7. disk.actor.iteration <= disk'.actor.iteration /\ (~Background => disk'.actor.iteration = rollout_id)
      BY <1>a, <2>1, <2>2, <2>3 DEF OrderInv
    <2>8. CASE archived
      <3> DEFINE table == Written(disk.archive.actor, rollout_id, Snapshot("actor"))
      <3> HIDE DEF table
      <3>1. /\ DOMAIN table = DOMAIN disk.archive.actor \cup {rollout_id}
            /\ table[rollout_id] = Snapshot("actor")
            /\ \A q \in DOMAIN disk.archive.actor \ {rollout_id} : table[q] = disk.archive.actor[q]
        BY DEF table, Written
      <3>2. disk'.archive.actor = table
        BY <2>1, <2>8 DEF table
      <3>3. \A r \in DOMAIN table : r <= disk'.actor.iteration
        <4>1. disk'.actor.iteration = rollout_id
          BY <2>7, <2>8
        <4>2. \A r \in DOMAIN disk.archive.actor : r \in Int /\ r <= disk.actor.iteration
          BY <1>a DEF ArchiveInv, IsTable
        <4> QED
          BY <1>a, <2>3, <3>1, <4>1, <4>2
      <3>4. \A r \in DOMAIN disk.archive.critic :
              r \in DOMAIN table /\ table[r].history = disk.archive.actor[r].history
        BY <2>4, <3>1 DEF ArchiveInv, ArchivesPair
      <3>5. ArchivesPair'
        BY <2>1, <3>2, <3>4 DEF ArchiveInv, ArchivesPair
      <3> QED
        BY <2>2, <2>5, <3>1, <3>2, <3>3, <3>5 DEF ArchiveInv
    <2>9. CASE ~archived
      <3>1. ArchivesPair'
        BY <2>1, <2>9 DEF ArchiveInv, ArchivesPair
      <3>2. \A r \in DOMAIN disk.archive.actor : r \in Int /\ r <= disk.actor.iteration
        BY <1>a DEF ArchiveInv, IsTable
      <3>3. disk'.actor.iteration \in Int
        BY <1>a, <2>1, <2>2 DEF TypeInv, Checkpoints, Trainers
      <3>4. \A r \in DOMAIN disk.archive.actor : r <= disk'.actor.iteration
        BY <1>a, <2>7, <3>2, <3>3
      <3> QED
        BY <2>1, <2>4, <2>6, <2>9, <3>1, <3>4 DEF ArchiveInv
    <2> QED
      BY <2>8, <2>9
  <1>2. CASE save /\ pc = "save_critic"
    <2> DEFINE archived == /\ is_archive_point(rollout_id) /\ ~Background
                           /\ rollout_id \notin DOMAIN disk.archive.critic
    <2>1. /\ Snapshot("critic") \in Checkpoints /\ pc' = "save_dataset"
          /\ disk'.actor = disk.actor /\ disk'.archive.actor = disk.archive.actor
          /\ disk'.archive.critic = IF archived
                                    THEN Written(disk.archive.critic, rollout_id, Snapshot("critic"))
                                    ELSE disk.archive.critic
      <3>1. pc' = "save_dataset"
        BY <1>2 DEF save
      <3> QED
        BY <1>2, <3>1, SaveEffect DEF SavedRole, Trainers, TypeInv
    <2>2. Snapshot("critic").history = critic
      BY DEF Snapshot, History
    <2>3. CASE archived
      <3> DEFINE table == Written(disk.archive.critic, rollout_id, Snapshot("critic"))
      <3> HIDE DEF table
      <3>1. /\ DOMAIN table = DOMAIN disk.archive.critic \cup {rollout_id}
            /\ table[rollout_id] = Snapshot("critic")
            /\ \A q \in DOMAIN disk.archive.critic \ {rollout_id} : table[q] = disk.archive.critic[q]
        BY DEF table, Written
      <3>2. disk'.archive.critic = table
        BY <2>1, <2>3 DEF table
      <3>3. /\ rollout_id \in DOMAIN disk.archive.actor
            /\ disk.archive.actor[rollout_id].history = actor
        BY <1>2, <2>3 DEF ArchiveInv
      <3>4. critic[Len(critic)] = curr /\ (actor = <<>> \/ actor[Len(actor)] = curr)
        <4>1. args.use_critic /\ "critic" \in Sleeping(rollout_id)
          BY <1>2 DEF StageInv, Sleeping
        <4>2. CASE TrainsActor(rollout_id)
          <5>1. "actor" \in Sleeping(rollout_id)
            BY <4>1, <4>2 DEF Sleeping, TrainsActor
          <5> QED
            BY <1>2, <4>1, <5>1 DEF TrainedInv, History, Saves
        <4>3. CASE ~TrainsActor(rollout_id)
          <5>1. Len(actor) = Steps(rollout_id + 1)
            BY <1>2 DEF HistoryInv, Fits, UpTo, Saves
          <5>2. Steps(rollout_id + 1) = 0
            BY <4>3, <1>a, ArgsTyped DEF Steps, TrainsActor, TypeInv
          <5>3. actor = <<>>
            BY <5>1, <5>2 DEF TypeInv
          <5> QED
            BY <1>2, <4>1, <5>3 DEF TrainedInv, History, Saves
        <4> QED
          BY <4>2, <4>3
      <3>5. ASSUME NEW r \in DOMAIN table
            PROVE  /\ r \in DOMAIN disk.archive.actor
                   /\ LET a == disk.archive.actor[r].history
                          c == table[r].history
                      IN  a = <<>> \/ a[Len(a)] = c[Len(c)]
        <4>1. CASE r = rollout_id
          BY <2>2, <3>1, <3>3, <3>4, <4>1
        <4>2. CASE r # rollout_id
          BY <3>1, <3>5, <4>2 DEF ArchiveInv, ArchivesPair
        <4> QED
          BY <4>1, <4>2
      <3>6. ArchivesPair'
        BY <2>1, <3>2, <3>5 DEF ArchivesPair
      <3> QED
        BY <2>1, <3>6 DEF ArchiveInv
    <2>4. CASE ~archived
      BY <2>1, <2>4 DEF ArchiveInv, ArchivesPair
    <2> QED
      BY <2>3, <2>4
  <1>3. CASE ~save
    <2>1. disk'.actor = disk.actor /\ disk'.archive = disk.archive
      <3>1. CASE Crash
        BY <3>1 DEF Crash
      <3> QED
        BY <1>3, <3>1, DiskKept
    <2>2. pc' # "save_critic" \/ UNCHANGED <<args, pc, rollout_id, actor>>
      <3>1. CASE update_weights
        BY <3>1, ArgsTyped DEF update_weights, TypeInv
      <3>2. CASE ~update_weights
        BY <1>3, <3>2, RolesTyped
        DEF Next, JobStep, create_training_models, onload_weights, onload_kv, offload_rollout,
            generate, StartFirst, SyncAndStartNext, RolloutEnds, StartTraining,
            sync_actor_critic_data, NoExchange, Update, TrainingEnds, save_dataset, Saving,
            offload_train, SyncBeforeUpdate, Crash, vars, models, StageInv, Trainers
      <3> QED
        BY <3>1, <3>2
    <2>3. ArchivesPair'
      BY <2>1 DEF ArchiveInv, ArchivesPair
    <2>4. UNCHANGED <<args, rollout_id>> =>
             is_archive_point(rollout_id)' = is_archive_point(rollout_id) /\ Background' = Background
      BY DEF is_archive_point, Background, LastRollout
    <2> QED
      BY <2>1, <2>2, <2>3, <2>4 DEF ArchiveInv
  <1> QED
    BY <1>1, <1>2, <1>3 DEF save

(***************************************************************************)
(* Prompts.                                                                *)
(***************************************************************************)

(* The data source is one batch after the batch awaited, or two when the   *)
(* next rollout took one.                                                  *)
LEMMA TakenTyped == \A source \in Sources : Taken(source) \in Int
  BY TrainAssumption DEF Sources, Taken

LEMMA PromptsInit == TypeInv /\ Init => PromptsInv
  BY ArgsTyped DEF Init, PromptsInv, HasBatch, HasNext, InRollout, Saves, TypeInv

LEMMA PromptsStep ==
    ASSUME TypeInv, StageInv, BatchInv, PromptsInv, [Next]_vars
    PROVE  PromptsInv'
  <1> USE DEF PromptsInv, HasBatch, HasNext, Awaited, InRollout, Saves
  <1>a. /\ args \in Configurations /\ rollout_id \in Int /\ num_rollout \in Int
        /\ rollout_batch_size \in Int /\ args.driver \in {"sync", "async"}
        /\ args.driver = "async" => ~args.offload
    BY ArgsTyped DEF TypeInv
  <1>b. /\ Taken(data_source) \in Int /\ Taken(curr.prompts) \in Int
        /\ Taken(next.data.prompts) \in Int
    <2>1. data_source \in Sources /\ curr \in Batches /\ next.data \in Batches
      BY DEF TypeInv
    <2>2. curr.prompts \in Sources /\ next.data.prompts \in Sources
      BY <2>1 DEF Batches
    <2> QED
      BY <2>1, <2>2, TakenTyped
  <1>c. get_samples => /\ Taken(data_source') = Taken(data_source) + rollout_batch_size
                       /\ Taken(data_source)' = Taken(data_source')
    BY BatchTaken DEF TypeInv, Taken
  <1>1. CASE create_training_models
    BY <1>1, <1>a DEF create_training_models, StageInv
  <1>2. CASE onload_weights \/ onload_kv \/ offload_rollout
    BY <1>2, <1>a DEF onload_weights, onload_kv, offload_rollout, StageInv, Taken
  <1>3. CASE update_weights
    BY <1>3, <1>a DEF update_weights, StageInv, NoFuture, Taken
  <1>4. CASE generate
    <2>1. /\ args' = args /\ rollout_id' = rollout_id /\ pc' \in {"offload_rollout", "train", "end"}
          /\ args.driver = "sync"
          /\ pc' # "end" => get_samples /\ curr'.prompts = data_source
      BY <1>4, <1>a DEF generate, Rollout, StageInv
    <2>2. Taken(curr.prompts)' = Taken(curr'.prompts)
      BY DEF Taken
    <2> QED
      BY <1>a, <1>b, <1>c, <2>1, <2>2
  <1>5. CASE StartFirst
    <2>1. /\ args' = args /\ rollout_id' = rollout_id /\ pc' = "loop" /\ args.driver = "async"
          /\ get_samples /\ next'.data.prompts = data_source /\ next'.state = "running"
      BY <1>5, <1>a DEF StartFirst, Rollout, StageInv
    <2>2. Taken(next.data.prompts)' = Taken(next'.data.prompts)
      BY DEF Taken
    <2> QED
      BY <1>a, <1>b, <1>c, <2>1, <2>2
  <1>6. CASE SyncAndStartNext
    <2>1. /\ args' = args /\ rollout_id' = rollout_id /\ pc = "loop" /\ args.driver = "async"
          /\ pc' \in {"train", "end"}
      BY <1>6, <1>a DEF SyncAndStartNext, StageInv
    <2>2. CASE pc' = "train"
      <3>1. rollout_id < num_rollout /\ curr' = Awaited
        BY <1>6, <2>2 DEF SyncAndStartNext, TypeInv
      <3>2. /\ Taken(curr.prompts)' = Taken(Awaited.prompts)
            /\ Taken(next.data.prompts)' = Taken(next'.data.prompts)
            /\ data_source' = data_source => Taken(data_source)' = Taken(data_source)
        BY <3>1 DEF Taken
      <3>3. Taken(data_source) = Taken(Awaited.prompts) + rollout_batch_size
        BY <1>a, <1>b, <2>1, <3>1
      <3>4. Taken(Awaited.prompts) \in Int
        BY <1>b
      <3>5. CASE rollout_id + 1 < num_rollout
        <4>1. get_samples /\ next'.data.prompts = data_source
          BY <1>6, <2>2, <3>5 DEF SyncAndStartNext, Rollout
        <4>2. /\ Taken(data_source)' = Taken(Awaited.prompts) + 2 * rollout_batch_size
              /\ Taken(data_source)' = Taken(next.data.prompts)' + rollout_batch_size
          BY <1>a, <1>b, <1>c, <3>2, <3>3, <3>4, <4>1
        <4> QED
          BY <2>1, <2>2, <3>2, <3>5, <4>2
      <3>6. CASE ~(rollout_id + 1 < num_rollout)
        <4>1. data_source' = data_source
          BY <1>6, <2>2, <3>6 DEF SyncAndStartNext
        <4> QED
          BY <1>a, <2>1, <2>2, <3>2, <3>3, <3>4, <3>6, <4>1
      <3> QED
        BY <3>5, <3>6
    <2> QED
      BY <2>1, <2>2
  <1>7. CASE RolloutEnds
    BY <1>7, <1>a DEF RolloutEnds, TypeInv, Taken
  <1>8. CASE StartTraining \/ sync_actor_critic_data \/ (\E role \in Roles : NoExchange(role))
             \/ (\E role \in Roles : Update(role)) \/ TrainingEnds \/ save \/ save_dataset
    <2>1. /\ UNCHANGED <<args, rollout_id, curr, next, data_source>>
          /\ pc \in InRollout /\ pc' \in InRollout
      BY <1>8, RolesTyped DEF StartTraining, sync_actor_critic_data, NoExchange, Update, TrainingEnds,
                              save, save_dataset, Saving, StageInv, Trainers
    <2> QED
      BY <2>1 DEF Taken
  <1>9. CASE offload_train
    BY <1>9, <1>a DEF offload_train, StageInv
  <1>10. CASE SyncBeforeUpdate
    <2>1. /\ args' = args /\ data_source' = data_source /\ rollout_id' = rollout_id + 1
          /\ pc = "saved" /\ args.driver = "async"
          /\ \/ pc' = "update_weights" /\ curr' = next.data
             \/ pc' = "loop" /\ next' = next
      BY <1>10 DEF SyncBeforeUpdate
    <2>2. rollout_id + 1 < num_rollout =>
            next.state # "none" /\ Taken(data_source) = Taken(next.data.prompts) + rollout_batch_size
      BY <2>1 DEF BatchInv
    <2> QED
      BY <1>a, <1>b, <2>1, <2>2 DEF Taken
  <1>11. CASE Crash
    BY <1>11, <1>a DEF Crash
  <1>12. CASE UNCHANGED vars
    BY <1>12, <1>a DEF vars, Taken
  <1> QED
    BY <1>1, <1>2, <1>3, <1>4, <1>5, <1>6, <1>7, <1>8, <1>9, <1>10, <1>11, <1>12
    DEF Next, JobStep

(* The data source that is saved resumes after the last batch.             *)
LEMMA SourceResumes ==
    ASSUME TypeInv, StageInv, HistoryInv, TrainedInv, PromptsInv, pc = "save_dataset", actor # <<>>
    PROVE  Resumes(data_source, actor[Len(actor)])
  <1>a. /\ args \in Configurations /\ rollout_id \in Nat /\ rollout_batch_size \in Int
        /\ args.num_critic_only_steps \in Nat
    BY ArgsTyped DEF TypeInv, StageInv
  <1>1. TrainsActor(rollout_id)
    <2>1. Len(actor) = Steps(rollout_id + 1) /\ Len(actor) # 0
      BY DEF HistoryInv, Fits, UpTo, Saves, TypeInv
    <2> QED
      BY <1>a, <2>1 DEF Steps, TrainsActor
  <1>2. actor[Len(actor)] = curr
    <2>1. "actor" \in Sleeping(rollout_id)
      BY <1>1 DEF Sleeping, TrainsActor
    <2> QED
      BY <2>1 DEF TrainedInv, History, Saves
  <1>3. Taken(data_source) = Taken(curr.prompts) + (IF HasNext THEN 2 ELSE 1) * rollout_batch_size
    BY DEF PromptsInv, HasBatch, Awaited, InRollout, Saves
  <1>4. CASE HasNext
    <2>1. 2 \in 1..(IF args.driver = "sync" THEN 1 ELSE 2)
      BY <1>4 DEF HasNext
    <2> QED
      BY <1>2, <1>3, <1>4, <2>1 DEF Resumes
  <1>5. CASE ~HasNext
    <2>1. 1 \in 1..(IF args.driver = "sync" THEN 1 ELSE 2)
      OBVIOUS
    <2> QED
      BY <1>2, <1>3, <1>5, <2>1 DEF Resumes
  <1> QED
    BY <1>4, <1>5

(* A state of the data source goes with the checkpoint of its rollout,     *)
(* whatever crashes leave of earlier attempts.                             *)
LEMMA DatasetInit == TypeInv /\ Init => DatasetInv
  BY DEF Init, DatasetInv, Covered, NoCheckpoint

LEMMA DatasetStep ==
    ASSUME TypeInv, StageInv, HistoryInv, OrderInv, TrainedInv, PromptsInv, DatasetInv, [Next]_vars
    PROVE  DatasetInv'
  <1>a. /\ rollout_id \in Int /\ disk.actor.iteration \in Int
        /\ IsTable(disk.dataset, Sources)
    BY DEF TypeInv, Checkpoints
  <1>b. args' = args
    BY DEF Next, JobStep, create_training_models, onload_weights, onload_kv, offload_rollout,
           update_weights, generate, StartFirst, SyncAndStartNext, RolloutEnds, StartTraining,
           sync_actor_critic_data, NoExchange, Update, TrainingEnds, save, save_dataset,
           Saving, offload_train, SyncBeforeUpdate, Crash, vars
  <1>c. /\ \A s, b : Resumes(s, b)' = Resumes(s', b')
        /\ disk'.dataset = disk.dataset => \A cp : Covered(cp)' = Covered(cp')
    BY <1>b DEF Resumes, Covered, Taken
  <1>d. Covered(NoCheckpoint) /\ Covered(NoCheckpoint)'
    BY DEF Covered, NoCheckpoint
  <1>1. CASE save /\ pc = "save_actor"
    <2>1. /\ disk'.actor = IF ~Background THEN Snapshot("actor")
                           ELSE IF unfinished.actor = NoCheckpoint THEN disk.actor
                           ELSE unfinished.actor
          /\ disk'.dataset = disk.dataset
      BY <1>1, SaveEffect DEF SavedRole, Trainers, TypeInv
    <2>2. Snapshot("actor").iteration = rollout_id
      BY DEF Snapshot
    <2>3. disk.actor.iteration < rollout_id
      BY <1>1 DEF OrderInv
    <2>4. pc' \in {"save_critic", "save_dataset"}
      BY <1>1 DEF save
    <2>5. Covered(disk'.actor)
      <3>1. CASE Background
        BY <1>1, <2>1, <3>1 DEF DatasetInv
      <3>2. CASE ~Background
        <4>1. rollout_id \notin DOMAIN disk.dataset
          BY <1>a, <2>3, <3>2 DEF DatasetInv, Background
        <4> QED
          BY <2>1, <2>2, <3>2, <4>1 DEF Covered
      <3> QED
        BY <3>1, <3>2
    <2>6. disk'.actor.iteration \in Int /\ disk.actor.iteration <= disk'.actor.iteration
      <3>1. unfinished.actor.iteration \in Int
        BY DEF TypeInv, Checkpoints, Trainers
      <3> QED
        BY <1>a, <2>1, <2>2, <2>3, <3>1 DEF OrderInv
    <2>7. \A r \in DOMAIN disk.dataset : r \in Int
      BY <1>a DEF IsTable
    <2> QED
      BY <1>a, <1>b, <1>c, <2>1, <2>4, <2>5, <2>6, <2>7 DEF DatasetInv, LastRollout
  <1>2. CASE save /\ pc = "save_critic"
    <2>1. disk'.actor = disk.actor /\ disk'.dataset = disk.dataset
      BY <1>2, SaveEffect DEF SavedRole, Trainers, TypeInv
    <2>2. pc' = "save_dataset"
      BY <1>2 DEF save
    <2> QED
      BY <1>b, <1>c, <2>1, <2>2 DEF DatasetInv, LastRollout
  <1>3. CASE save_dataset
    <2>1. /\ disk'.dataset = Written(disk.dataset, rollout_id, data_source)
          /\ disk'.actor = disk.actor /\ pc = "save_dataset" /\ UNCHANGED <<unfinished, rollout_id>>
      BY <1>3 DEF save_dataset, Saving, TypeInv, DiskShape
    <2>2. /\ DOMAIN disk'.dataset = DOMAIN disk.dataset \cup {rollout_id}
          /\ disk'.dataset[rollout_id] = data_source
          /\ \A r \in DOMAIN disk.dataset \ {rollout_id} : disk'.dataset[r] = disk.dataset[r]
      BY <2>1 DEF Written
    <2>3. IF Background
          THEN /\ unfinished.actor.iteration = rollout_id /\ unfinished.actor.history = actor
               /\ disk.actor.iteration < rollout_id
          ELSE /\ unfinished.actor = NoCheckpoint
               /\ disk.actor.iteration = rollout_id /\ disk.actor.history = actor
      BY <2>1 DEF OrderInv
    <2>4. actor # <<>> => Resumes(data_source, actor[Len(actor)])
      BY <2>1, SourceResumes
    <2> DEFINE Resumed(cp) ==
                   cp.history # <<>> /\ cp.iteration \in DOMAIN disk'.dataset
                       => Resumes(disk'.dataset[cp.iteration], cp.history[Len(cp.history)])
    <2>5. ASSUME NEW cp, Covered(cp), cp.iteration # rollout_id
          PROVE  Resumed(cp)
      BY <2>2, <2>5 DEF Covered
    <2>6. ASSUME NEW cp, cp.iteration = rollout_id, cp.history = actor
          PROVE  Resumed(cp)
      BY <2>2, <2>4, <2>6
    <2>7. Resumed(disk'.actor) /\ Resumed(unfinished'.actor)
      <3>1. CASE Background
        <4>1. Covered(disk.actor) /\ disk.actor.iteration # rollout_id
          BY <1>a, <2>3, <3>1 DEF DatasetInv
        <4>2. Resumed(disk.actor) /\ Resumed(unfinished.actor)
          BY <2>3, <2>5, <2>6, <3>1, <4>1
        <4> QED
          BY <2>1, <4>2
      <3>2. CASE ~Background
        <4>1. Resumed(NoCheckpoint)
          BY DEF NoCheckpoint
        <4>2. Resumed(disk.actor)
          BY <2>3, <2>6, <3>2
        <4> QED
          BY <2>1, <2>3, <3>2, <4>1, <4>2
      <3> QED
        BY <3>1, <3>2
    <2>8. Covered(disk.actor)' /\ Covered(unfinished.actor)'
      BY <1>c, <2>7 DEF Covered
    <2>9. ASSUME NEW r \in DOMAIN disk'.dataset, ~args.async_save \/ LastRollout(r)
          PROVE  r <= disk'.actor.iteration
      <3>1. CASE r = rollout_id
        BY <1>a, <2>1, <2>3, <2>9, <3>1 DEF Background
      <3>2. CASE r # rollout_id
        BY <2>1, <2>2, <2>9, <3>2 DEF DatasetInv
      <3> QED
        BY <3>1, <3>2
    <2> QED
      BY <1>b, <2>8, <2>9 DEF DatasetInv, LastRollout
  <1>4. CASE Crash
    <2>1. disk' = disk /\ unfinished'.actor = NoCheckpoint
      BY <1>4 DEF Crash
    <2> QED
      BY <1>b, <1>c, <1>d, <2>1 DEF DatasetInv, LastRollout
  <1>5. CASE ~save /\ ~save_dataset /\ ~Crash
    <2>1. disk' = disk /\ unfinished' = unfinished
      BY <1>5, DiskKept
    <2>2. pc \in {"save_critic", "save_dataset"} => pc' \in {"save_critic", "save_dataset"}
      <3>1. CASE create_training_models
        BY <3>1 DEF create_training_models
      <3>2. CASE pc = "save_dataset"
        <4>1. ~(\E role \in Trainers : training[role] # "no")
          BY <3>2 DEF StageInv
        <4> QED
          BY <1>5, <3>2, <4>1
          DEF Next, JobStep, create_training_models, onload_weights, onload_kv, offload_rollout,
              update_weights, generate, StartFirst, SyncAndStartNext, RolloutEnds, StartTraining,
              sync_actor_critic_data, NoExchange, Update, TrainingEnds, offload_train,
              SyncBeforeUpdate, vars
      <3> QED
        BY <1>5, <3>1, <3>2, PlacesKept DEF Saves
    <2> QED
      BY <1>b, <1>c, <2>1, <2>2 DEF DatasetInv, LastRollout
  <1> QED
    BY <1>1, <1>2, <1>3, <1>4, <1>5 DEF save

(***************************************************************************)
(* The theorems.                                                           *)
(***************************************************************************)
DriverInv ==
    /\ TypeInv /\ StageInv /\ BatchInv /\ HistoryInv /\ MemoryInv /\ OrderInv /\ CriticInv
    /\ TrainedInv /\ ArchiveInv /\ PromptsInv /\ DatasetInv

ModelInv == DriverInv /\ WeightsInv /\ AgeInv /\ OldActorInv

(* Whatever crashes, the driver's steps keep its invariant.                *)
LEMMA DriverInvariant == Spec => []DriverInv
  <1>1. Init => DriverInv
    BY TypeInit, StageInit, BatchInit, HistoryInit, MemoryInit, OrderInit, CriticInit,
       TrainedInit, ArchiveInit, PromptsInit, DatasetInit DEF DriverInv
  <1>2. DriverInv /\ [Next]_vars => DriverInv'
    BY TypeStep, StageStep, BatchStep, HistoryStep, MemoryStep, OrderStep, CriticStep,
       TrainedStep, ArchiveStep, PromptsStep, DatasetStep DEF DriverInv
  <1> QED
    BY <1>1, <1>2, PTL DEF Spec

(* And that of the models' weights, where actors are saved awake.          *)
LEMMA ModelInvariant ==
    ASSUME \A c \in Configurations : SavesAwake(c)
    PROVE  Spec => []ModelInv
  <1>1. Init => WeightsInv /\ AgeInv /\ OldActorInv
    BY TypeInit, WeightsInit, AgeInit, OldActorInit
  <1>2. DriverInv /\ WeightsInv /\ AgeInv /\ OldActorInv /\ [Next]_vars
            => WeightsInv' /\ AgeInv' /\ OldActorInv'
    BY WeightsStep, AgeStep, OldActorStep DEF DriverInv
  <1> QED
    BY <1>1, <1>2, DriverInvariant, PTL DEF Spec, ModelInv

(* Every rollout is trained on once and in order, with any number of       *)
(* crashes and restarts, in both drivers: train.py and train_async.py.     *)
THEOREM RolloutsTrainedOnce == Spec => []EveryRolloutOnce
  <1>1. DriverInv => EveryRolloutOnce
    <2> SUFFICES ASSUME DriverInv
                 PROVE  EveryRolloutOnce
      OBVIOUS
    <2>1. DOMAIN actor = 1..Len(actor)
      BY DEF DriverInv, TypeInv
    <2> QED
      BY <2>1 DEF DriverInv, HistoryInv, Fits, EveryRolloutOnce
  <1> QED
    BY <1>1, DriverInvariant, PTL

(* Colocated trainers and engines are never on the GPUs together, and      *)
(* those are put to sleep that are awake.                                  *)
THEOREM MemoryIsExclusive == Spec => []MemoryExclusive
  <1>1. DriverInv => MemoryExclusive
    BY DEF DriverInv, MemoryInv, MemoryExclusive, InRollout, Saves
  <1> QED
    BY <1>1, DriverInvariant, PTL

(* An archived critic has its actor, that ended with the same data.        *)
THEOREM ArchivesStayPaired == Spec => []ArchivesPair
  <1>1. DriverInv => ArchivesPair
    BY DEF DriverInv, ArchiveInv
  <1> QED
    BY <1>1, DriverInvariant, PTL

(* A restart goes on together: the critic is not ahead of the actor and    *)
(* never sees a rollout twice, and the prompts go on after the last one's. *)
THEOREM RestartsGoTogether == Spec => RestartsTogether
  <1>1. DriverInv => /\ disk.critic.iteration <= disk.actor.iteration
                     /\ \A i, j \in DOMAIN critic : i < j => critic[i].rollout < critic[j].rollout
    <2> SUFFICES ASSUME DriverInv
                 PROVE  /\ disk.critic.iteration <= disk.actor.iteration
                        /\ \A i, j \in DOMAIN critic :
                            i < j => critic[i].rollout < critic[j].rollout
      OBVIOUS
    <2>1. DOMAIN critic = 1..Len(critic)
      BY DEF DriverInv, TypeInv
    <2> QED
      BY <2>1 DEF DriverInv, OrderInv, CriticInv, Ascends
  <1>2. DriverInv /\ [Next]_vars =>
          [pc = "start" /\ disk.actor.history # <<>> /\ disk.actor.iteration \in DOMAIN disk.dataset
            => Taken(data_source') - Taken(disk.actor.history[Len(disk.actor.history)].prompts)
                   \in {k * rollout_batch_size : k \in 1..(IF args.driver = "sync" THEN 1 ELSE 2)}]_vars
    <2> DEFINE last == disk.actor.history[Len(disk.actor.history)]
    <2> SUFFICES ASSUME DriverInv, Next, pc = "start", disk.actor.history # <<>>,
                        disk.actor.iteration \in DOMAIN disk.dataset
                 PROVE  Taken(data_source') - Taken(last.prompts)
                            \in {k * rollout_batch_size : k \in 1..(IF args.driver = "sync" THEN 1 ELSE 2)}
      OBVIOUS
    <2>1. create_training_models
      <3>1. next.state = "none" /\ (\A role \in Roles : training[role] = "no")
        BY RolesTyped DEF DriverInv, StageInv, NoFuture
      <3> QED
        BY <3>1 DEF Next, JobStep, onload_weights, onload_kv, offload_rollout, update_weights,
                    generate, StartFirst, SyncAndStartNext, RolloutEnds, StartTraining,
                    sync_actor_critic_data, NoExchange, Update, TrainingEnds, save, save_dataset,
                    offload_train, SyncBeforeUpdate, Crash, Roles
    <2>2. data_source' = disk.dataset[disk.actor.iteration]
      BY <2>1 DEF create_training_models, LoadedState
    <2>3. Resumes(data_source', last)
      BY <2>2 DEF DriverInv, DatasetInv, Covered
    <2>4. Taken(data_source') \in Int /\ Taken(last.prompts) \in Int
      <3>1. data_source' \in Sources
        BY <2>2 DEF DriverInv, TypeInv, IsTable
      <3>2. disk.actor.history \in Seq(Batches)
        BY DEF DriverInv, TypeInv, Checkpoints
      <3>3. last \in Batches
        BY <3>2
      <3>4. last.prompts \in Sources
        BY <3>3 DEF Batches
      <3> QED
        BY <3>1, <3>4, TakenTyped
    <2>5. PICK k \in 1..(IF args.driver = "sync" THEN 1 ELSE 2) :
              Taken(data_source') = Taken(last.prompts) + k * rollout_batch_size
      BY <2>3 DEF Resumes
    <2>6. k * rollout_batch_size \in Int
      BY <2>5, TrainAssumption
    <2> HIDE DEF last
    <2>7. Taken(data_source') - Taken(last.prompts) = k * rollout_batch_size
      BY <2>4, <2>5, <2>6
    <2> QED
      BY <2>5, <2>7
  <1> QED
    BY <1>1, <1>2, DriverInvariant, PTL DEF Spec, RestartsTogether

(* Trainers compute in memory they have, over process groups that exist,   *)
(* and update the weights of their own model.                              *)
THEOREM TrainersAlwaysReady ==
    ASSUME \A c \in Configurations : SavesAwake(c)
    PROVE  Spec => []TrainersReady
  <1>1. ModelInv => TrainersReady
    <2> SUFFICES ASSUME ModelInv, NEW role \in Roles, training[role] # "no"
                 PROVE  /\ role \in awake /\ role \in groups
                        /\ training[role] = "update" \/ role = "critic"
                               => params[role] = Len(History(role))
      BY DEF TrainersReady
    <2>1. role \in Trainers
      BY RolesTyped
    <2>2. role \in awake /\ role \in groups /\ pc = "training"
      BY <2>1 DEF ModelInv, DriverInv, MemoryInv, StageInv
    <2>3. CASE role = "critic"
      BY <2>2, <2>3 DEF ModelInv, WeightsInv, History
    <2>4. CASE role = "actor"
      BY <2>2, <2>4 DEF ModelInv, WeightsInv, InMemory, History
    <2> QED
      BY <2>1, <2>2, <2>3, <2>4 DEF Trainers
  <1> QED
    BY <1>1, ModelInvariant, PTL

(* A checkpoint holds the weights of the model it is named for.            *)
THEOREM CheckpointsAreTrained ==
    ASSUME \A c \in Configurations : SavesAwake(c)
    PROVE  Spec => []SavedAsTrained
  <1>1. ModelInv => SavedAsTrained
    BY RolesTyped DEF ModelInv, WeightsInv, SavedAsTrained
  <1> QED
    BY <1>1, ModelInvariant, PTL

(* train.py trains on data of the weights before, train_async.py on data   *)
(* at most update_weights_interval updates old, of one version.            *)
THEOREM DataIsFresh ==
    ASSUME \A c \in Configurations : SavesAwake(c)
    PROVE  Spec => []StalenessBounded
  <1>1. ModelInv => StalenessBounded
    <2> SUFFICES ASSUME ModelInv
                 PROVE  StalenessBounded
      OBVIOUS
    <2>1. DOMAIN actor = 1..Len(actor)
      BY DEF ModelInv, DriverInv, TypeInv
    <2>2. pc \in {"first_update", "update_weights"} => next.state # "running"
      BY DEF ModelInv, DriverInv, StageInv, NoFuture
    <2> QED
      BY <2>1, <2>2 DEF ModelInv, AgeInv, IsFresh, MaxAge, StalenessBounded
  <1> QED
    BY <1>1, ModelInvariant, PTL

(* The old actor of train_async.py is the one that generated the data.     *)
THEOREM OldActorIsGenerator ==
    ASSUME \A c \in Configurations : SavesAwake(c)
    PROVE  Spec => []OldActorGenerated
  <1>1. ModelInv => OldActorGenerated
    BY DEF ModelInv, OldActorInv, KeepsTwo, OldActorGenerated, InRollout
  <1> QED
    BY <1>1, ModelInvariant, PTL
=============================================================================
