# Verification of the rollout and training control plane

The repository trains language models by reinforcement learning: a driver (`train.py`, `train_async.py`)
coordinates Ray actors that train a Megatron model and SGLang engines that generate the data it is trained
on. This directory holds TLA+ models of the parts where several processes, threads or coroutines share
state and of the algorithms that cut, deal and credit the data between them, the TLC runs that check them
on small instances, and proofs for instances of every size.

Paths below are relative to the repository's root. `PROJECT.json` maps every definition that stands for
code to the lines it was translated from.

## 1. Inventory

### How the parts interact

```
            train.py / train_async.py  (driver, one process)
              |  generate, offload, onload, save        | train, update_weights, save_model
              v                                         v
      RolloutManager (Ray actor) <--- engines, lock --- actor / critic (groups of Ray actors)
        |  data source, rollout function                |  weights: CUDA IPC or NCCL broadcast
        |  RolloutHealthMonitor thread per group        |
        v                                               v
      SGLang engines (Ray actors, one per node) <-------+
        ^
        |  HTTP: /generate, /v1/chat/completions, /abort_request
      Miles router, session server <--- agents
```

The driver is sequential but leaves calls open (`async_train` on the critic, the next rollout in
`train_async.py`). A Ray actor executes its calls one after the other; the health monitors are threads
inside the RolloutManager, beside those calls. The rollout function and the session server are asyncio
programs: a coroutine is atomic between two awaits. The ranks of the trainers meet in collectives.

### Components

| component | source | state | operations | what is hard | what makes it correct |
|---|---|---|---|---|---|
| session server | `miles/rollout/session` | per session: messages, token checkpoints, records, `num_assistant`, `closing`, a lock | create, chat, delete, collect | the lock is not held during the backend's work; retries roll a session back; late answers; delete among queued chats | tokens are those of the messages; commits extend history; a removed session is frozen; records make a sample; everyone is answered |
| TITO tokenizers | `miles/utils/chat_template_utils` | none | render, merge, compare | a boundary token is shared by two messages | the merged prompt extends the stored tokens up to `max_trim_tokens` |
| engine fault tolerance | `miles/utils/health_monitor.py`, `miles/ray/rollout.py` | `all_engines` slots, `num_new_engines`, pause event, memory on the GPUs | check, kill, pause, resume, recover, offload, onload, connect | a monitor thread empties slots while the manager works on them; restarted engines have no weights and all their memory | kills hit what was checked; what serves holds the last weights; memory follows the phase |
| rollout generation, twice | `miles/rollout/sglang_rollout.py`, `miles/rollout/inference_rollout` | `GenerateState`, pending tasks, data, retries, buffer | submit, sample, score, filter, abort, recycle | tasks finish or raise during the abort; samples continue over several rollouts; accounting under over-sampling | no group is lost or delivered twice; masks and rewards belong to the final response; the loop ends |
| generate functions, agents | `miles/rollout/generate_hub`, `miles/rollout/generate_utils` | a sample | answer, call tools, collect records, truncate, merge | several parallel lists grow with each turn and end at any point | what the engine said, and only that, is trained on |
| training drivers | `train.py`, `train_async.py`, `miles/backends/megatron_utils/actor.py` | `rollout_id`, futures, models, weights of the engines, checkpoints, memory of the trainers | rollout, train, save, update weights, sleep, wake | pipelining, update intervals, the critic's warmup, crashes between saves, memory that is paused | each rollout is trained on once; bounded staleness; resumable checkpoints; one owner of the GPUs |
| backups, process groups | `miles/utils/tensor_backper.py`, `miles/utils/reloadable_process_group.py` | tagged copies, groups | backup, restore; destroy, reload | order around sleep, saves and updates | who computes has weights, memory and groups |
| data source, checkpoint archive | `miles/rollout/data_source.py`, `miles/utils/checkpoint_archive.py` | `sample_offset`, epoch, buffer; directories | get, add, save, load; copy | wrap at the end of an epoch; saved beside the models; crashes between | no prompt twice or skipped; archives come in pairs |
| weight transfer | `miles/backends/megatron_utils/update_weight`, `miles/ray/utils.py` | lock actor, buckets, process groups, pinned buffer, versions, sessions | connect, pause, flush, send, barrier, resume | several ranks and engines, one lock, one buffer; engines that come anew | every engine serves one version, whole, with caches of it |
| Miles router, radix tree | `miles/router` | active requests and failures per worker, quarantine; trie of texts with tokens and versions | choose, finish, check; retrieve, insert, collect | counts across awaits; clients that leave; lookups and insertions with a collection in between | counts are the requests under way; what is retrieved spells the text |
| conversion to training data | `miles/ray/rollout.py`, `miles/utils/seqlen_balancing.py`, `miles/backends/training_utils/data.py`, `cp_utils.py` | batches per rank | normalise, trim, split, balance, slice | uneven sizes, several layouts, reordering by length | a partition of the samples; every token on one rank, with its own score |
| losses, advantages, training step | `miles/backends/training_utils/loss.py`, `miles/utils/ppo_utils.py`, `miles/backends/megatron_utils/model.py` | advantages, gradients | forward, whiten, scale, step | ranks with nothing to add must still meet; scales that Megatron divides out | the gradient is that of the mean over the global batch; nobody waits for ever |
| replay of routing | `miles/utils/replay_base.py`, `actor.py` | queues of rows and two cursors | record, fill, replay | three passes with an index each | a token is routed as it was recorded |
| SGLang engine actor, placement, HTTP client | `miles/backends/sglang_utils`, `miles/ray`, `miles/utils/http_utils.py` | processes, ports | start, forward, retry | external programs | |
| reward models, options, metrics, names of parameters, FSDP, recipes, tests | the rest | none | | | |

What this code is exposed to and a test would hardly reach is listed, line by line, under "hazards" in
`PROJECT.json`, with the properties about it.

## 2. Modules

| component module | about | on top of it |
|---|---|---|
| `SessionServer` | the handlers of the session server | `AgentSessions` (an agent's records made into samples), `MCSessionServer`; `SessionServerProofs` |
| `EngineRecovery` | health monitors against manager, driver and trainer | `EngineRecoveryProofs` |
| `RolloutGenerate` | the rollout loop, in two implementations, with its tasks and the buffer | `MCRolloutGenerate`; `RolloutGenerateProofs` |
| `TrainLoop` | both drivers, trainers and their memory, data source, checkpoints, archive, crashes | `MCTrainLoop`; `TrainLoopProofs` |
| `WeightUpdate` (with `TransferPlan`) | an update of the weights over three transports | `WeightService`, the abstract specification it implements; `MCWeightUpdate`; `WeightUpdateProofs`, on `DataInduction` |
| `Router` (extends `RadixTree`) | the router, its health checks and its cache | `MCRouter`; `RouterProofs`, on `DataInduction` |
| `TrainingData` (extends `ContextParallel`, `Advantages`, `Partitions`; instantiates `Conversations`) | from conversations to the optimizer's step | `MCTrainingData`; `TrainingDataProofs`, about the operators it is built from, on `DataInduction` |
| `Samples` | what all generate functions do with a sample | used by `Conversations`, `AgentSessions` |

Most modules are checked under many command lines at once: the constant `Configurations` is a set (or
sequence) of them, `Init` picks one, and the assumption of the module says which are admitted.

Definitions marked `BUG:` are variants of the one they stand before, each a plausible mistake in the
code. No specification uses them; substituting one for its original must make the property it is listed
with in `PROJECT.json` ("mutants") fail, which shows that the property depends on that code.

### SessionServer, AgentSessions

`traj[s]` is the `LinearTrajectory` of session id `s`, `registry` the ids `SessionRegistry` holds; handlers
keep the object after it left the registry, as the code does. `owner[s]` and `waiters[s]` are the
`asyncio.Lock`: it passes to the waiters in order, and a newcomer never overtakes one. `req[c]` is the one
request client `c` has in flight, with what its handler keeps on the stack (`messages`, `prompt`,
`expected`, `reply`).

| code | action |
|---|---|
| `create_session` | `create_session` |
| `chat_completions`, up to the lock / the lock granted | `ChatArrives`, `ChatLocked` |
| `await request.body()` under the lock, failing or not | `BodyFails`; `PrepareFirst`, `PrepareExtension`, `PrepareRollback` (`prepare_pretokenized`, then the lock is released and the backend called) |
| `backend.do_proxy` failing or answering; phase 3 | `ProxyFails`, `ProxyReturns`, `CommitLocked` (`Commit`) |
| `delete_session` | `delete_session`, `DeleteLocked` |

A message is a model value and so is the token it renders to; a boundary token stands for what closes a
message or opens the next. That is what the prefix comparison and trimming tell apart. A truncated
completion lacks the boundary. A request whose appended messages have a role that is not allowed is
rejected after the rollback was made, and the rollback stays: the code returns 400 with the truncated
trajectory, and so does `Reject`.

`AgentSessions` reads, in each state, what `GET` of the session would answer then, and makes samples of it as
`agentic_tool_call.py` does: a sample per record, trimmed against the accumulated tokens, truncated, merged.
An assertion of `merge_samples` that fails is a merge without a result; the property says exactly when.

### EngineRecovery

Slot `<<g, e, n>>` is node `n` of engine `e` of group `g`; `all_engines[slot]` is the incarnation it refers
to, 0 for `None`. `gone` are the actors that died or were killed, whoever still refers to them. `mem` is
what an engine holds on GPUs. `mon[g]` is the thread of `RolloutHealthMonitor`: it reads the pause event
(`LoopTop`), waits (`FirstWaitOver`, `ClearFirstWait`), copies the list of engines (`StartRound`), checks
(`NextCheck`, `CheckPasses`, `CheckFails`) and kills the nodes of an engine one by one, reading each slot
again (`KillNode`, `SlotCleared`). `mgr` is the chain of calls driver, RolloutManager and trainer make; it is
sequential because the driver waits for each. `args` is how the job was started: whether the rollout is
offloaded, and which groups share GPUs with the trainer (`Setups`). Between its steps, and
inside `recover` where the code makes remote calls, monitors run. A call to an actor that is gone ends the training (pc `"failed"`).

### RolloutGenerate

`args.impl` is the implementation: `"sglang"` keeps account of the groups in `remaining_batch_size` and dies of
a task's exception, `"inference"` counts the pending tasks and logs the exception. `pc` is where
`generate_rollout_async` is: `fill` (submit until enough groups are on their way), `wait`, `collect`, `abort`. A
group is known by its index; `groups` holds those alive with every sample's status, response, mask and
reward. A task is a member of `pendings`; its samples are queued on the semaphore, generating, being scored
or at their end. `buffer` is `RolloutDataSourceWithBuffer`'s, carried from rollout to rollout. A token records
the rollout that generated it and the position the engine gave it, which is what masks, budgets and
continuation depend on. The dynamic filter's verdict, the engine's status and number of tokens, and
whether a post or a reward model raises, are choices.

### TrainLoop

One module for both drivers: `args.driver` tells which steps are taken. A model is the sequence of data it
was trained on, the version of weights the length of the actor's; a rollout records its number, its prompts
(the epoch and offset of the data source) and the version that generated it. `next` is the future of
`train_async.py`, `training` where actor and critic are in `train`, `unfinished` an asynchronous save that is
not finalized. `disk` is what a restart finds: the checkpoints by role with their iteration, the data
source's state by rollout, the archives.

`awake` and `resident` say who is on the GPUs; `params` what the memory of a trainer holds, a version or `Lost`
(pausing frees it, and what is resumed is zeroed pages unless it was copied); `groups` whose process groups
exist; `backup` the versions under the tags of the weights backuper (`actor`, `old_actor`,
`rollout_actor`). `Crash` loses everything but `disk`; `create_training_models` starts from there.

### WeightUpdate, TransferPlan, WeightService

`rank[r]` is where a trainer rank is in `update_weights`: reading the engines, connecting, preparing (rank 1,
the rank 0 of the code, pauses, flushes and opens sessions), its buckets, the barriers, finalizing. An
engine is a Ray actor: `inbox[e]` holds the calls that were sent to it, and it handles one at a time
(`HandleCall` for those of the update as a whole; `LeaveGroup`, `HandleEmpty`, `HandleTensor` for a rank's
group and buckets; joining a group and a broadcast take all who take part at once, `JoinGroup`, `Broadcast`). A weight is the version it carries and the shard it is. `locked` is the Lock actor;
`pinned`, `staged`, `writes` and `registry` are the P2P transport: a buffer per rank, the parameters of the
engine that are not yet complete (experts arrive in two buckets and are fused), the writes its thread pool
has under way, and whether the addresses of the engines are known and still right. `TransferPlan`
says which source writes to which ranks of which engines (`plan_p2p`).

`WeightService` is what those who sample may rely on: `latest` and, per engine, the version it `serving`s, or
`Suspended`. A version comes into an engine only while it does not serve, whole, and it is the latest one.
`WeightUpdate` implements it through a mapping that takes an engine for suspended while it is paused, and that
computes the version from the shards on its GPUs, or `Mixed`, which the abstract specification never allows.

### Router, RadixTree

`client[c]` is a request of client `c` in the router: `Generate` goes through `RadixTreeMiddleware` (look up,
send, try again if aborted, insert), `Proxy` straight to the worker; both take the least loaded one. `leaked`
counts the requests whose client left while its body was awaited. `HealthStep` is the loop of checks; a
round takes the workers that were there when it began.

A tree is a function from paths, the keys from the root, to nodes. Walking takes the longest child that
fits, as the code does. `insert` splits no node: what is left of text and tokens goes to a new node below the
last match, and only that node gets the version.

### TrainingData and the operators it uses

One behaviour takes one or two rollouts through a training step: `Conversations` makes samples of what the
engine and the tools have to say, as `multi_turn`, `unified_generate` and `tir_generate` do; the rollout manager
converts, normalises, trims and deals them out (`Partitions`: first fit, Karmarkar-Karp); each of `dp` ranks
computes its micro-batches and agrees on their number, runs the forward passes and the advantages
(`Advantages`), whitens, and takes the optimizer's steps (`ContextParallel`: which logits and tokens a peer
holds in the zigzag, padded and all-gathered layouts). Ranks interleave and meet in `Met`; a peer of the
context parallel group is a part of its rank. `Replay` rows (`replay` other than `"none"`) are recorded by
the rollout or by the pass before training.

A token is a pair of its sample and its position, a score the code of the token it is for, a reward an
integer; means are scaled to integers. So a property can say that the right number was computed for the
right token without computing a logarithm.

## 3. Runs

Times are of two TLC workers on a small machine.

| run | instance | what it checks |
|---|---|---|
| `sessions` (40 s) | 1 session, 2 clients, 2 assistant messages, 2 others, truncation | types; `CheckpointsAligned`, `TokensMatchMessages`, `RecordsFormChain`; no step replaces history (`CommitExtendsStored`) or touches a removed session (`RemovedIsFrozen`); what samples the records make at any moment, and which they do not (`SessionMakesSample`); `RequestsAnswered`, DELETE included |
| `recovery` (1 min) | an engine of two nodes, 3 incarnations, every setup of offloading and shared GPUs | `ServingIsUpdated`, `MemoryFollowsPhase`, `NewEnginesAnnounced`, `KillsWhatItChecked`, `DeadReplaced` |
| `rollout` (2 min) | 14 command lines of both implementations | `OnePlaceEach`, `DeliveredComplete`, `OnlyOnPolicyTrained`, `TokensFollow`, `RolloutsEnd` |
| `train_loop` (50 s) | all 204 combinations of options but those of `warmup_save`, 5 rollouts, 3 crashes | `EveryRolloutOnce`, `StalenessBounded`, `MemoryExclusive`, `OldActorGenerated`, `TrainersReady`, `ArchivesPair`, `RestartsTogether`, `JobEnds` |
| `weight_update` (40 s) | 10 layouts: broadcast, P2P and tensor, with engines replaced, two stages that connect at the same time, and writes that fail; 101 plans without an update | `UpdateTakesEffect`, `CachesFresh`, `UpdateEnds`, the refinement `ImplementsService`, and `PlansCover`, on which the proofs of the others rest |
| `serving` (80 s) | 2 workers that crash under 2 clients that leave; a tree under requests of 2 texts and 3 versions | `CountsAreActive`, `RequestsEnd`, `CacheSound` |
| `training_data` (25 s) | 752 setups: cutting, dealing, crediting, discounting, conversing, replaying | `EachTokenOnce`, `AdvantageByDefinition`, `LossIsMean`, `OnlySaidIsTrained`, `RoutedAsRecorded`, `TrainingEnds` |
| `recover_counts`, `warmup_save`, `stale_registry`, `collects_below`, `training_reward` | smaller, or the setups the passing run leaves out | one statement each that the code contradicts (section 6) |

A property often has several conjuncts: what was once a property of its own became part of the one it
belongs to (a rollback drops one checkpoint at most: `CommitExtendsStored`; the loop never waits on nothing
and recycles what it aborts: `OnePlaceEach`, `RolloutsEnd`; no update in the middle of a rollout:
`StalenessBounded`; the data source resumes where the actor does, and the critic is not ahead: `RestartsTogether`).

### Bounds, and why they suffice

* `sessions`: sessions share nothing but the registry, so one session carries the interleavings; a second
  client is what makes a stored version stale, and with requests of up to two assistant turns a session can
  be rolled back and grow again to the same `num_assistant` under another history, the case the version
  comparison alone would miss. The tokenizer keeps every boundary (`MaxTrim = 0`); for one that trims, and for
  a queue of several clients behind a handler, there are the theorems on the safety properties.
* `recovery`: `MaxGen` bounds crashes (an incarnation below it may crash), not restarts; three incarnations let a
  replacement die as well. Two nodes per engine separate the kills of one engine. The one group is
  colocated, offloaded on its own GPUs, or neither; for several groups, whose monitors and engines meet in
  the loops of `recover` and in one manager, there are the theorems.
* `rollout`: two groups wanted, or one with another on its way, give every order of finishing, keeping,
  dropping and aborting; two tokens are a cut before, inside and after a response; three rollouts recycle a
  sample twice, the least that distinguishes masking once from masking always; two samples on one permit make
  one wait while the other is aborted or raises. `rollouts` ends the run, `drops` bounds what the filter
  rejects, `failures` what raises. `silent` is FALSE throughout (section 6 says why).
* `train_loop`: five rollouts cover save intervals 1-3 with the last rollout on and off the grid, update
  intervals 1-3, archives of every other save and a warmup of up to two; three crashes restart a job that was
  itself restarted; batches of 2 from 3 prompts wrap in every way. Left out: warmup saves of an offloaded
  actor, which `warmup_save` is about, and `keep_old_actor` with offloading (section 6).
* `weight_update`: two stages that broadcast to two engines are the least that can wait for each other, for the
  lock and before it, while they connect: they do so in the first update, and again when an engine was
  replaced (with one parameter a stage, which is enough for that); three
  buckets, among them one of a parameter larger than the buffer, are closed by size and by the end; an
  expert in two buckets is the least that must be fused; two sources and two GPUs per engine distinguish
  ranks, sources and turns of the pinned buffer; a second update finds stale versions and a restarted engine. The plans (`PlanLines`) are those of one to four
  sources, one to three engines of one or two GPUs, and of buffers from 0 to more than every parameter.
* `serving`: two failures in a row are the threshold, so that one is forgiven; a tree of three entries over
  its size is collected while a request that read it is under way.
* `training_data`: samples of 2 to 17 tokens are shorter, equal and longer than the 2 `cp` chunks of two and
  three peers, with responses that end in the first, second or last one, are all of a chunk, or empty; four
  samples on two ranks give equal and unequal micro-batches and one left over.

`CHECK_DEADLOCK FALSE` stands where the system may stop: the recovery models when training has failed, the
train loop when the job has ended, training data when the last step is taken. `JobEnds` and `TrainingEnds`
exclude one that is stuck.

### Fairness

* `SessionServer!FairSpec`: weak fairness of each handler's step. The event loop runs every ready coroutine;
  a lock that is handed to a waiter is taken; a body arrives or its connection breaks, and the HTTP client
  answers or fails. No client is obliged to send anything. Between answering and failing nothing is assumed.
* `EngineRecovery!FairSpec`: weak fairness of the manager's chain and of each monitor thread. Crashes, and
  the monitors' verdicts, are free.
* `RolloutGenerate!FairSpec`: weak fairness of the main coroutine and of the tasks together: engines and
  reward models answer or raise. Nothing is assumed of the filter; `drops` says it rejects finitely often,
  without which a rollout need not end, in the code as in the model.
* `TrainLoop!FairSpec`: weak fairness of the job's steps together. A crash never has to happen.
* `WeightUpdate!FairSpec`: weak fairness of ranks, engines, barriers and writes together. That an update is
  asked for, an engine restarts or serves, is free.
* `Router!FairSpec`: weak fairness of the health checks, of each request's handler, and of the worker's answer
  to each client (an answer or an error of the connection). No client has to leave, no worker has to crash
  or to come back.
* `TrainingData!FairSpec`: while some rank can go on, steps are taken (weak fairness of `Next`, with its
  enabling condition `Met` spelled out). Which rank goes on is not assumed.

## 4. Proofs

Eight modules prove theorems. Six are about specifications, for every value of the constants: any numbers of
sessions, clients, groups, engines, nodes, workers, ranks, parameters and rollouts, any set of admitted command
lines, and with no use of the bounds on crashes, restarts and failures. Each of these proofs has the same form:
an inductive invariant, one lemma that it holds initially, one (with a step per action) that every step keeps it,
and what follows. `TrainingDataProofs` is about operators, and `DataInduction` has the lemmas about data.
The properties named here are those the runs check; a run shows one on a small instance and, with its mutant,
that it depends on the code. Hypotheses other than the modules' own assumptions are given with each.

### SessionServerProofs

* `TypeCorrect`: `[]TypeOK`. The inductive invariant is `TypeInv`: `TypeOK`, and `HandlersFormed`, that a handler
  under way has a session and one waiting for phase 3 has a completion. Without the latter the step that
  stores `reply[1]` as an assistant message would not keep the types.
* `CheckpointsStayAligned`: `[]CheckpointsAligned` when `FewShot = FALSE`, i.e. the first request of a session
  holds no assistant message. `CheckpointsAligned` is not inductive: a commit stores the messages the request
  was prepared with, so it needs `RequestsAligned`, that a request in the backend carries as many assistant
  messages as the version (`expected`) it was prepared against. Phase 3 commits only when that version is
  the current one, hence messages, token checkpoints, records and `num_assistant` grow together. For a
  rollback, the messages kept end at the last matched assistant, and `RollbackMessages` shows that they contain
  exactly the matched ones, as many as the checkpoints kept.
* `RemovedStaysFrozen`: `RemovedIsFrozen`, from `FrozenInv`: a handler in one of its locked parts holds its
  session's lock (`BodyHoldsLock`), and nobody holds the lock of a session that is out of the registry
  (`RemovedIsUnlocked`). Every handler checks `closing` after it got the lock, a removal sets it under the lock.
* `RecordsStayChained`: `[]RecordsFormChain` (`FewShot = FALSE`), from `ChainInv`: checkpoint k holds the tokens of
  k answers (`Counted`), each record's prompt extends the one before it up to `MaxTrim` tokens (`Chained`), and
  the prompt of a request in the backend holds as many answers as its version, `expected` (`RequestsCounted`).
  So an answer that passes the prefix check was not prepared on fewer tokens than the last checkpoint has.
* `TokensAreTheMessages` and `CommitsExtend`: `[]TokensMatchMessages` and `CommitExtendsStored`, when also
  `MaxTrim = 0 \/ ~Truncation`. Their invariant, `TokensInv`, adds `SpellInv`: the stored messages end with an
  answer, the tokens of a checkpoint spell them up to its answer, and those of a request's prompt spell the
  request's messages. The heart of it is a session rolled back while a request was out, which grew again to
  the same number of answers with other messages: the version is the one expected, the history is not. What
  saves it is that the answer's prompt is compared with the last checkpoint's tokens; where they agree, so do
  the messages they spell, hence what is committed continues what is stored.
* `SessionsMakeSamples`: `[]SessionMakesSample` under the same hypotheses and `AgentsAsk`, that every request ends
  with a message of another role than the assistant's. Whenever an agent is done, `collect_records` can be made
  into samples. They merge if and only if no turn but the last was truncated, and are then the session's tokens
  with exactly what was said trained on. Cut at any length, they are the beginning of the session, and merge
  under the same condition and one more: if there are rows of routing, the last of several turns is whole.
  Where the condition does not hold an assertion of the code fails (section 6).
  `SpokenInv`, added to `TokensInv`, says that every record is an answer to such a
  prompt. Then, for the records of a state: a prompt goes beyond the answer before it and has no assistant's token
  there (`PromptLinked`: its assistants' tokens are as many as the checkpoint's), so each prompt is a beginning of
  the session's tokens (`RecordsThreaded`, by induction from the last record), of each answer all but `MaxTrim`
  tokens are in them (`AnswersKept`), and the samples of the records are turns, each beginning after the end of the
  one before (`RecordsInTurns`). The fold that merges is unrolled into a function of its steps (`MergesExist`);
  by induction the first k turns merge (`NextTurnMerges`, `TurnsMergeInto`, `TurnsMerge`), as long as each before
  the last is completed, and a step that fails leaves nothing to the steps after it (`MergeStops`). What a merge
  of turns trains on is `TurnsTrain`; `TurnsCut` says what a cut leaves of the turns and `CutMerges` when it merges.
  `AgentsAsk` stands for the generation prompt that the code puts between two answers and the model's tokens
  leave out: without a token in between, the merge would refuse two turns.

Neither of the first two hypotheses can be dropped: section 6 gives a counterexample to each.

### EngineRecoveryProofs

* `NewEnginesAreAnnounced` and `ServingEnginesAreUpdated`: `[]NewEnginesAnnounced`, `[]ServingIsUpdated`.
  `num_new_engines` is overwritten, not increased, by each `start_engines`: a restart that finds nothing dead
  sets it to 0. That is harmless only because at that moment the trainer knows every engine of the group. The
  inductive invariant says so: a group is known (the trainer's `targets` hold all its live leaders) or counted
  (`UnknownCounted`); the groups recovery has yet to visit are known, as is every group from a connect up to the
  next recovery (`KnownByPhase`); and from a push to the end of the rollout the engines that were loaded are the
  targets (`PushedToTargets`). Before the first rollout nothing is known, and recovery is skipped there
  (`rollout_id = -1`). Monitors disturb none of it, because all they do to the slots is to empty them
  (`MonitorEffect`).
* `MonitorsKillWhatTheyChecked`: `[]KillsWhatItChecked`, from `RoundInv`: in the slots a round has yet to visit, its
  copy is empty or the present occupant (`CopyStands`), and while it shuts one down, its copy of
  that slot is empty or the actor it checked (`VictimStands`). Only the group's own monitor empties its slots, one round after another, and recovery, which
  fills them, fills the empty ones only.
* `SharedMemoryFollowsPhase`: `[]MemoryFollowsPhase`, from `MemoryInv`, which says phase by phase what the live leaders
  of a group that is offloaded (`args.needs_offload`, which no step changes: `ArgsKept`) have in memory. It needs that recovery goes on only where its
  two counts agree, the assertion of `rollout.py:304`.

### RolloutGenerateProofs

The invariant is `GroupsInv`: types, where the loop is (`OrderInv`), the seven places of a group (`PlacesInv`,
`AliveInv`) and, for each sample, what its status, response, mask and reward have to do with where its task is
(`SamplesInv`).

* `GroupsInOnePlace`: `[]OnePlaceEach`, for both implementations: the groups fetched are pending, done, in the
  data, to be retried, aborted, in the buffer or accounted for, each in exactly one of them and once.
* `DeliveredIsComplete`: `[]DeliveredComplete`.
* `OnlyOnPolicyIsTrained`: `[]OnlyOnPolicyTrained`, for command lines where a masked partial rollout is one of
  `sglang_rollout`; `single_turn.py` does not extend the mask (section 6).
* `TokensFollowEachOther`: `[]TokensFollow`, where every token decodes to some text. With a `silent` token the
  property fails (section 6).

### TrainLoopProofs

Two invariants. `DriverInv` needs no hypothesis: it ties `rollout_id`, `curr`, `next` and the lengths of the
histories to `pc` (`StageInv`, `BatchInv`, `HistoryInv`), and says who is on the GPUs (`MemoryInv`), in which order
checkpoints, data source and archives reach the disk (`OrderInv`, `CriticInv`) and what an archive holds. A
crash is a step of it like any other, because the invariant speaks of `disk` in every state. From it follow
`RolloutsTrainedOnce`, `MemoryIsExclusive`, `ArchivesStayPaired` and `RestartsGoTogether`.

`ModelInv` adds what the memory, the backups and the engines hold (`WeightsInv`, `AgeInv`, `OldActorInv`), under the
hypothesis `SavesAwake`: no actor is saved while it sleeps through the critic's warmup with its memory
lost. The run `warmup_save` is the counterexample without it. From it follow `TrainersAlwaysReady`,
`CheckpointsAreTrained`, `DataIsFresh` and `OldActorIsGenerator`.

### WeightUpdateProofs

For every sequence of command lines and models. The assumption on them (`IsConfiguration`): a model has parameters,
with sizes and without two of one name in a stage, and over "tensor" an engine that shares its GPUs has the rank of
its number.

The first part is about pure algorithms. `BucketsFill` and `PlanFills` turn the folds of `Bucketed` and `plan_p2p`
into a sequence of steps; `BucketsAre` then shows by induction over the parameters that the buckets have all that
are wanted, each once, wherever the buffer is full; `RestGiven` and `PlanIs` that each target is given to a
source, none is taken away, and a source is without a target only where there are fewer targets than sources.
`RanksAre`, by `PlacesFilled`, shows that the order of the turns leaves out no rank of a source's targets, and
`RanksCover` that each copy of each stage is a rank. `PlansHold` puts them together, for each transport.

The second part is about the ranks, the lock, groups, barriers, calls, sessions, staging, the pinned buffer, writes,
failures and restarts in any order. `UpdateInv` is inductive. Its parts, beside `PlansCover`, each with a lemma for its step: `PhaseInv` (barriers keep the ranks in one of
three phases, and `Placed` at a bucket and a turn), `VersionInv` (versions of the ranks differ by the one that
has prepared), `SendInv` and `InboxInv` (a call in an engine's inbox is one its sender waits for, with the bucket
the sender is at, and there once), `CallsInv` and `EngineInv` (which engines are paused, flushed, open and announced
at each call of rank 1), `DeliveryInv` (a bucket behind a rank has been loaded by all its receivers) and, for
transfers, `TransferInv`: each parameter a source has come to is staged, still to be loaded into the pinned
buffer, on its way in a write, or there, and a write under way finds in the buffer the shard it was
submitted for. That last one is what awaiting the writes of a turn before the next is for, and it holds until
a write fails (`Intact`). `SentArrives` puts these together at the last barrier.

* `BucketsAndPlansCover`: `[]PlansCover`.
* `UpdatesReachEngines`: `[]UpdateTakesEffect`: weights come to an engine in its session only (`LoadsAreSent`: a
  load that is handled is one its sender waits for), and after an update every engine announces the new version,
  is neither paused nor in a session, and holds the new weights if no write failed.
* `CachesAreFresh`: `[]CachesFresh`.
* `UpdatesServe`: `ImplementsService`, the refinement of `WeightService`. `Prepare` of rank 1 is `Advance`,
  `"continue"` handled by an engine is `Resume`, a restart between updates is `Restart`, and every other step,
  the loss of a write included, is `Suspend` of some engines or of none.

### RouterProofs

* `LoadsAreActive`: `[]CountsAreActive`, from `LoadInv`: the count of a worker is the number of requests between
  choosing it and its answer, and the `leaked` ones. The argument is about cardinalities: each step adds a
  client to one worker's set, takes one from it, or neither.
* `CacheIsSound`: `CacheSound`, for all texts, tokenizers, limits and numbers of updates, from `CacheInv`. The tree
  is `Shaped` (whatever is above a node is in it, and no key is empty), its counters are those of what it holds
  (`CountersAgree`), with a tokenizer that merges nothing the tokens of a node are the characters of its key
  (`Spelled`), and nodes without a version are at the top only (`Versioned`). The last one is why a collection is
  safe: below a node that is outdated and passed the validation each node has a version and one no newer than
  its parent's, so whatever goes with it is old. A request keeps the tokens it looked up, which spell its text
  (`RequestKept`), over its tries while other requests extend and collect the tree; `insert` goes down the tree as
  it is then, and `WalkIs` shows that what is left of the text is the key of no node yet, `AlongIs` that the
  tokens it skips on the way spell the text it skips. With a tokenizer that merges the texts of nodes and their
  tokens disagree, as they do in the code, and only the rest of the property is claimed.

### DataInduction

Induction over data. The library's induction theorems take the induction hypothesis as an operator, which the
provers cannot instantiate. Its fact about well-founded relations (`WFMin`) takes a set: it gives `LeastNumber`,
and that `Induction` and `Recursion` over the natural numbers, `SequenceInduction` and `SubsetInduction`, all
stated of sets and functions. With them: what `FlattenSeq` does to a sequence with one more element
(`FlattenAppend`), to two sequences joined (`FlattenConcat`), and how long its result is (`FlattenLength`); that the
functions that folds over finite sets and over sequences are defined by exist (`FoldsExist`, `FoldLeftExists`; for
sums `SumsExist`), that all that sum agree (`SumsAgree`), so that a sum over a set is that over a part and that over
the rest (`SumSplit`); and that the elements of a finite set can be numbered by the order of their keys
(`PlacesFilled`).

### TrainingDataProofs

About operators, not a specification: what the algorithms that `TrainingData` is built from compute for every
input. The run evaluates them on a few samples; the cases that matter (a chunk that ends in the prompt, inside the
response, in the padding, or holds nothing; a row whose last chunk is partial; sums that are equal) depend on
arithmetic that no small set of lengths exhausts.

How a sample is divided over the peers of context parallelism, for every length, padding (`span`, at least `total`)
and number of peers. A sample has a prompt (`response < total`), as every sample that is trained on has.

* `ResponseIsShared`: each logit that predicts a response token is exactly one peer's, in one of its two chunks;
  a peer has no others. Chunk `k` goes to peer `k` or to `2 * cp - 1 - k`, and `ChunkOfPosition` finds the chunk
  of a position by division.
* `MaskGoesWithValues`: masks are cut by offsets of tokens and values by offsets of logits, at the same places.
* `ValuesComeBack`: of what the peers put back with `local_response_to_full`, each position has its value from one
  peer and zeros from the others. That the all-reduce, a fold over the peers, then yields the response stays with
  the runs.
* `LogitsMeetNextTokens`: `get_responses` (with more than one peer, the zigzag layout) pairs each logit with the
  token after it, and leaves out none that the peer has; the stream may go on behind the sample.

Advantages, for all rewards, values, discounts and lengths, in integers (the algorithms are sums of products).

* `ChunksDoNotMatter`: `chunked_gae`, a scan over the reversed row in chunks of any size, is `gae`, the sum over the
  steps that follow (`vanilla_gae`). `Scanned` is what the scan has after any number of places; a chunk adds its own
  sums and the power of the last state (`ScanIs`), also when it is the last one and partial. Sums are folds and
  powers are recursive functions: `SumSteps` and `PowerSteps` give their recurrences.
* `AdvantagesByDefinition`: in a batch every row is padded to the longest, scanned and cut again; its advantages are
  those of its own row, whatever the other rows, the padding and the chunk size. The zeros behind a row have no
  delta but the last value's (`Ahead`, `Behind`), which is why the cut is right.
* `RewardDiscountedFromLast`: the returns of REINFORCE++ are the reward, discounted from the last token that is not
  masked back to each token, and nothing behind it.

Partitions, for all lengths.

* `PartitionsShareOut`: `get_seqlen_balanced_partitions` gives `k` parts, none of them empty, each in increasing
  order, with every sample in one place and no other; equal parts are equal. So the assertions in
  `_check_and_sort_partitions` and at the end of `karmarkar_karp` hold whenever the two on the arguments do. That no
  part is empty is not obvious, since states merge sets with nothing in them: `Thin` is the invariant of a state
  that has it, that as long as one of its sets is empty none has two items. A sort is an arrangement by an order of
  the places (`Arranging`), for which `__lt__` must be one on the sets of a state (`BelowOrders`); two states
  without a common item merge to one with the items of both (`MergeKeeps`), and the heap loses one state with each
  step (`WithNextKeeps`, `DifferencedIs`).
* `FirstFitIsServed`: first fit asks for at least one micro-batch and no more than there are samples, so that the
  assertion on the number of items holds for what it asks (ranks have the same number of samples, so also for the
  largest number of all ranks).

### Model-checked only

* Liveness (`RequestsAnswered`, `DeadReplaced`, `RolloutsEnd`, `JobEnds`, `UpdateEnds`, `RequestsEnd`,
  `TrainingEnds`): the prover does not handle fairness and `ENABLED`.
* The properties of `TrainingData` as a specification (`EachTokenOnce`, `AdvantageByDefinition`, `LossIsMean`,
  `OnlySaidIsTrained`, `RoutedAsRecorded`): they put all of its operators together, over the meetings of the ranks.
  Four of them find a token by its `Code`, which is unique below a hundred tokens a sample: true of the setups,
  not of every value of the constant.
  The operators themselves are proved, except for whitening, replay, the padded and all-gathered layouts and the
  conversations.

## 5. What is not modelled

* Session server: the catch-all proxy route reads only. Contents of messages, template resolution and the
  tokenizers' special tokens are data.
* Engine recovery: `dispose`, the fault injection of CI, servers that receive no weights, and the rendezvous
  of an engine's nodes inside SGLang: the model shows slots and actors, not whether two nodes find each other.
* Rollout generation: evaluation, and custom generate functions that return several samples for one.
* Generate functions: the sandbox that runs tools, `sft_rollout`, `sleep_rollout` and the benchmarkers.
* Train loop: evaluation, memory logging, checks of `--ci-test`, `--rollout-global-dataset` off, saves at
  epoch boundaries, an `--offload-rollout-level` other than the default, offloading of one side only, custom
  starting points (`--start-rollout-id`, `--load` of a foreign checkpoint). The push of weights is one step
  there; `WeightUpdate` is what is inside. An archive appears in one step, so failures of the file system
  between the copy to `.tmp` and its rename are not seen. The buffer of recycled groups is in `RolloutGenerate`
  only.
* Weight transfer: the gathers over tensor and expert ranks, hooks of quantisation, LoRA adapters, servers with
  placeholder groups. Of weights after a write that failed only
  `VersionIsHeld` says something, which the run `stale_registry` refutes.
* Router: the catch-all route's headers and streaming; removal and clearing of the tree, which nothing calls.
* Training data: custom conversions, multimodal inputs, the penalty for overlong answers; the terms of the
  losses, entropies and log-probs themselves, which are floating point, and with them the kernels of
  `miles/true_on_policy` and `miles_plugins`; a step that is skipped for a broken gradient; schedulers.
* No state of their own, or none a model checker reaches: conversion of the names and shapes of parameters
  (tables per model family), the experimental FSDP backend, reward models and filters (functions of texts,
  whose verdicts are choices), the HTTP client (its retries and errors are steps of its callers), the
  validation of the command line (its assertions are assumptions on configurations), allocation of placement
  groups, tracking, metrics, profiling, recipes, tests. These are most of the repository's lines: its longest
  files are options, tests, model definitions, kernels and tables.

## 6. Disagreements and observations

### With a run whose counterexample shows it

* `recover_counts`: `pause()` does not wait for a kill under way; one that empties a slot between `recover`'s
  list of dead engines and `start_engines`' own search makes the assertion at `rollout.py:304` fail.
* `warmup_save`: the actor sleeps through the critic's warmup. A save in it wakes the actor's memory
  (`actor.py:582-595`) without restoring the weights from the backuper, as `train_actor` does, so the
  checkpoint a restart goes on from holds zeroed pages.
* `stale_registry`: the registry of addresses is made once and kept when a source connects again
  (`_model_registered`, `p2p.py:115`), so writes to an engine that was replaced fail. `wait_transfers` logs that and
  the update goes on (`p2p_transfer_utils.py:176-182`), though `p2p.py:99` says "Wait for all background P2P writes
  to complete here." The engine is then told the new version, at `p2p.py:120` "because the engine was not aware that
  the write has happened", and serves the weights of its checkpoint under it (`VersionIsHeld`). A write that fails for
  another reason does the same.
* `collects_below`: `_find_outdated_nodes` removes nodes at the threshold too (`<=`, `radix_tree.py:492`), where the
  docstrings (lines 112, 442, 478) promise to remove those below it. `CacheSound` holds of the code's reading.
* `training_reward`: with context parallelism the terminal reward of PPO is added to the end of the first
  peer's piece (`loss.py:791`), which is the end of the response only if its last chunk holds it.

### Read in the code while modelling, without a run

Sessions and generation:

* `_try_detect_and_rollback_to_assistant_checkpoint` takes the assistant messages of the stored list for
  checkpoints. After a first request that contains answered examples there are more of the former, and a
  rollback (`linear_trajectory.py:231-234`) shortens the messages and keeps all tokens (`FewShot = TRUE`).
  An agent that lost the answer of its first turn and sends the request again is rejected (line 205).
* With `MaxTrim = 1` and truncated completions a rollback and a commit may bring back the same
  `num_assistant` under another history whose tokens differ in the trimmed one only.
* `generate` decides by the *text* of a response whether tokens exist (`sglang_rollout.py:190-198`). A sample
  aborted after tokens without text is sent again from its prompt, its old tokens stay, and the budget can go
  below 0, which the assertion there excludes. Setting `silent` makes `TokensFollow` fail.
* `single_turn.py:44-50` does not extend a `loss_mask` that a partial rollout set, so a continued sample fails
  the assertion on its length in `rollout.py:887`.
* A truncated answer after which the agent asks again makes `merge_samples` fail: it asserts of every sample but
  the last that it is `COMPLETED` (`sample_utils.py:46`), and `agentic_tool_call.py:115-125` merges whatever
  the session recorded. `--generate-multi-samples` does not merge and is not concerned.
* `_truncate_sample_output` cuts tokens, mask and log-probs, and leaves `rollout_routed_experts`: when the last of
  several turns is cut, `validate` (`types.py:180`) fails in the merge. `SessionMakesSample` states this and the
  former exactly. `unified_generate` does not pad the rows after the response of a tool.
* A `POST /sessions` that is retried leaves a session behind.
* The group norm of rewards falls back to the whole batch when the number of samples is not that of whole
  groups (`rollout.py:812`).

Engines and their recovery:

* A monitor clears its first-wait flag (`health_monitor.py:127`) after reading the pause event, so a pause and
  resume in between lose the wait; `pause()` does not wait for a check under way, which can meet an engine
  whose memory was just released. The nodes of an engine are killed one by one (line 161), and recovery in
  between restarts some of them only. A `None` handle among the engines the trainer connects to
  (`actor.py:694`) ends the training.
* Server groups that do not start at a node boundary are given wrong hosts and ports (`rollout.py`,
  1016-1108), and the cursors of ports begin anew with each model.

Training loop:

* With `--keep-old-actor` and an update interval above 1 in `train_async.py`, the rollout started before an
  update is compared with the weights pushed after it (`actor.py:740`); for an interval of 1 the queue of two
  makes up for the delay (`OldActorGenerated`), and `train.py`, where there is no delay, uses it too and is
  one version behind.
* With `--keep-old-actor` and offloading, `backup("rollout_actor")` reads the sleeping actor's paused memory;
  and with offloading and `--compute-advantages-and-returns` off, `train_actor` never restores the weights.
* An archive under `--async-save` is made only at the last save, which is forced to be synchronous. A crash
  between the two saves leaves an archived actor without its critic.
* `--megatron-to-hf-mode bridge` sets the first rollout to 0, so that a resumed job counts from 0 again.
* The buffer of recycled groups is not saved (`data_source.py:162`); `get_samples` returns fewer prompts than
  asked for when they span more than two epochs (line 99); the early stop (`train.py:111`) ends the loop
  without a save.

Weight transfer:

* With the tensor transport the engines on GPUs of their own are neither paused nor flushed; the groups that
  gather handles are not rebuilt; LoRA's flags outlive the engines they are about.
* Broadcast: the sources of the stages connect to the engines at the same time and without the lock
  (`broadcast.py:66-73`). An engine handles one call at a time, so two engines that hear of two stages in
  different orders wait in two rendezvous that neither can complete, until those time out. `Crossed` is that
  state, and `UpdateEnds` names it as the only one an update hangs in; no document promises that it does not.
  Nor does broadcast pass on the engines' GPU counts.

Router:

* A client that leaves while its body is awaited keeps the worker's count raised (`leaked`).
* `weight_version` is a string at its source: collection compares it with a number, and the `TypeError` is
  swallowed. An extension at a newer
  version below an old node makes the validation's assertion fail. `_insert` skips as many tokens as the
  matched nodes hold, whatever the text.
* A dead worker that registers again stays in quarantine; `SGLangEngine.shutdown` posts to `/remove_worker`, a
  route that does not exist; `"RadixTreeMiddleware" in args.miles_router_middleware_paths` never holds of dotted
  paths.

Training data:

* With a virtual pipeline the number of micro-batches is rounded down (`data.py:413`) and then exceeds
  `max_tokens_per_gpu`; balancing with first fit's number of batches can exceed it too (4, 5, 3, 3, 3 with a
  limit of 9).
* An empty response takes `tokens[-0:]`, all of the sample. `train_data` has log-probs and routing if the first
  sample has them, and raises when it has none but others do, or the reverse.
* `reinforce_plus_plus` asserts on a sample that is masked entirely (the model ends in `"raised"`); PPO with the
  padded layout and context parallelism pairs rows of different lengths; on-policy distillation with it compares
  the whole of the teacher with a piece of the student.
* The scheduler steps by `global_batch_size` when the batch is dynamic; `env_error` is not split over the ranks.
* Routing replay has no branch for the all-gather layout, and together with `use_rollout_logprobs` nothing is
  recorded and the first pop raises (the model ends in `"raised"`); the critic's process neither
  records nor clears.

## 7. Plan

Done: all components with concurrent state, their composition where they share it (sessions with samples,
the router with its tree, rollouts with training data), one refinement; every safety and action property of the
session server (with the samples made of sessions), the recovery, the rollout, the train loop, the weight update
(with its buckets and plans) and the router proved, and of the conversion to training data the arithmetic of context
parallelism, the advantages and the partitions.

To be proved next: the properties of `TrainingData` for batches that are dealt out in turn, from the theorems about
its operators.

To be modelled if there is room: evaluation beside a rollout in `GenerateState`, the file operations of the
archive one by one, saves at epoch boundaries, and an append-only log per session as the abstract
specification of `SessionServer`.
