---------------------------- MODULE WeightUpdate ----------------------------
(***************************************************************************)
(* The update of the weights of the rollout engines after a training step  *)
(* (MegatronTrainRayActor.update_weights and the weight updaters under     *)
(* miles/backends/megatron_utils/update_weight).  Every trainer rank runs  *)
(* the update: rank 1, the rank 0 of the code, pauses the engines and lets *)
(* them go on; the sources send buckets of parameters                      *)
(*   - "broadcast": each over a group it forms with the engines, one group *)
(*     at a time, under a lock;                                            *)
(*   - "p2p": each writes from a pinned buffer into the memory of engines; *)
(*   - "tensor": each to the engine on its GPUs, and rank 1 also over a    *)
(*     group to the engines that have GPUs of their own.                   *)
(* An engine is a Ray actor that handles one call at a time.               *)
(***************************************************************************)
EXTENDS Integers, Sequences, FiniteSets, SequencesExt, TransferPlan

CONSTANT Configurations   \* a sequence of command lines and models

(***************************************************************************)
(* A configuration: stages, the pipeline stages; copies, the ranks of a    *)
(* stage that hold its parameters and send them; engines, and gpus of      *)
(* each; distributed, the engines with GPUs of their own ("tensor");       *)
(* params, per stage the parameters in order, each with its size, whether  *)
(* it belongs to an expert and the parameter of the engine it is fused     *)
(* into; buffer, update_weight_buffer_size; in_place, the pause mode.      *)
(* The bounds: updates, restarts of engines, failures of writes.           *)
(***************************************************************************)
AllOf(c) == UNION {ToSet(c.params[s]) : s \in 1..c.stages}

IsConfiguration(c) ==
    /\ c.transport \in {"broadcast", "p2p", "tensor"}
    /\ {c.stages, c.copies, c.engines, c.gpus} \subseteq Nat \ {0}
    /\ {c.buffer, c.updates, c.restarts, c.failures} \subseteq Nat
    /\ c.in_place \in BOOLEAN
    /\ c.distributed \subseteq 1..c.engines
    /\ c.params \in [1..c.stages -> Seq(AllOf(c))] /\ AllOf(c) # {}
    /\ \A p \in AllOf(c) : p.size \in Nat /\ p.expert \in BOOLEAN
    /\ \A s \in 1..c.stages : \A i, j \in DOMAIN c.params[s] :
           c.params[s][i].name = c.params[s][j].name => i = j
    /\ c.transport = "tensor" => (1..c.engines) \ c.distributed \subseteq 1..(c.stages * c.copies)

ASSUME UpdateAssumption == \A i \in DOMAIN Configurations : IsConfiguration(Configurations[i])

VARIABLES
    line,             \* the configuration is Configurations[line]
    weight_version,   \* per rank: of its updater
    updating,         \* an update has been asked for and is not over
    new,              \* num_new_engines > 0
    restarts,         \* engines started anew so far
    failures,         \* writes that failed so far
    rank,             \* per rank: where it is, see RankInit
    locked,           \* rollout_engine_lock
    inbox,            \* per engine: the calls it has to handle, in order
    joined,           \* per engine: the ranks whose group it is in
    group,            \* ranks that have a group (_model_update_groups)
    engine,           \* per engine: what it holds, see EngineInit
    calls,            \* what rank 1 has to call on the engines, in order
    waiting,          \* engines that have not answered the first of calls
    pinned,           \* per rank: the pinned buffer, per name <<version, gpu>>
    staged,           \* per rank: names that wait for the rest of their parameter
    registry,         \* per rank: "none", "current" or "stale"
    writes            \* the writes submitted and not done

vars == <<line, weight_version, updating, new, restarts, failures, rank, locked, inbox, joined,
          group, engine, calls, waiting, pinned, staged, registry, writes>>
sendVars == <<locked, inbox, joined, group>>
p2pVars == <<pinned, staged, registry, writes, failures>>
callVars == <<calls, waiting>>
driverVars == <<line, weight_version, updating, new, restarts>>

args == Configurations[line]

Ranks == 1..(args.stages * args.copies)
Engines == 1..args.engines
Gpus == 1..args.gpus
StageOf(r) == ((r - 1) \div args.copies) + 1
CopyOf(r) == ((r - 1) % args.copies) + 1

Params(r) == args.params[StageOf(r)]
AllParams == AllOf(args)
NamesOf(ps) == {p.name : p \in ps}

(***************************************************************************)
(* Buckets.                                                                *)
(***************************************************************************)
Filling(closed, open, size) == [closed |-> closed, open |-> open, size |-> size]

\* Parameters are added up; one that does not fit goes into the next bucket.  Where
\* the code is guarded, a bucket that is closed has something in it.
AddParam(b, p, buffer, guarded) ==
    IF b.size + p.size > buffer /\ (guarded => b.open # {})
    THEN Filling(Append(b.closed, b.open), {p}, p.size)
    ELSE Filling(b.closed, b.open \cup {p}, b.size + p.size)

\* BUG: the bucket that is open at the end is forgotten.
BucketedButLast(params, kinds, buffer, guarded) ==
    FoldLeft(LAMBDA b, p : IF p.expert \in kinds THEN AddParam(b, p, buffer, guarded) ELSE b,
             Filling(<<>>, {}, 0), params).closed

\* The parameters of experts, of the others, or of both.
Bucketed(params, kinds, buffer, guarded) ==
    LET all == FoldLeft(LAMBDA b, p : IF p.expert \in kinds THEN AddParam(b, p, buffer, guarded) ELSE b,
                        Filling(<<>>, {}, 0), params)
    IN  IF all.open = {} THEN all.closed ELSE Append(all.closed, all.open)

\* The first parameter may close an empty bucket.
NonExpertBuckets(c, params) == Bucketed(params, {FALSE}, c.buffer, FALSE)

ExpertBuckets(c, params) == Bucketed(params, {TRUE}, c.buffer, TRUE)

\* get_param_info_buckets: every rank iterates over the parameters of all stages.
TensorBuckets(c) ==
    Bucketed(FlattenSeq(c.params), BOOLEAN, c.buffer, TRUE)

\* What is the same in every update: the buckets of a stage, and whom a copy
\* writes to.
BucketPlans ==
    [i \in DOMAIN Configurations |-> LET c == Configurations[i] IN
        [s \in 1..c.stages |->
            IF c.transport = "tensor"
            THEN [non_expert |-> TensorBuckets(c), expert |-> <<>>]
            ELSE [non_expert |-> NonExpertBuckets(c, c.params[s]),
                  expert |-> ExpertBuckets(c, c.params[s])]]]

WritePlans ==
    [i \in DOMAIN Configurations |-> LET c == Configurations[i]
                                         given == plan_p2p(c.copies, c.engines, c.gpus) IN
        [d \in 1..c.copies |-> [targets |-> given[d], turns |-> RanksOf(given, d, c.gpus)]]]

Planned(r, part) == BucketPlans[line][StageOf(r)][part]

Buckets(r) == Planned(r, rank[r].part)

Bucket(r) == Buckets(r)[rank[r].bucket]

(***************************************************************************)
(* Ranks and engines.                                                      *)

\* unsent: the calls <<engine, kind>> it has still to make; unanswered: the
\* engines it waits for; names: what it writes; turn: of the ranks of engines it
\* writes them to, the one it is at.
RankInit == [pc |-> "idle", part |-> "non_expert", bucket |-> 1, unsent |-> {}, unanswered |-> {},
             names |-> {}, turn |-> 1]

\* weights: per gpu and name the version, and the gpu whose shard it is.
EngineInit ==
    [paused |-> FALSE, session |-> FALSE, announced |-> 0, cached |-> {},
     weights |-> [x \in Gpus \X NamesOf(AllParams) |-> <<0, x[1]>>]]

\* The engines a rank broadcasts to.
Receivers(r) ==
    CASE args.transport = "broadcast" -> Engines
      [] args.transport = "tensor" /\ r = 1 -> args.distributed
      [] OTHER -> {}

\* The engine on the GPUs of a rank; rank r is the source of its gather group.
IpcEngine(r) == IF args.transport = "tensor" /\ r \in Engines \ args.distributed THEN {r} ELSE {}

\* The targets of a rank, <<engine, gpu>>.
Targets(r) == WritePlans[line][CopyOf(r)].targets

\* The ranks of engines it writes to, one after the other.
TargetRanks(r) == WritePlans[line][CopyOf(r)].turns

\* The engines the pause and the flush are for.
Paused == IF args.transport = "tensor" THEN Engines \ args.distributed ELSE Engines

Goto(r, pc) == rank' = [rank EXCEPT ![r].pc = pc]

Init ==
    /\ line \in DOMAIN Configurations
    /\ weight_version = [r \in Ranks |-> 0] /\ updating = FALSE /\ new = TRUE
    /\ restarts = 0 /\ failures = 0
    /\ rank = [r \in Ranks |-> RankInit]
    /\ locked = FALSE
    /\ inbox = [e \in Engines |-> <<>>]
    /\ group = {}
    /\ joined = [e \in Engines |-> {}]
    /\ engine = [e \in Engines |-> EngineInit]
    /\ calls = <<>> /\ waiting = {}
    /\ pinned = [r \in Ranks |-> [n \in NamesOf(ToSet(Params(r))) |-> <<0, 0>>]]
    /\ staged = [r \in Ranks |-> {}]
    /\ registry = [r \in Ranks |-> "none"]
    /\ writes = {}

(***************************************************************************)
(* Between the updates.                                                    *)
(***************************************************************************)
\* The driver has every rank update the weights.
CallUpdate ==
    /\ ~updating /\ weight_version[1] < args.updates
    /\ updating' = TRUE
    /\ rank' = [r \in Ranks |-> [RankInit EXCEPT !.pc = "called"]]
    /\ UNCHANGED <<line, weight_version, new, restarts, sendVars, engine, callVars, p2pVars>>

\* A dead engine has been replaced: it has the weights of the checkpoint.
RestartEngine(e) ==
    /\ ~updating /\ restarts < args.restarts
    /\ restarts' = restarts + 1
    /\ engine' = [engine EXCEPT ![e] = EngineInit]
    /\ joined' = [joined EXCEPT ![e] = {}]
    /\ new' = TRUE
    /\ UNCHANGED <<line, weight_version, updating, rank, locked, inbox, group, callVars, p2pVars>>

\* An engine that is not paused computes with its weights, and caches.
Serve(e) ==
    /\ ~engine[e].paused
    /\ LET versions == {engine[e].weights[x][1] : x \in DOMAIN engine[e].weights}
       IN  /\ ~(versions \subseteq engine[e].cached)
           /\ engine' = [engine EXCEPT ![e].cached = @ \cup versions]
    /\ UNCHANGED <<driverVars, rank, sendVars, callVars, p2pVars>>

(***************************************************************************)
(* Connecting to the engines.                                              *)
(***************************************************************************)
\* The ranks read num_new_engines: with new engines all of them connect anew.  A
\* p2p rank builds its buffers and its transfer engine anew, and goes on with the
\* registry of the old ones.
ReadEngines(r) ==
    /\ rank[r].pc = "called"
    /\ LET kind == IF r \in group THEN "destroy" ELSE "init" IN
       rank' = [rank EXCEPT ![r] =
           CASE ~new -> [rank[r] EXCEPT !.pc = "prepare"]
             [] new /\ Receivers(r) # {} -> [rank[r] EXCEPT !.pc = kind, !.unsent = Receivers(r) \X {kind}]
             [] OTHER -> [rank[r] EXCEPT !.pc = "connected"]]
    /\ IF new /\ args.transport = "p2p"
       THEN /\ registry' = [registry EXCEPT ![r] = IF @ = "none" THEN "none" ELSE "stale"]
            /\ pinned' = [pinned EXCEPT ![r] = [n \in DOMAIN pinned[r] |-> <<0, 0>>]]
       ELSE UNCHANGED <<registry, pinned>>
    /\ UNCHANGED <<driverVars, sendVars, engine, callVars, staged, writes, failures>>

\* A call of rank r reaches the engine.
SendCall(r, c) ==
    /\ c \in rank[r].unsent
    /\ inbox' = [inbox EXCEPT ![c[1]] = Append(@,
            [rank |-> r, kind |-> c[2],
             names |-> IF c[2] \in {"broadcast", "ipc"} THEN NamesOf(Bucket(r)) ELSE {}])]
    /\ rank' = [rank EXCEPT ![r].unsent = @ \ {c}, ![r].unanswered = @ \cup {c}]
    /\ UNCHANGED <<driverVars, locked, joined, group, engine, callVars, p2pVars>>

Handles(e, r, kind) == inbox[e] # <<>> /\ Head(inbox[e]).rank = r /\ Head(inbox[e]).kind = kind

Answered(r, E, kind) == rank' = [rank EXCEPT ![r].unanswered = @ \ (E \X {kind})]

Handled(E) == inbox' = [e \in Engines |-> IF e \in E THEN Tail(inbox[e]) ELSE inbox[e]]

AllAnswered(r) == rank[r].unsent = {} /\ rank[r].unanswered = {}

\* destroy_weights_update_group; an engine without the group has nothing to do.
LeaveGroup(r, e) ==
    /\ Handles(e, r, "destroy")
    /\ joined' = [joined EXCEPT ![e] = @ \ {r}]
    /\ Handled({e}) /\ Answered(r, {e}, "destroy")
    /\ UNCHANGED <<driverVars, locked, group, engine, callVars, p2pVars>>

LeftGroup(r) ==
    /\ rank[r].pc = "destroy" /\ AllAnswered(r)
    /\ group' = group \ {r}
    /\ rank' = [rank EXCEPT ![r].pc = "init", ![r].unsent = Receivers(r) \X {"init"}]
    /\ UNCHANGED <<driverVars, locked, inbox, joined, engine, callVars, p2pVars>>

\* The rendezvous of a new group: the rank and every engine have to be there.
JoinGroup(r) ==
    /\ rank[r].pc = "init" /\ rank[r].unsent = {} /\ rank[r].unanswered # {}
    /\ \A e \in Receivers(r) : Handles(e, r, "init")
    /\ joined' = [e \in Engines |-> joined[e] \cup (IF e \in Receivers(r) THEN {r} ELSE {})]
    /\ group' = group \cup {r}
    /\ Handled(Receivers(r)) /\ Answered(r, Receivers(r), "init")
    /\ UNCHANGED <<driverVars, locked, engine, callVars, p2pVars>>

JoinedGroup(r) ==
    /\ rank[r].pc = "init" /\ AllAnswered(r)
    /\ Goto(r, "connected")
    /\ UNCHANGED <<driverVars, sendVars, engine, callVars, p2pVars>>

(***************************************************************************)
(* Barriers: all ranks have come, and all go on.                           *)
(***************************************************************************)
AllAt(pc) == \A r \in Ranks : rank[r].pc = pc

AllGoto(pc, part) == rank' = [r \in Ranks |-> [RankInit EXCEPT !.pc = pc, !.part = part]]

\* Rank 1 tells the manager that the new engines are known.
BarrierConnected ==
    /\ AllAt("connected") /\ AllGoto("prepare", "non_expert")
    /\ new' = FALSE
    /\ UNCHANGED <<line, weight_version, updating, restarts, sendVars, engine, callVars, p2pVars>>

BarrierPrepared ==
    /\ AllAt("prepared") /\ AllGoto("buckets", "non_expert")
    /\ UNCHANGED <<driverVars, sendVars, engine, callVars, p2pVars>>

\* BUG: rank 1 does not wait for the others after the last bucket.
BarrierSentByFirst ==
    /\ IF args.transport # "tensor" /\ rank[1].part = "non_expert"
       THEN AllAt("sent") /\ AllGoto("buckets", "expert")
       ELSE \E r \in Ranks : rank[r].pc = "sent" /\ Goto(r, "finalize")
    /\ UNCHANGED <<driverVars, sendVars, engine, callVars, p2pVars>>

\* Parameters of experts come after the others; "tensor" sends all in one go.
BarrierSent ==
    /\ AllAt("sent")
    /\ IF args.transport # "tensor" /\ rank[1].part = "non_expert"
       THEN AllGoto("buckets", "expert")
       ELSE AllGoto("finalize", "expert")
    /\ UNCHANGED <<driverVars, sendVars, engine, callVars, p2pVars>>

BarrierFinalized ==
    /\ AllAt("finalized") /\ AllGoto("idle", "non_expert")
    /\ updating' = FALSE
    /\ UNCHANGED <<line, weight_version, new, restarts, sendVars, engine, callVars, p2pVars>>

(***************************************************************************)
(* What rank 1 calls on the engines, before and after the buckets.         *)
(***************************************************************************)

\* BUG: the caches are flushed while the engines still generate.
FlushThenPause ==
    IF args.transport # "tensor" /\ args.in_place
    THEN <<"pause", "begin">> ELSE <<"flush", "pause", "begin">>

PrepareCalls ==
    IF args.transport # "tensor" /\ args.in_place
    THEN <<"pause", "begin">> ELSE <<"pause", "flush", "begin">>

FinalizeCalls ==
    IF args.transport = "p2p" THEN <<"announce", "end", "continue">> ELSE <<"end", "continue">>

\* The sessions are opened on every engine.
Audience(call) == IF call \in {"begin", "end"} THEN Engines ELSE Paused

StartCalls(cs) == calls' = cs /\ waiting' = Audience(Head(cs))

Prepare(r) ==
    /\ rank[r].pc = "prepare"
    /\ weight_version' = [weight_version EXCEPT ![r] = @ + 1]
    /\ registry' = [registry EXCEPT ![r] =
            IF args.transport = "p2p" /\ @ = "none" THEN "current" ELSE @]
    /\ IF r = 1 THEN StartCalls(PrepareCalls) /\ Goto(r, "preparing")
       ELSE Goto(r, "prepared") /\ UNCHANGED callVars
    /\ UNCHANGED <<line, updating, new, restarts, sendVars, engine, pinned, staged, writes, failures>>

Finalize(r) ==
    /\ rank[r].pc = "finalize"
    /\ IF r = 1 THEN StartCalls(FinalizeCalls) /\ Goto(r, "finalizing")
       ELSE Goto(r, "finalized") /\ UNCHANGED callVars
    /\ UNCHANGED <<driverVars, sendVars, engine, p2pVars>>

AfterCall(e, call) ==
    CASE call = "pause" -> [engine[e] EXCEPT !.paused = TRUE]
      [] call = "flush" -> [engine[e] EXCEPT !.cached = {}]
      [] call = "begin" -> [engine[e] EXCEPT !.session = TRUE]
      [] call = "announce" -> [engine[e] EXCEPT !.announced = weight_version[1]]
      [] call = "end" -> [engine[e] EXCEPT !.session = FALSE]
      [] call = "continue" -> [engine[e] EXCEPT !.paused = FALSE]

\* An engine that has nothing before it handles the call of rank 1.
HandleCall(e) ==
    /\ e \in waiting /\ inbox[e] = <<>>
    /\ engine' = [engine EXCEPT ![e] = AfterCall(e, Head(calls))]
    /\ waiting' = waiting \ {e}
    /\ UNCHANGED <<driverVars, sendVars, rank, calls, p2pVars>>

NextCall ==
    /\ calls # <<>> /\ waiting = {}
    /\ calls' = Tail(calls)
    /\ IF Len(calls) > 1
       THEN waiting' = Audience(calls[2]) /\ UNCHANGED rank
       ELSE /\ Goto(1, IF rank[1].pc = "preparing" THEN "prepared" ELSE "finalized")
            /\ UNCHANGED waiting
    /\ UNCHANGED <<driverVars, sendVars, engine, p2pVars>>

(***************************************************************************)
(* Sending the buckets.                                                    *)
(***************************************************************************)
\* The ranks that take part in gathering a bucket have come to it.
Gathered(r) ==
    \A q \in Ranks : (args.transport = "tensor" \/ StageOf(q) = StageOf(r))
                        => rank[q].bucket >= rank[r].bucket

IsSource(r) ==
    CASE args.transport = "broadcast" -> CopyOf(r) = 1
      [] args.transport = "p2p" -> CopyOf(r) <= args.engines * args.gpus
      [] args.transport = "tensor" -> TRUE

NextBucket(r) == [rank[r] EXCEPT !.bucket = @ + 1, !.pc = "buckets"]

\* The bucket as the calls that carry it; under "broadcast" the lock comes first.
StartBucket(r) ==
    /\ rank[r].pc = "buckets" /\ rank[r].bucket <= Len(Buckets(r)) /\ Gathered(r)
    /\ args.transport # "p2p" \/ ~IsSource(r)
    /\ rank' = [rank EXCEPT ![r] =
            CASE ~IsSource(r) -> NextBucket(r)
              [] args.transport = "broadcast" /\ IsSource(r) -> [rank[r] EXCEPT !.pc = "acquire"]
              [] OTHER -> [rank[r] EXCEPT !.pc = "send", !.unsent =
                              (IpcEngine(r) \X {"ipc"}) \cup (Receivers(r) \X {"broadcast"})]]
    /\ UNCHANGED <<driverVars, sendVars, engine, callVars, p2pVars>>

AcquireLock(r) ==
    /\ rank[r].pc = "acquire" /\ ~locked
    /\ locked' = TRUE
    /\ rank' = [rank EXCEPT ![r].pc = "send", ![r].unsent = Receivers(r) \X {"broadcast"}]
    /\ UNCHANGED <<driverVars, inbox, joined, group, engine, callVars, p2pVars>>

\* The engine has the parameters of the call, and the version that came with them.
Loaded(e) ==
    LET call == Head(inbox[e]) IN
    [engine[e] EXCEPT
        !.weights = [x \in DOMAIN engine[e].weights |->
            IF x[2] \in call.names THEN <<weight_version[call.rank], x[1]>> ELSE engine[e].weights[x]],
        !.announced = weight_version[call.rank]]

\* The broadcast of rank r: the engines and the rank take part in it together.
Broadcast(r) ==
    /\ rank[r].pc = "send" /\ rank[r].unsent = {} /\ Bucket(r) # {}
    /\ Receivers(r) \X {"broadcast"} \subseteq rank[r].unanswered /\ Receivers(r) # {}
    /\ \A e \in Receivers(r) : Handles(e, r, "broadcast") /\ r \in joined[e]
    /\ engine' = [e \in Engines |-> IF e \in Receivers(r) THEN Loaded(e) ELSE engine[e]]
    /\ Handled(Receivers(r)) /\ Answered(r, Receivers(r), "broadcast")
    /\ UNCHANGED <<driverVars, locked, joined, group, callVars, p2pVars>>

\* A bucket without parameters is nothing to wait for.
HandleEmpty(r, e) ==
    /\ Handles(e, r, "broadcast") /\ Head(inbox[e]).names = {}
    /\ engine' = [engine EXCEPT ![e] = Loaded(e)]
    /\ Handled({e}) /\ Answered(r, {e}, "broadcast")
    /\ UNCHANGED <<driverVars, locked, joined, group, callVars, p2pVars>>

\* update_weights_from_tensor.
HandleTensor(r, e) ==
    /\ Handles(e, r, "ipc")
    /\ engine' = [engine EXCEPT ![e] = Loaded(e)]
    /\ Handled({e}) /\ Answered(r, {e}, "ipc")
    /\ UNCHANGED <<driverVars, locked, joined, group, callVars, p2pVars>>

\* BUG: the bucket is not emptied when it has been sent.
SentAgain(r) ==
    /\ rank[r].pc = "send" /\ AllAnswered(r)
    /\ rank' = [rank EXCEPT ![r].pc = "buckets"]
    /\ locked' = FALSE
    /\ UNCHANGED <<driverVars, inbox, joined, group, engine, callVars, p2pVars>>

\* Every engine has answered; the lock is released.
BucketSent(r) ==
    /\ rank[r].pc = "send" /\ AllAnswered(r)
    /\ rank' = [rank EXCEPT ![r] = NextBucket(r)]
    /\ locked' = FALSE
    /\ UNCHANGED <<driverVars, inbox, joined, group, engine, callVars, p2pVars>>

BucketsDone(r) ==
    /\ rank[r].pc = "buckets" /\ rank[r].bucket > Len(Buckets(r))
    /\ Goto(r, IF args.transport = "p2p" /\ rank[r].part = "expert" /\ IsSource(r)
               THEN "wait_transfers" ELSE "sent")
    /\ UNCHANGED <<driverVars, sendVars, engine, callVars, p2pVars>>

(***************************************************************************)
(* Writing into the engines.                                               *)
(***************************************************************************)
\* The names that make up the parameter of the engine that p is a part of.
Whole(r, p) == NamesOf({q \in ToSet(Params(r)) : q.fused = p.fused})

\* _get_transfer_ready_params: the parameters that are complete with this bucket.
Ready(r, there) == UNION {w \in {Whole(r, p) : p \in Bucket(r)} : w \subseteq there}

StageBucket(r) ==
    /\ args.transport = "p2p" /\ IsSource(r)
    /\ rank[r].pc = "buckets" /\ rank[r].bucket <= Len(Buckets(r)) /\ Gathered(r)
    /\ LET there == staged[r] \cup NamesOf(Bucket(r))
           ready == Ready(r, there)
       IN  /\ staged' = [staged EXCEPT ![r] = there \ ready]
           /\ rank' = [rank EXCEPT ![r] =
                IF ready = {} THEN NextBucket(r) ELSE [rank[r] EXCEPT !.pc = "load", !.names = ready, !.turn = 1]]
    /\ UNCHANGED <<driverVars, sendVars, engine, callVars, pinned, registry, writes, failures>>

Turn(r) == TargetRanks(r)[rank[r].turn]

\* BUG: the writes for one rank are not awaited before the next rank's shards.
LoadAndWriteOn(r) ==
    /\ rank[r].pc = "load"
    /\ pinned' = [pinned EXCEPT ![r] = [n \in DOMAIN pinned[r] |->
            IF n \in rank[r].names THEN <<weight_version[r], Turn(r)>> ELSE pinned[r][n]]]
    /\ writes' = writes \cup
            {[rank |-> r, target |-> t, names |-> rank[r].names] : t \in {u \in Targets(r) : u[2] = Turn(r)}}
    /\ rank' = [rank EXCEPT ![r] =
            IF rank[r].turn = Len(TargetRanks(r)) THEN NextBucket(r) ELSE [rank[r] EXCEPT !.turn = @ + 1]]
    /\ UNCHANGED <<driverVars, sendVars, engine, callVars, staged, registry, failures>>

\* The shards of one rank are loaded into the pinned buffer, and the writes to
\* that rank of the engines submitted; those of the last rank stay behind.
LoadAndWrite(r) ==
    /\ rank[r].pc = "load"
    /\ pinned' = [pinned EXCEPT ![r] = [n \in DOMAIN pinned[r] |->
            IF n \in rank[r].names THEN <<weight_version[r], Turn(r)>> ELSE pinned[r][n]]]
    /\ writes' = writes \cup
            {[rank |-> r, target |-> t, names |-> rank[r].names] : t \in {u \in Targets(r) : u[2] = Turn(r)}}
    /\ rank' = [rank EXCEPT ![r] =
            IF rank[r].turn = Len(TargetRanks(r)) THEN NextBucket(r) ELSE [rank[r] EXCEPT !.pc = "await"]]
    /\ UNCHANGED <<driverVars, sendVars, engine, callVars, staged, registry, failures>>

Awaited(r) == {w \in writes : w.rank = r /\ w.target[2] = Turn(r)}

WritesAwaited(r) ==
    /\ rank[r].pc = "await" /\ Awaited(r) = {}
    /\ rank' = [rank EXCEPT ![r].pc = "load", ![r].turn = @ + 1]
    /\ UNCHANGED <<driverVars, sendVars, engine, callVars, p2pVars>>

\* A thread of the pool writes what the buffer holds now.
WriteDone(w) ==
    /\ registry[w.rank] = "current"
    /\ writes' = writes \ {w}
    /\ engine' = [engine EXCEPT ![w.target[1]].weights = [x \in DOMAIN engine[w.target[1]].weights |->
            IF x[1] = w.target[2] /\ x[2] \in w.names
            THEN pinned[w.rank][x[2]] ELSE engine[w.target[1]].weights[x]]]
    /\ UNCHANGED <<driverVars, sendVars, rank, callVars, pinned, staged, registry, failures>>

\* A write fails, as all do with addresses the transfer engine does not know.  The
\* rank sees it when it awaits the write.
WriteFails(w) ==
    /\ \/ registry[w.rank] = "stale" /\ UNCHANGED failures
       \/ registry[w.rank] = "current" /\ failures < args.failures /\ failures' = failures + 1
    /\ writes' = writes \ {w}
    /\ IF rank[w.rank].pc = "await" /\ w \in Awaited(w.rank)
       THEN Goto(w.rank, "failed") ELSE UNCHANGED rank
    /\ UNCHANGED <<driverVars, sendVars, engine, callVars, pinned, staged, registry>>

\* wait_transfers: a write that failed is logged, and one that takes too long is
\* left alone.
TransfersWaited(r) ==
    /\ rank[r].pc = "wait_transfers"
    /\ \/ {w \in writes : w.rank = r} = {} /\ UNCHANGED failures
       \/ failures < args.failures /\ failures' = failures + 1
    /\ Goto(r, IF staged[r] = {} THEN "sent" ELSE "failed")
    /\ UNCHANGED <<driverVars, sendVars, engine, callVars, pinned, staged, registry, writes>>

(***************************************************************************)
(* Specification.                                                          *)
(***************************************************************************)
Failed == \E r \in Ranks : rank[r].pc = "failed"

RankStep(r) ==
    \/ ReadEngines(r) \/ (\E c \in rank[r].unsent : SendCall(r, c))
    \/ LeftGroup(r) \/ JoinGroup(r) \/ JoinedGroup(r)
    \/ Prepare(r) \/ Finalize(r)
    \/ StartBucket(r) \/ AcquireLock(r) \/ Broadcast(r) \/ BucketSent(r) \/ BucketsDone(r)
    \/ StageBucket(r) \/ LoadAndWrite(r) \/ WritesAwaited(r) \/ TransfersWaited(r)

EngineStep(e) ==
    \/ HandleCall(e)
    \/ \E r \in Ranks : LeaveGroup(r, e) \/ HandleEmpty(r, e) \/ HandleTensor(r, e)

Barrier == BarrierConnected \/ BarrierPrepared \/ BarrierSent \/ BarrierFinalized

UpdateStep ==
    /\ ~Failed
    /\ \/ \E r \in Ranks : RankStep(r)
       \/ \E e \in Engines : EngineStep(e)
       \/ \E w \in writes : WriteDone(w) \/ WriteFails(w)
       \/ NextCall \/ Barrier

Outside == ~Failed /\ (CallUpdate \/ \E e \in Engines : RestartEngine(e) \/ Serve(e))

\* Two ranks form their groups, without the lock, and each waits for an engine that
\* waits for the other: of calls from two ranks each engine handles the one that came
\* first, and they came in different orders.
Crossed ==
    \E r, q \in Ranks, e, f \in Engines :
        /\ r # q /\ Handles(e, r, "init") /\ Handles(f, q, "init")
        /\ <<f, "init">> \in rank[r].unanswered /\ <<e, "init">> \in rank[q].unanswered

\* The updates of the bound are over, or the job is, or it hangs.
Ended ==
    /\ Failed \/ Crossed \/ (~updating /\ weight_version[1] = args.updates)
    /\ UNCHANGED vars

Next == UpdateStep \/ Outside \/ Ended

Spec == Init /\ [][Next]_vars

\* Ranks, engines, barriers and the threads of the pool go on.
FairSpec == Spec /\ WF_vars(UpdateStep)

(***************************************************************************)
(* Properties.                                                             *)
(***************************************************************************)
\* Every gpu of the engine holds its shard of version v of every parameter.
Holds(e, v) == \A x \in DOMAIN engine[e].weights : engine[e].weights[x] = <<v, x[1]>>

\* No write has failed, or will because its source has connected anew and uses the
\* registry of its first connection: when a write of the last rank of a bucket fails,
\* wait_transfers logs it, and the update goes on.
Intact == failures = 0 /\ \A r \in Ranks : registry[r] # "stale"

\* Weights come to an engine, by a call or by a write, within its session.
WeightsInSession ==
    /\ \A e \in Engines : inbox[e] # <<>> /\ Head(inbox[e]).kind \in {"broadcast", "ipc"}
            => engine[e].session
    /\ Intact => \A w \in writes : engine[w.target[1]].session

(* An update changes an engine's weights within a session only.  After it  *)
(* every engine announces the new version and none is left paused or with  *)
(* an open session, in every transport and however new the engine is.  It  *)
(* holds the new version too, unless a write of this update or an earlier  *)
(* one failed, as all writes do of a p2p source that had to connect again, *)
(* because an engine was replaced: see VersionIsHeld.                      *)
UpdateTakesEffect ==
    /\ WeightsInSession
    /\ ~updating /\ ~new /\ weight_version[1] > 0 => \A e \in Engines :
        /\ Intact => Holds(e, weight_version[1])
        /\ engine[e].announced = weight_version[1]
        /\ ~engine[e].paused /\ ~engine[e].session

(* What an engine announces as its version after an update is what it      *)
(* holds: p2p.py tells it the version because it "was not aware that the   *)
(* write has happened".                                                    *)
VersionIsHeld ==
    ~updating /\ ~new /\ weight_version[1] > 0 => \A e \in Engines :
        engine[e].announced = weight_version[1] => Holds(e, weight_version[1])

(* The caches of an engine that serves were computed with the weights it   *)
(* holds: they are flushed after the pause, unless the pause is in place.  *)
CachesFresh ==
    ~args.in_place /\ Intact => \A e \in Paused :
        ~engine[e].paused => engine[e].cached \subseteq {engine[e].announced}

\* The parts of an update.
Parts == IF args.transport = "tensor" THEN {"non_expert"} ELSE {"non_expert", "expert"}

\* What rank r sends goes to that gpu of the engine.
Reaches(r, e, g) ==
    /\ IsSource(r)
    /\ IF args.transport = "p2p" THEN <<e, g>> \in Targets(r) ELSE e \in Receivers(r) \cup IpcEngine(r)

\* Bucket k of the part has parameter n.
Carries(r, part, k, n) == k \in 1..Len(Planned(r, part)) /\ n \in NamesOf(Planned(r, part)[k])

(* Every parameter is in a bucket that a source brings to every gpu of     *)
(* every engine, whatever the sizes, the buffer and the numbers of both    *)
(* sides; and a source that writes has each parameter in one bucket, and   *)
(* among its turns every gpu it has as a target.                           *)
PlansCover ==
    /\ AllParams # {}
    /\ \A r \in Ranks, part \in Parts : Planned(r, part) \in Seq(SUBSET AllParams)
    /\ \A e \in Engines, g \in Gpus, n \in NamesOf(AllParams) :
            \E r \in Ranks : Reaches(r, e, g)
                /\ \E part \in Parts : \E k \in DOMAIN Planned(r, part) : Carries(r, part, k, n)
    /\ args.transport = "p2p" => \A r \in {s \in Ranks : IsSource(s)} :
            /\ TargetRanks(r) \in Seq(Gpus) \ {<<>>}
            /\ Targets(r) \subseteq Engines \X ToSet(TargetRanks(r))
            /\ \A p, q \in Parts : \A k \in DOMAIN Planned(r, p), l \in DOMAIN Planned(r, q) :
                   NamesOf(Planned(r, p)[k]) \cap NamesOf(Planned(r, q)[l]) # {} => p = q /\ k = l

(* An update that is asked for ends: no rank waits forever for a lock, a   *)
(* barrier or an engine.  It hangs in one case only: the sources of two    *)
(* pipeline stages connect to the engines at the same time, for which they *)
(* do not take the lock, and the engines hear of them in different orders. *)
UpdateEnds == updating ~> (~updating \/ Failed \/ Crossed)

\* The version an engine serves, or Mixed.
Mixed == -2
Served(e) == IF \E v \in 0..args.updates : Holds(e, v)
             THEN CHOOSE v \in 0..args.updates : Holds(e, v) ELSE Mixed

\* The engines the update pauses, as those who sample from them see them.
Service == INSTANCE WeightService WITH
    latest <- weight_version[1],
    serving <- [e \in Paused |-> IF engine[e].paused \/ ~Intact THEN -1 ELSE Served(e)]

(* What the updates promise to those who sample: an engine that serves has *)
(* one version, and changes it only while it does not serve; the engines   *)
(* count as suspended for good once a write has failed.                    *)
ImplementsService == Service!ServiceSpec
=============================================================================
