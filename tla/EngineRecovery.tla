--------------------------- MODULE EngineRecovery ---------------------------
(***************************************************************************)
(* Fault tolerance of the rollout engines (--use-fault-tolerance): the     *)
(* thread of every RolloutHealthMonitor (miles/utils/health_monitor.py)    *)
(* checks and kills the engines of one server group, while the driver      *)
(* (train.py) has the RolloutManager (miles/ray/rollout.py) generate,      *)
(* offload, onload and recover, and the trainer (MegatronTrainRayActor.    *)
(* update_weights) connects to the engines and pushes weights.             *)
(*                                                                         *)
(* An engine is one Ray actor per node.  Slot <<g, e, n>> is the element   *)
(* of all_engines for node n of engine e of group g; it holds the number   *)
(* of the actor's incarnation, 0 for None.                                 *)
(***************************************************************************)
EXTENDS Integers, FiniteSets

CONSTANTS
    NumGroups,        \* server groups of the updatable server
    NumEngines,       \* engines per group
    NodesPerEngine,   \* nodes_per_engine
    MaxGen            \* bound: incarnations of a slot

ASSUME RecoveryAssumption ==
    /\ NumGroups \in Nat \ {0} /\ NumEngines \in Nat \ {0} /\ NodesPerEngine \in Nat \ {0}
    /\ MaxGen \in Nat \ {0}

Groups == 1..NumGroups
Engines == 1..NumEngines
Nodes == 1..NodesPerEngine
Slots == Groups \X Engines \X Nodes
Tags == {"weights", "kv_cache", "cuda_graph"}

VARIABLES
    all_engines,      \* per slot: the incarnation it refers to, 0 for None
    spawned,          \* per slot: incarnations started so far
    gone,             \* actors <<slot, incarnation>> that crashed or were killed
    mem,              \* per leader slot: the tags resident on its GPUs
    num_new_engines,  \* per group
    pause,            \* per group: _pause_event is set
    need_first_wait,  \* per group: _need_first_wait
    mon,              \* per group: where the monitor thread is
    mgr,              \* where driver, manager and trainer are
    rollout_id,       \* -1 until the first generate, then 0
    targets,          \* the trainer's rollout_engines
    loaded,           \* leaders that hold the last pushed weights
    args              \* how the job was started; never changes

groupVars == <<pause, need_first_wait>>
engineVars == <<all_engines, spawned, gone>>
managerVars == <<rollout_id, args>>
trainVars == <<targets, loaded>>
vars == <<all_engines, spawned, gone, mem, num_new_engines, pause, need_first_wait,
          mon, mgr, rollout_id, targets, loaded, args>>

\* --offload-rollout, and the groups that share GPUs with training
\* (needs_offload): there are none unless the rollout is offloaded.
Setups == {a \in [offload_rollout : BOOLEAN, needs_offload : SUBSET Groups] :
             a.needs_offload # {} => a.offload_rollout}

Leader(g, e) == <<g, e, 1>>
Leaders == {Leader(g, e) : g \in Groups, e \in Engines}
Current(s) == <<s, all_engines[s]>>

\* Leaders of g that are not None, as the comprehensions of ServerGroup filter.
Live(g) == {Leader(g, e) : e \in {f \in Engines : all_engines[Leader(g, f)] # 0}}

(***************************************************************************)
(* States of the two kinds of process.                                     *)
(***************************************************************************)
MonPCs == {"top", "first_wait", "clear", "gate", "next", "checking", "kill", "shutting", "interval"}

MonInit == [pc |-> "top", engine |-> 1, node |-> 1, victim |-> 0,
            engines |-> [x \in Engines \X Nodes |-> 0]]

MgrPCs == {"onload", "recover", "starting", "finish", "fetch", "update", "onload_kv",
           "generate", "generating", "training", "failed", "assertion_failed"}

MgrStates == [pc : MgrPCs, group : Nat, dead : [Groups -> SUBSET Slots]]

Goto(pc) == mgr' = [mgr EXCEPT !.pc = pc]

Init ==
    /\ args \in Setups
    /\ all_engines = [s \in Slots |-> 1]
    /\ spawned = [s \in Slots |-> 1]
    /\ gone = {}
    \* create_rollout_manager has offloaded the engines
    /\ mem = [s \in Leaders |-> IF s[1] \in args.needs_offload THEN {} ELSE Tags]
    /\ num_new_engines = [g \in Groups |-> NumEngines * NodesPerEngine]
    /\ pause = [g \in Groups |-> TRUE]
    /\ need_first_wait = [g \in Groups |-> TRUE]
    /\ mon = [g \in Groups |-> MonInit]
    /\ mgr = [pc |-> "onload", group |-> 1, dead |-> [g \in Groups |-> {}]]
    /\ rollout_id = -1
    /\ targets = {} /\ loaded = {}

(***************************************************************************)
(* RolloutHealthMonitor.                                                   *)
(***************************************************************************)
Mon(g, pc) == mon' = [mon EXCEPT ![g].pc = pc]

\* The incarnation the round checks: the handle in its copy of the list.
Checked(g) == mon[g].engines[<<mon[g].engine, 1>>]

OnlyMon == UNCHANGED <<engineVars, mem, num_new_engines, pause, mgr, managerVars, trainVars>>

\* _health_monitor_loop: not paused; wait first after a resume.
LoopTop(g) ==
    /\ mon[g].pc = "top" /\ ~pause[g]
    /\ Mon(g, IF need_first_wait[g] THEN "first_wait" ELSE "gate")
    /\ OnlyMon /\ UNCHANGED need_first_wait

FirstWaitOver(g) ==
    /\ mon[g].pc = "first_wait"
    /\ Mon(g, IF pause[g] THEN "top" ELSE "clear")
    /\ OnlyMon /\ UNCHANGED need_first_wait

ClearFirstWait(g) ==
    /\ mon[g].pc = "clear"
    /\ need_first_wait' = [need_first_wait EXCEPT ![g] = FALSE]
    /\ Mon(g, "gate")
    /\ OnlyMon

\* _run_health_checks copies the leaders once; a paused monitor skips the round.
StartRound(g) ==
    /\ mon[g].pc = "gate"
    /\ \/ /\ pause[g] /\ Mon(g, "interval")
       \/ /\ ~pause[g]
          /\ mon' = [mon EXCEPT ![g].pc = "next", ![g].engine = 1,
                        ![g].engines = [x \in Engines \X Nodes |-> all_engines[<<g, x[1], x[2]>>]]]
    /\ OnlyMon /\ UNCHANGED need_first_wait

\* The head of the loop over the engines: stop when paused, skip None.
NextCheck(g) ==
    LET m == mon[g] IN
    /\ m.pc = "next"
    /\ mon' = [mon EXCEPT ![g] =
            IF m.engine > NumEngines \/ pause[g] THEN [m EXCEPT !.pc = "interval"]
            ELSE IF Checked(g) = 0 THEN [m EXCEPT !.engine = m.engine + 1]
            ELSE [m EXCEPT !.pc = "checking"]]
    /\ OnlyMon /\ UNCHANGED need_first_wait

\* _check_engine_health: the call on the copied handle returns ...
CheckPasses(g) ==
    LET m == mon[g] IN
    /\ m.pc = "checking"
    /\ <<Leader(g, m.engine), Checked(g)>> \notin gone
    /\ mon' = [mon EXCEPT ![g].pc = "next", ![g].engine = m.engine + 1]
    /\ OnlyMon /\ UNCHANGED need_first_wait

\* ... or raises, because the actor is gone or too slow (bound: MaxGen).
CheckFails(g) ==
    LET m == mon[g] IN
    /\ m.pc = "checking"
    /\ \/ <<Leader(g, m.engine), Checked(g)>> \in gone
       \/ Checked(g) < MaxGen
    /\ mon' = [mon EXCEPT ![g].pc = "kill", ![g].node = 1]
    /\ OnlyMon /\ UNCHANGED need_first_wait

\* _kill_engine reads the slot of the next node and asks the actor to shut down.
KillNode(g) ==
    LET m == mon[g] IN
    /\ m.pc = "kill"
    /\ mon' = [mon EXCEPT ![g] =
            IF m.node > NodesPerEngine
            THEN [m EXCEPT !.pc = "next", !.engine = m.engine + 1]
            ELSE [m EXCEPT !.pc = "shutting",
                           !.victim = all_engines[<<g, m.engine, m.node>>]]]
    /\ OnlyMon /\ UNCHANGED need_first_wait

\* The slot becomes None.  The actor was killed if its shutdown returned; when the
\* shutdown raised ("Fail to kill engine") an actor that is not gone lives on.
SlotCleared(g) ==
    LET m == mon[g]
        s == <<g, m.engine, m.node>>
    IN
    /\ m.pc = "shutting"
    /\ \/ m.victim # 0 /\ gone' = gone \cup {<<s, m.victim>>}
       \/ UNCHANGED gone
    /\ all_engines' = [all_engines EXCEPT ![s] = 0]
    /\ mon' = [mon EXCEPT ![g].pc = "kill", ![g].node = m.node + 1]
    /\ UNCHANGED <<spawned, mem, num_new_engines, groupVars, mgr, managerVars, trainVars>>

IntervalOver(g) ==
    /\ mon[g].pc = "interval" /\ Mon(g, "top")
    /\ OnlyMon /\ UNCHANGED need_first_wait

\* pause() sets the event; it does not wait for the round under way.
PauseAll == pause' = [g \in Groups |-> TRUE] /\ UNCHANGED need_first_wait

ResumeAll ==
    /\ pause' = [g \in Groups |-> FALSE]
    /\ need_first_wait' = [g \in Groups |-> TRUE]

(***************************************************************************)
(* Driver, RolloutManager and trainer.  A call to an actor that is gone,   *)
(* or to None, raises in the caller and ends the training.                 *)
(***************************************************************************)
Reachable(actors) == \A a \in actors : a[2] # 0 /\ a \notin gone

\* ServerGroup.onload and offload: leaders that are not None, groups that share.
Shared == {s \in Leaders : s[1] \in args.needs_offload /\ all_engines[s] # 0}

onload_weights ==
    /\ mgr.pc = "onload"
    /\ IF Reachable({Current(s) : s \in Shared})
       THEN /\ mem' = [s \in Leaders |-> IF s \in Shared THEN mem[s] \cup {"weights"} ELSE mem[s]]
            /\ Goto("recover")
       ELSE Goto("failed") /\ UNCHANGED mem
    /\ UNCHANGED <<engineVars, num_new_engines, groupVars, mon, managerVars, trainVars>>

\* BUG: recovery also replaces actors it finds dead, not only None slots.
DeadOrGone(g) ==
    {s \in Slots : s[1] = g /\ (all_engines[s] = 0 \/ Current(s) \in gone)}

Dead(g) == {s \in Slots : s[1] = g /\ all_engines[s] = 0}

\* BUG: recovery runs before the first generate only.
recover_first_only ==
    /\ mgr.pc = "recover"
    /\ PauseAll
    /\ IF rollout_id # -1
       THEN Goto("fetch")
       ELSE mgr' = [pc |-> "starting", group |-> 1, dead |-> [g \in Groups |-> Dead(g)]]
    /\ UNCHANGED <<engineVars, mem, num_new_engines, mon, managerVars, trainVars>>

\* recover_updatable_engines, and recover up to the list of dead indices.
recover_updatable_engines ==
    /\ mgr.pc = "recover"
    /\ PauseAll
    /\ IF rollout_id = -1
       THEN Goto("fetch")
       ELSE mgr' = [pc |-> "starting", group |-> 1, dead |-> [g \in Groups |-> Dead(g)]]
    /\ UNCHANGED <<engineVars, mem, num_new_engines, mon, managerVars, trainVars>>

\* BUG: only the first start of the engines is announced.
start_engines_silently ==
    LET g == mgr.group IN
    /\ mgr.pc = "starting" /\ g <= NumGroups
    /\ spawned' = [s \in Slots |-> IF s \in Dead(g) THEN spawned[s] + 1 ELSE spawned[s]]
    /\ all_engines' = [s \in Slots |-> IF s \in Dead(g) THEN spawned[s] + 1 ELSE all_engines[s]]
    /\ mem' = [s \in Leaders |-> IF s \in Dead(g) THEN Tags ELSE mem[s]]
    /\ mgr' = [mgr EXCEPT !.group = g + 1]
    /\ UNCHANGED <<gone, num_new_engines, groupVars, mon, managerVars, trainVars>>

\* ServerGroup.start_engines: an actor for every None slot, all memory resident.
\* Allocating ports makes remote calls, so the groups follow one another.
start_engines ==
    LET g == mgr.group IN
    /\ mgr.pc = "starting" /\ g <= NumGroups
    /\ spawned' = [s \in Slots |-> IF s \in Dead(g) THEN spawned[s] + 1 ELSE spawned[s]]
    /\ all_engines' = [s \in Slots |-> IF s \in Dead(g) THEN spawned[s] + 1 ELSE all_engines[s]]
    /\ mem' = [s \in Leaders |-> IF s \in Dead(g) THEN Tags ELSE mem[s]]
    /\ num_new_engines' = [num_new_engines EXCEPT ![g] = Cardinality(Dead(g))]
    /\ mgr' = [mgr EXCEPT !.group = g + 1]
    /\ UNCHANGED <<gone, groupVars, mon, managerVars, trainVars>>

\* The new actors of dead indices, as all_engines names them now.
Restarted == {Current(s) : s \in UNION {mgr.dead[g] : g \in Groups}}

NewShared == {s \in Leaders : s[1] \in args.needs_offload /\ s \in mgr.dead[s[1]]}

\* The init handles are awaited before the counts are compared.
StartsDone ==
    /\ mgr.pc = "starting" /\ mgr.group > NumGroups
    /\ Goto("finish")
    /\ UNCHANGED <<engineVars, mem, num_new_engines, groupVars, mon, managerVars, trainVars>>

\* BUG: the new engines keep the memory they started with.
recover_resident ==
    /\ mgr.pc = "finish"
    /\ IF \E g \in Groups : num_new_engines[g] # Cardinality(mgr.dead[g])
       THEN Goto("assertion_failed")
       ELSE IF ~Reachable(Restarted) THEN Goto("failed")
       ELSE Goto("fetch")
    /\ UNCHANGED <<engineVars, mem, num_new_engines, groupVars, mon, managerVars, trainVars>>

\* The rest of recover: new engines release all memory and get weights back.
recover ==
    /\ mgr.pc = "finish"
    /\ IF \E g \in Groups : num_new_engines[g] # Cardinality(mgr.dead[g])
       THEN Goto("assertion_failed") /\ UNCHANGED mem
       ELSE IF ~Reachable(Restarted) THEN Goto("failed") /\ UNCHANGED mem
       ELSE /\ mem' = [s \in Leaders |-> IF s \in NewShared THEN {"weights"} ELSE mem[s]]
            /\ Goto("fetch")
    /\ UNCHANGED <<engineVars, num_new_engines, groupVars, mon, managerVars, trainVars>>

\* BUG: the trainer connects once and keeps the engines it knows.
connect_once ==
    /\ mgr.pc = "fetch"
    /\ IF targets # {} \/ \A g \in Groups : num_new_engines[g] <= 0
       THEN Goto("update") /\ UNCHANGED <<num_new_engines, targets>>
       ELSE IF ~Reachable({Current(s) : s \in Leaders})
       THEN Goto("failed") /\ UNCHANGED <<num_new_engines, targets>>
       ELSE /\ targets' = {Current(s) : s \in Leaders}
            /\ num_new_engines' = [g \in Groups |-> 0]
            /\ Goto("update")
    /\ UNCHANGED <<engineVars, mem, groupVars, mon, managerVars, loaded>>

\* get_updatable_engines_and_lock and, when there are new engines,
\* connect_rollout_engines and clear_updatable_num_new_engines.
connect_rollout_engines ==
    /\ mgr.pc = "fetch"
    /\ IF \A g \in Groups : num_new_engines[g] <= 0
       THEN Goto("update") /\ UNCHANGED <<num_new_engines, targets>>
       ELSE IF ~Reachable({Current(s) : s \in Leaders})
       THEN Goto("failed") /\ UNCHANGED <<num_new_engines, targets>>
       ELSE /\ targets' = {Current(s) : s \in Leaders}
            /\ num_new_engines' = [g \in Groups |-> 0]
            /\ Goto("update")
    /\ UNCHANGED <<engineVars, mem, groupVars, mon, managerVars, loaded>>

update_weights ==
    /\ mgr.pc = "update"
    /\ IF Reachable(targets) THEN loaded' = targets /\ Goto("onload_kv")
                             ELSE Goto("failed") /\ UNCHANGED loaded
    /\ UNCHANGED <<engineVars, mem, num_new_engines, groupVars, mon, managerVars, targets>>

onload_kv ==
    /\ mgr.pc = "onload_kv"
    /\ IF Reachable({Current(s) : s \in Shared})
       THEN /\ mem' = [s \in Leaders |-> IF s \in Shared THEN mem[s] \cup {"kv_cache", "cuda_graph"}
                                         ELSE mem[s]]
            /\ Goto("generate")
       ELSE Goto("failed") /\ UNCHANGED mem
    /\ UNCHANGED <<engineVars, num_new_engines, groupVars, mon, managerVars, trainVars>>

generate ==
    /\ mgr.pc = "generate"
    /\ rollout_id' = 0
    /\ ResumeAll
    /\ Goto("generating")
    /\ UNCHANGED <<engineVars, mem, num_new_engines, mon, args, trainVars>>

\* The rollout is complete and --offload-rollout is off.
skip_offload ==
    /\ mgr.pc = "generating" /\ ~args.offload_rollout
    /\ Goto("training")
    /\ UNCHANGED <<engineVars, mem, num_new_engines, groupVars, mon, managerVars, trainVars>>

\* The rollout is complete; offload pauses the monitors and releases memory
\* (a group that does not share runs without the memory saver).
offload ==
    /\ mgr.pc = "generating" /\ args.offload_rollout
    /\ PauseAll
    /\ LET all == {s \in Leaders : all_engines[s] # 0} IN
       IF Reachable({Current(s) : s \in all})
       THEN /\ mem' = [s \in Leaders |-> IF s \in Shared THEN {} ELSE mem[s]]
            /\ Goto("training")
       ELSE Goto("failed") /\ UNCHANGED mem
    /\ UNCHANGED <<engineVars, num_new_engines, mon, managerVars, trainVars>>

\* The actor trains and is offloaded.
train ==
    /\ mgr.pc = "training" /\ Goto("onload")
    /\ UNCHANGED <<engineVars, mem, num_new_engines, groupVars, mon, managerVars, trainVars>>

(***************************************************************************)
(* An actor may die at any time (bound: MaxGen incarnations).              *)
(***************************************************************************)
Crash(s) ==
    /\ all_engines[s] \in 1..(MaxGen - 1)
    /\ Current(s) \notin gone
    /\ gone' = gone \cup {Current(s)}
    /\ UNCHANGED <<all_engines, spawned, mem, num_new_engines, groupVars, mon, mgr,
                   managerVars, trainVars>>

MonitorStep(g) ==
    \/ LoopTop(g) \/ FirstWaitOver(g) \/ ClearFirstWait(g) \/ StartRound(g) \/ NextCheck(g)
    \/ CheckPasses(g) \/ CheckFails(g) \/ KillNode(g) \/ SlotCleared(g) \/ IntervalOver(g)

ManagerStep ==
    \/ onload_weights \/ recover_updatable_engines \/ start_engines \/ StartsDone \/ recover
    \/ connect_rollout_engines \/ update_weights \/ onload_kv \/ generate
    \/ offload \/ skip_offload \/ train

Next ==
    \/ \E g \in Groups : MonitorStep(g)
    \/ ManagerStep
    \/ \E s \in Slots : Crash(s)

Spec == Init /\ [][Next]_vars

\* The driver runs on; a monitor thread is scheduled.
FairSpec == Spec /\ WF_vars(ManagerStep) /\ \A g \in Groups : WF_vars(MonitorStep(g))

(***************************************************************************)
(* Properties.                                                             *)
(***************************************************************************)
(* The monitor re-reads a slot when it kills, long after it copied the     *)
(* list and the check was sent.  Recovery never exchanges the actor in     *)
(* between: a slot that held an actor when the round began still holds the *)
(* same one when it is killed.                                             *)
KillsWhatItChecked ==
    \A g \in Groups : mon[g].pc = "shutting" =>
        mon[g].engines[<<mon[g].engine, mon[g].node>>] \in {0, mon[g].victim}

(* Every engine that serves a rollout holds the weights of the last push:  *)
(* a restarted engine is connected before the push and never left out.     *)
ServingIsUpdated ==
    mgr.pc \in {"generate", "generating"} =>
        \A s \in Leaders : all_engines[s] # 0 => Current(s) \in loaded

(* What an engine that shares GPUs with training holds there, whether or   *)
(* not it was restarted on the way: nothing while the actor trains, the    *)
(* weights and no KV cache while weights are pushed, all of it while it    *)
(* serves.                                                                 *)
MemoryFollowsPhase ==
    \A s \in Leaders : s[1] \in args.needs_offload /\ all_engines[s] # 0 =>
        /\ mgr.pc = "training" => mem[s] = {}
        /\ mgr.pc = "update" => mem[s] = {"weights"}
        /\ mgr.pc \in {"generate", "generating"} => mem[s] = Tags

(* An engine the trainer does not know is announced: num_new_engines stays *)
(* positive from its start to the next connect.                            *)
NewEnginesAnnounced ==
    (\E s \in Leaders : all_engines[s] # 0 /\ Current(s) \notin targets)
        => \E g \in Groups : num_new_engines[g] > 0

(* An engine the monitor took down comes back, unless the training ends.   *)
DeadReplaced ==
    \A s \in Slots : all_engines[s] = 0 ~>
        (all_engines[s] # 0 \/ mgr.pc \in {"failed", "assertion_failed"})

(* ServerGroup restarts exactly the engines recover found dead (the        *)
(* assertion "num_new_engines does not match dead_indices length").        *)
RecoverCountsAgree == mgr.pc # "assertion_failed"

(***************************************************************************)
(* The inductive invariants.  A group whose live engines the trainer does  *)
(* not all know has a positive num_new_engines; start_engines overwrites   *)
(* that number, so the groups it has yet to visit must be known; and what  *)
(* was pushed was pushed to everyone known.                                *)
(***************************************************************************)
EnginesTyped ==
    /\ all_engines \in [Slots -> Nat] /\ spawned \in [Slots -> Nat]
    /\ num_new_engines \in [Groups -> Nat] /\ mgr \in MgrStates /\ mgr.group > 0
    /\ args \in Setups

Known(g) ==
    \A s \in Leaders : s[1] = g /\ all_engines[s] # 0 => Current(s) \in targets

UnknownCounted == \A g \in Groups : Known(g) \/ num_new_engines[g] > 0

KnownByPhase ==
    /\ mgr.pc = "starting" => \A g \in Groups : g >= mgr.group => Known(g)
    /\ mgr.pc \in {"onload", "recover"} /\ rollout_id # -1 => \A g \in Groups : Known(g)
    /\ mgr.pc \in {"update", "onload_kv", "generate", "generating", "training"}
            => \A g \in Groups : Known(g)

PushedToTargets ==
    mgr.pc \in {"onload_kv", "generate", "generating"} => loaded = targets

AnnouncedInv == UnknownCounted /\ KnownByPhase /\ PushedToTargets
=============================================================================
