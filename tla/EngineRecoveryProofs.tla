------------------------ MODULE EngineRecoveryProofs ------------------------
(***************************************************************************)
(* For any number of groups, engines and nodes, and however often monitors *)
(* kill and actors crash: an engine the trainer does not know is announced *)
(* to it, every engine that serves a rollout holds the weights that were   *)
(* pushed last, a monitor kills the actor it checked, and the memory of an *)
(* engine that shares GPUs with training follows the phase.                *)
(***************************************************************************)
EXTENDS EngineRecovery, FiniteSetTheorems, TLAPS

(***************************************************************************)
(* Slots.                                                                  *)
(***************************************************************************)

(* The leader of an engine is one of the slots of its group.               *)
LEMMA LeadersAreSlots ==
    ASSUME NEW s \in Leaders
    PROVE  s \in Slots /\ s[1] \in Groups
  <1>1. PICK g \in Groups, e \in Engines : s = <<g, e, 1>>
    BY DEF Leaders, Leader
  <1>2. 1 \in Nodes
    BY RecoveryAssumption DEF Nodes
  <1> QED
    BY <1>1, <1>2 DEF Slots

(* There are finitely many slots.                                          *)
LEMMA SlotsFinite == IsFiniteSet(Slots)
  <1> DEFINE P == (Groups \X Engines) \X Nodes
             f == [p \in P |-> <<p[1][1], p[1][2], p[2]>>]
  <1>1. IsFiniteSet(Groups) /\ IsFiniteSet(Engines) /\ IsFiniteSet(Nodes)
    BY RecoveryAssumption, FS_Interval DEF Groups, Engines, Nodes
  <1>2. IsFiniteSet(P)
    <2>1. IsFiniteSet(Groups \X Engines)
      BY <1>1, FS_Product
    <2> QED
      BY <1>1, <2>1, FS_Product
  <1>3. f \in [P -> Slots]
    BY DEF Slots
  <1>4. ASSUME NEW s \in Slots
        PROVE  \E p \in P : f[p] = s
    <2>1. PICK g \in Groups, e \in Engines, n \in Nodes : s = <<g, e, n>>
      BY DEF Slots
    <2>2. <<<<g, e>>, n>> \in P /\ f[<<<<g, e>>, n>>] = <<g, e, n>>
      OBVIOUS
    <2> QED
      BY <2>1, <2>2
  <1>5. f \in Surjection(P, Slots)
    BY <1>3, <1>4 DEF Surjection
  <1> HIDE DEF P, f
  <1> QED
    BY <1>2, <1>5, FS_Surjection

(* The number of a group's None slots is positive when there is one.       *)
LEMMA DeadCounted ==
    ASSUME NEW g \in Groups
    PROVE  /\ Cardinality(Dead(g)) \in Nat
           /\ Dead(g) # {} => Cardinality(Dead(g)) > 0
  <1>1. IsFiniteSet(Dead(g))
    <2>1. Dead(g) \subseteq Slots
      BY DEF Dead
    <2> QED
      BY <2>1, SlotsFinite, FS_Subset
  <1>2. Cardinality(Dead(g)) \in Nat
    BY <1>1, FS_CardinalityType
  <1>3. Cardinality(Dead(g)) = 0 <=> Dead(g) = {}
    BY <1>1, FS_EmptySet
  <1> QED
    BY <1>2, <1>3

(* A group stays known while its slots keep their actors or lose them.     *)
LEMMA KnownKept ==
    ASSUME NEW g \in Groups, Known(g), targets' = targets,
           \A s \in Slots : s[1] = g => all_engines'[s] \in {0, all_engines[s]}
    PROVE  Known(g)'
  <1>1. ASSUME NEW s \in Leaders, s[1] = g, all_engines'[s] # 0
        PROVE  Current(s)' \in targets'
    <2>1. all_engines'[s] = all_engines[s]
      BY <1>1, LeadersAreSlots
    <2> QED
      BY <1>1, <2>1 DEF Known, Current
  <1> QED
    BY <1>1 DEF Known, Leaders, Leader, Groups, Engines

(***************************************************************************)
(* Types.                                                                  *)
(***************************************************************************)

(* A monitor leaves the manager's state alone and at most empties a slot.  *)
LEMMA MonitorEffect ==
    ASSUME EnginesTyped, NEW g \in Groups, MonitorStep(g)
    PROVE  /\ UNCHANGED <<spawned, num_new_engines, mgr, managerVars, targets, loaded>>
           /\ all_engines' \in [Slots -> Nat]
           /\ \A s \in Slots : all_engines'[s] \in {0, all_engines[s]}
  <1>1. CASE SlotCleared(g)
    <2>1. all_engines' = [all_engines EXCEPT ![<<g, mon[g].engine, mon[g].node>>] = 0]
      BY <1>1 DEF SlotCleared
    <2>2. UNCHANGED <<spawned, num_new_engines, mgr, managerVars, targets, loaded>>
      BY <1>1 DEF SlotCleared, trainVars
    <2> QED
      BY <2>1, <2>2 DEF EnginesTyped
  <1>2. CASE \/ LoopTop(g) \/ FirstWaitOver(g) \/ ClearFirstWait(g) \/ StartRound(g)
             \/ NextCheck(g) \/ CheckPasses(g) \/ CheckFails(g) \/ KillNode(g) \/ IntervalOver(g)
    <2>1. OnlyMon
      BY <1>2 DEF LoopTop, FirstWaitOver, ClearFirstWait, StartRound, NextCheck, CheckPasses,
                  CheckFails, KillNode, IntervalOver
    <2> QED
      BY <2>1 DEF OnlyMon, engineVars, trainVars, EnginesTyped
  <1> QED
    BY <1>1, <1>2 DEF MonitorStep

(* The manager's state after a jump.                                       *)
LEMMA Jump ==
    ASSUME mgr \in MgrStates, mgr.group > 0, NEW pc \in MgrPCs, Goto(pc)
    PROVE  mgr' \in MgrStates /\ mgr'.pc = pc /\ mgr'.group > 0
  BY DEF Goto, MgrStates

(* What start_engines does to the engines and the count of its group.      *)
LEMMA StartEffect ==
    ASSUME EnginesTyped, start_engines
    PROVE  LET g == mgr.group
           IN  /\ g \in Groups /\ mgr.pc = "starting"
               /\ EnginesTyped'
               /\ mgr'.pc = "starting" /\ mgr'.group = g + 1
               /\ UNCHANGED <<managerVars, targets, loaded>>
               /\ num_new_engines'[g] = Cardinality(Dead(g))
               /\ \A h \in Groups \ {g} : num_new_engines'[h] = num_new_engines[h]
               /\ \A s \in Slots : s \notin Dead(g) => all_engines'[s] = all_engines[s]
  <1> DEFINE g == mgr.group
  <1>1. g \in Nat \ {0} /\ g <= NumGroups /\ mgr.pc = "starting" /\ NumGroups \in Nat
    BY RecoveryAssumption DEF EnginesTyped, MgrStates, start_engines
  <1>2. g \in Groups
    BY <1>1 DEF Groups
  <1>3. Cardinality(Dead(g)) \in Nat
    BY <1>2, DeadCounted
  <1>4. mgr' = [mgr EXCEPT !.group = g + 1]
    BY DEF start_engines
  <1>5. mgr' \in MgrStates /\ mgr'.pc = "starting" /\ mgr'.group = g + 1 /\ mgr'.group > 0
    BY <1>1, <1>4 DEF EnginesTyped, MgrStates, MgrPCs
  <1>6. /\ all_engines' = [s \in Slots |-> IF s \in Dead(g) THEN spawned[s] + 1 ELSE all_engines[s]]
        /\ spawned' = [s \in Slots |-> IF s \in Dead(g) THEN spawned[s] + 1 ELSE spawned[s]]
    BY DEF start_engines
  <1>7. /\ all_engines' \in [Slots -> Nat] /\ spawned' \in [Slots -> Nat]
        /\ \A s \in Slots : s \notin Dead(g) => all_engines'[s] = all_engines[s]
    <2> HIDE DEF g
    <2> QED
      BY <1>6 DEF EnginesTyped
  <1>8. num_new_engines' = [num_new_engines EXCEPT ![g] = Cardinality(Dead(g))]
    BY DEF start_engines
  <1>9. /\ num_new_engines' \in [Groups -> Nat]
        /\ num_new_engines'[g] = Cardinality(Dead(g))
        /\ \A h \in Groups \ {g} : num_new_engines'[h] = num_new_engines[h]
    <2> HIDE DEF g
    <2> QED
      BY <1>2, <1>3, <1>8 DEF EnginesTyped
  <1>10. UNCHANGED <<managerVars, targets, loaded>>
    BY DEF start_engines, trainVars
  <1> QED
    BY <1>1, <1>2, <1>5, <1>7, <1>9, <1>10 DEF EnginesTyped, managerVars

(* The steps of the manager that neither start engines nor count them.     *)
QuietStep ==
    \/ onload_weights \/ recover_updatable_engines \/ StartsDone \/ recover \/ update_weights
    \/ onload_kv \/ generate \/ offload \/ skip_offload \/ train

(* Those steps leave engines, their counts and the targets as they are.    *)
LEMMA QuietEffect ==
    ASSUME QuietStep
    PROVE  UNCHANGED <<all_engines, spawned, num_new_engines, targets, args>>
  BY DEF QuietStep, onload_weights, recover_updatable_engines, StartsDone, recover, update_weights,
         onload_kv, generate, offload, skip_offload, train, engineVars, managerVars, trainVars

(* How the job was started never changes.                                  *)
LEMMA ArgsKept == EnginesTyped /\ [Next]_vars => UNCHANGED args
  <1> SUFFICES ASSUME EnginesTyped, [Next]_vars
               PROVE  UNCHANGED args
    OBVIOUS
  <1>1. ASSUME NEW g \in Groups, MonitorStep(g)
        PROVE  UNCHANGED args
    BY <1>1, MonitorEffect DEF managerVars
  <1>2. CASE start_engines \/ connect_rollout_engines \/ \E s \in Slots : Crash(s)
    BY <1>2 DEF start_engines, connect_rollout_engines, Crash, managerVars
  <1>3. CASE QuietStep
    BY <1>3, QuietEffect
  <1>4. CASE UNCHANGED vars
    BY <1>4 DEF vars
  <1> QED
    BY <1>1, <1>2, <1>3, <1>4 DEF Next, ManagerStep, QuietStep

(* The types of the engines' slots and of the manager are kept.            *)
LEMMA TypedStep == EnginesTyped /\ [Next]_vars => EnginesTyped'
  <1> SUFFICES ASSUME EnginesTyped, [Next]_vars
               PROVE  EnginesTyped'
    OBVIOUS
  <1>0. mgr \in MgrStates /\ mgr.group > 0
    BY DEF EnginesTyped
  <1>1. ASSUME NEW g \in Groups, MonitorStep(g)
        PROVE  EnginesTyped'
    BY <1>1, MonitorEffect DEF EnginesTyped, managerVars
  <1>2. CASE start_engines
    BY <1>2, StartEffect
  <1>3. CASE QuietStep
    <2>1. mgr' \in MgrStates /\ mgr'.group > 0
      <3>1. CASE recover_updatable_engines
        <4>1. CASE Goto("fetch")
          BY <1>0, <4>1, Jump DEF MgrPCs
        <4>2. CASE mgr' = [pc |-> "starting", group |-> 1, dead |-> [g \in Groups |-> Dead(g)]]
          <5>1. [g \in Groups |-> Dead(g)] \in [Groups -> SUBSET Slots]
            BY DEF Dead
          <5> QED
            BY <4>2, <5>1 DEF MgrStates, MgrPCs
        <4> QED
          BY <3>1, <4>1, <4>2 DEF recover_updatable_engines
      <3>2. CASE ~recover_updatable_engines
        <4>1. \E pc \in MgrPCs : Goto(pc)
          BY <1>3, <3>2 DEF QuietStep, onload_weights, StartsDone, recover, update_weights,
                onload_kv, generate, offload, skip_offload, train, MgrPCs
        <4> QED
          BY <1>0, <4>1, Jump
      <3> QED
        BY <3>1, <3>2
    <2> QED
      BY <1>3, <2>1, QuietEffect DEF EnginesTyped
  <1>4. CASE connect_rollout_engines
    <2>1. \E pc \in MgrPCs : Goto(pc)
      BY <1>4 DEF connect_rollout_engines, MgrPCs
    <2>2. mgr' \in MgrStates /\ mgr'.group > 0
      BY <1>0, <2>1, Jump
    <2>3. num_new_engines' \in [Groups -> Nat]
      <3>1. UNCHANGED num_new_engines \/ num_new_engines' = [g \in Groups |-> 0]
        BY <1>4 DEF connect_rollout_engines
      <3> QED
        BY <3>1 DEF EnginesTyped
    <2>4. UNCHANGED <<all_engines, spawned, args>>
      BY <1>4 DEF connect_rollout_engines, engineVars, managerVars
    <2> QED
      BY <2>2, <2>3, <2>4 DEF EnginesTyped
  <1>5. ASSUME NEW s \in Slots, Crash(s)
        PROVE  EnginesTyped'
    BY <1>5 DEF Crash, EnginesTyped, managerVars
  <1>6. CASE UNCHANGED vars
    BY <1>6 DEF vars, EnginesTyped
  <1> QED
    BY <1>1, <1>2, <1>3, <1>4, <1>5, <1>6 DEF Next, ManagerStep, QuietStep

(***************************************************************************)
(* Who is known, counted and loaded.                                       *)
(***************************************************************************)

(* Slots that keep their actors or lose them, with the same targets and    *)
(* counts, leave every group known or counted that was.                    *)
LEMMA KnownKeptByAll ==
    ASSUME UNCHANGED <<targets, num_new_engines>>,
           \A s \in Slots : all_engines'[s] \in {0, all_engines[s]}
    PROVE  /\ \A g \in Groups : Known(g) => Known(g)'
           /\ UnknownCounted => UnknownCounted'
  <1>1. \A g \in Groups : Known(g) => Known(g)'
    BY KnownKept
  <1> QED
    BY <1>1 DEF UnknownCounted

(* start_engines meets groups that are known and counts what it starts.    *)
LEMMA StartAnnounces ==
    ASSUME EnginesTyped, AnnouncedInv, start_engines
    PROVE  AnnouncedInv'
  <1>0. PICK g \in Groups : g = mgr.group
    BY StartEffect
  <1>1. /\ mgr.pc = "starting"
        /\ mgr'.pc = "starting" /\ mgr'.group = g + 1
        /\ UNCHANGED <<managerVars, targets, loaded>>
        /\ num_new_engines'[g] = Cardinality(Dead(g))
        /\ \A h \in Groups \ {g} : num_new_engines'[h] = num_new_engines[h]
        /\ \A s \in Slots : s \notin Dead(g) => all_engines'[s] = all_engines[s]
    BY <1>0, StartEffect
  <1>2. ASSUME NEW h \in Groups, Known(h), h # g \/ Dead(g) = {}
        PROVE  Known(h)'
    <2>1. \A s \in Slots : s[1] = h => all_engines'[s] = all_engines[s]
      BY <1>1, <1>2 DEF Dead
    <2> QED
      BY <1>1, <1>2, <2>1, KnownKept
  <1>3. \A h \in Groups : h >= g => Known(h)
    BY <1>0, <1>1 DEF AnnouncedInv, KnownByPhase
  <1>4. Known(g)
    BY <1>1, <1>3 DEF Groups
  <1>5. UnknownCounted'
    <2>1. ASSUME NEW h \in Groups, h # g
          PROVE  Known(h)' \/ num_new_engines'[h] > 0
      BY <1>1, <1>2, <2>1 DEF AnnouncedInv, UnknownCounted
    <2>2. Known(g)' \/ num_new_engines'[g] > 0
      <3>1. CASE Dead(g) = {}
        BY <1>1, <1>2, <1>4, <3>1
      <3>2. CASE Dead(g) # {}
        <4>1. Cardinality(Dead(g)) > 0
          BY <1>1, <3>2, DeadCounted
        <4> QED
          BY <1>1, <4>1
      <3> QED
        BY <3>1, <3>2
    <2> QED
      BY <2>1, <2>2 DEF UnknownCounted
  <1>6. \A h \in Groups : h >= mgr'.group => Known(h)'
    BY <1>1, <1>2, <1>3 DEF Groups
  <1> QED
    BY <1>1, <1>5, <1>6 DEF AnnouncedInv, KnownByPhase, PushedToTargets, managerVars

(* connect_rollout_engines is skipped only when nothing is new, and makes  *)
(* every leader known otherwise.                                           *)
LEMMA ConnectKnows ==
    ASSUME EnginesTyped, AnnouncedInv, connect_rollout_engines
    PROVE  AnnouncedInv'
  <1>0. mgr \in MgrStates /\ mgr.group > 0 /\ UNCHANGED all_engines
    BY DEF EnginesTyped, connect_rollout_engines, engineVars
  <1>1. CASE \A g \in Groups : num_new_engines[g] <= 0
    <2>1. Goto("update") /\ UNCHANGED <<num_new_engines, targets>>
      BY <1>1 DEF connect_rollout_engines
    <2>2. mgr'.pc = "update"
      BY <1>0, <2>1, Jump DEF MgrPCs
    <2>3. \A g \in Groups : Known(g)
      <3>1. \A g \in Groups : ~(num_new_engines[g] > 0)
        BY <1>1 DEF EnginesTyped
      <3> QED
        BY <3>1 DEF AnnouncedInv, UnknownCounted
    <2>4. \A g \in Groups : Known(g)'
      BY <1>0, <2>1, <2>3 DEF Known, Current
    <2> QED
      BY <2>2, <2>4 DEF AnnouncedInv, UnknownCounted, KnownByPhase, PushedToTargets, managerVars
  <1>2. CASE /\ ~ \A g \in Groups : num_new_engines[g] <= 0
             /\ ~Reachable({Current(s) : s \in Leaders})
    <2>1. Goto("failed") /\ UNCHANGED <<num_new_engines, targets>>
      BY <1>2 DEF connect_rollout_engines
    <2>2. mgr'.pc = "failed"
      BY <1>0, <2>1, Jump DEF MgrPCs
    <2>3. UnknownCounted'
      BY <1>0, <2>1 DEF AnnouncedInv, UnknownCounted, Known, Current
    <2> QED
      BY <2>2, <2>3 DEF AnnouncedInv, KnownByPhase, PushedToTargets, managerVars
  <1>3. CASE /\ ~ \A g \in Groups : num_new_engines[g] <= 0
             /\ Reachable({Current(s) : s \in Leaders})
    <2>1. Goto("update") /\ targets' = {Current(s) : s \in Leaders}
      BY <1>3 DEF connect_rollout_engines
    <2>2. mgr'.pc = "update"
      BY <1>0, <2>1, Jump DEF MgrPCs
    <2>3. \A g \in Groups : Known(g)'
      BY <1>0, <2>1 DEF Known, Current
    <2> QED
      BY <2>2, <2>3 DEF AnnouncedInv, UnknownCounted, KnownByPhase, PushedToTargets, managerVars
  <1> QED
    BY <1>1, <1>2, <1>3

(* The manager's other steps move on from one phase to the next.           *)
LEMMA QuietAnnounces ==
    ASSUME EnginesTyped, AnnouncedInv, QuietStep
    PROVE  AnnouncedInv'
  <1>0. mgr \in MgrStates /\ mgr.group > 0
    BY DEF EnginesTyped
  <1>1. UNCHANGED <<all_engines, num_new_engines, targets>>
    BY QuietEffect
  <1>2. /\ \A g \in Groups : Known(g) => Known(g)'
        /\ UnknownCounted'
    BY <1>1 DEF AnnouncedInv, UnknownCounted, Known, Current
  <1>3. CASE onload_weights \/ recover_updatable_engines
    <2>1. UNCHANGED rollout_id /\ mgr.pc \in {"onload", "recover"}
      BY <1>3 DEF onload_weights, recover_updatable_engines, managerVars
    <2>2. CASE onload_weights
      <3>1. mgr'.pc = "recover" \/ mgr'.pc = "failed"
        BY <1>0, <2>2, Jump DEF onload_weights, MgrPCs
      <3> QED
        BY <1>2, <2>1, <3>1 DEF AnnouncedInv, KnownByPhase, PushedToTargets, managerVars
    <2>3. CASE recover_updatable_engines /\ rollout_id = -1
      <3>1. mgr'.pc = "fetch"
        BY <1>0, <2>3, Jump DEF recover_updatable_engines, MgrPCs
      <3> QED
        BY <1>2, <3>1 DEF AnnouncedInv, KnownByPhase, PushedToTargets, managerVars
    <2>4. CASE recover_updatable_engines /\ rollout_id # -1
      <3>1. mgr'.pc = "starting"
        BY <2>4 DEF recover_updatable_engines
      <3>2. \A g \in Groups : Known(g)'
        BY <1>2, <2>1, <2>4 DEF AnnouncedInv, KnownByPhase
      <3> QED
        BY <1>2, <3>1, <3>2 DEF AnnouncedInv, KnownByPhase, PushedToTargets, managerVars
    <2> QED
      BY <1>3, <2>2, <2>3, <2>4
  <1>4. CASE StartsDone \/ recover
    <2>1. mgr'.pc \in {"finish", "fetch", "failed", "assertion_failed"}
      BY <1>0, <1>4, Jump DEF StartsDone, recover, MgrPCs
    <2> QED
      BY <1>2, <2>1 DEF AnnouncedInv, KnownByPhase, PushedToTargets, managerVars
  <1>5. CASE update_weights \/ onload_kv \/ generate \/ offload \/ skip_offload \/ train
    <2>1. \A g \in Groups : Known(g)'
      BY <1>2, <1>5 DEF AnnouncedInv, KnownByPhase, update_weights, onload_kv, generate,
                        offload, skip_offload, train
    <2>2. mgr'.pc \in {"onload_kv", "generate", "generating", "training", "onload", "failed"}
      BY <1>0, <1>5, Jump DEF update_weights, onload_kv, generate, offload, skip_offload, train, MgrPCs
    <2>3. PushedToTargets'
      <3>1. CASE update_weights
        <4>1. CASE Reachable(targets)
          BY <1>1, <3>1, <4>1 DEF update_weights, PushedToTargets
        <4>2. CASE ~Reachable(targets)
          BY <1>0, <3>1, <4>2, Jump DEF update_weights, MgrPCs, PushedToTargets
        <4> QED
          BY <4>1, <4>2
      <3>2. CASE onload_kv \/ generate
        BY <1>1, <3>2 DEF onload_kv, generate, trainVars, AnnouncedInv, PushedToTargets
      <3>3. CASE offload \/ skip_offload \/ train
        <4>1. mgr'.pc \in {"training", "onload", "failed"}
          BY <1>0, <3>3, Jump DEF offload, skip_offload, train, MgrPCs
        <4> QED
          BY <4>1 DEF PushedToTargets
      <3> QED
        BY <1>5, <3>1, <3>2, <3>3
    <2> QED
      BY <1>2, <2>1, <2>2, <2>3 DEF AnnouncedInv, KnownByPhase
  <1> QED
    BY <1>3, <1>4, <1>5 DEF QuietStep

(* Every step keeps unknown engines counted and phases' promises.          *)
LEMMA AnnouncedStep == EnginesTyped /\ AnnouncedInv /\ [Next]_vars => AnnouncedInv'
  <1> SUFFICES ASSUME EnginesTyped, AnnouncedInv, [Next]_vars
               PROVE  AnnouncedInv'
    OBVIOUS
  <1>1. ASSUME NEW g \in Groups, MonitorStep(g)
        PROVE  AnnouncedInv'
    <2>1. /\ UNCHANGED <<num_new_engines, mgr, managerVars, targets, loaded>>
          /\ \A s \in Slots : all_engines'[s] \in {0, all_engines[s]}
      BY <1>1, MonitorEffect
    <2>2. /\ \A h \in Groups : Known(h) => Known(h)'
          /\ UnknownCounted'
      BY <2>1, KnownKeptByAll DEF AnnouncedInv
    <2> QED
      BY <2>1, <2>2 DEF AnnouncedInv, KnownByPhase, PushedToTargets, managerVars
  <1>2. CASE start_engines
    BY <1>2, StartAnnounces
  <1>3. CASE QuietStep
    BY <1>3, QuietAnnounces
  <1>4. CASE connect_rollout_engines
    BY <1>4, ConnectKnows
  <1>5. CASE (\E s \in Slots : Crash(s)) \/ UNCHANGED vars
    <2>1. UNCHANGED <<all_engines, num_new_engines, mgr, managerVars, targets, loaded>>
      BY <1>5 DEF Crash, managerVars, trainVars, vars
    <2> QED
      BY <2>1 DEF AnnouncedInv, UnknownCounted, KnownByPhase, PushedToTargets, Known, Current, managerVars
  <1> QED
    BY <1>1, <1>2, <1>3, <1>4, <1>5 DEF Next, ManagerStep, QuietStep

(* At the start every group is counted and nothing was pushed.             *)
LEMMA AnnouncedInit == Init => EnginesTyped /\ AnnouncedInv
  <1> SUFFICES ASSUME Init
               PROVE  EnginesTyped /\ AnnouncedInv
    OBVIOUS
  <1>1. NumEngines * NodesPerEngine \in Nat \ {0}
    BY RecoveryAssumption
  <1>2. mgr \in MgrStates /\ mgr.group > 0 /\ mgr.pc = "onload" /\ rollout_id = -1
    BY DEF Init, MgrStates, MgrPCs
  <1>3. num_new_engines \in [Groups -> Nat] /\ \A g \in Groups : num_new_engines[g] > 0
    BY <1>1 DEF Init
  <1>4. EnginesTyped
    BY <1>2, <1>3 DEF Init, EnginesTyped
  <1> QED
    BY <1>2, <1>3, <1>4 DEF AnnouncedInv, UnknownCounted, KnownByPhase, PushedToTargets, managerVars

(* An engine that is up and unknown to the trainer is announced: as long   *)
(* as it is not connected, some group's num_new_engines is positive, for   *)
(* any number of groups, engines, nodes, kills, crashes and restarts.      *)
THEOREM NewEnginesAreAnnounced == Spec => []NewEnginesAnnounced
  <1>1. EnginesTyped /\ AnnouncedInv /\ [Next]_vars => (EnginesTyped /\ AnnouncedInv)'
    BY TypedStep, AnnouncedStep
  <1>2. AnnouncedInv => NewEnginesAnnounced
    BY LeadersAreSlots DEF AnnouncedInv, UnknownCounted, Known, NewEnginesAnnounced
  <1> QED
    BY AnnouncedInit, <1>1, <1>2, PTL DEF Spec

(* No engine serves a rollout with weights other than those pushed last,   *)
(* however the monitors and crashes interfere with recovery.               *)
THEOREM ServingEnginesAreUpdated == Spec => []ServingIsUpdated
  <1>1. EnginesTyped /\ AnnouncedInv /\ [Next]_vars => (EnginesTyped /\ AnnouncedInv)'
    BY TypedStep, AnnouncedStep
  <1>2. AnnouncedInv => ServingIsUpdated
    <2> SUFFICES ASSUME AnnouncedInv, mgr.pc \in {"generate", "generating"},
                        NEW s \in Leaders, all_engines[s] # 0
                 PROVE  Current(s) \in loaded
      BY DEF ServingIsUpdated
    <2>1. Known(s[1]) /\ s[1] \in Groups
      BY LeadersAreSlots DEF AnnouncedInv, KnownByPhase
    <2>2. Current(s) \in targets
      BY <2>1 DEF Known
    <2> QED
      BY <2>2 DEF AnnouncedInv, PushedToTargets
  <1> QED
    BY AnnouncedInit, <1>1, <1>2, PTL DEF Spec

(***************************************************************************)
(* A round of a monitor.  Of the engines the round has yet to kill or to   *)
(* pass by, a copied actor still is in its slot: only the monitor itself   *)
(* empties slots of its group, and recovery fills none but empty ones.     *)
(***************************************************************************)
MonStates ==
    [pc : MonPCs, engine : Nat \ {0}, node : Nat \ {0}, victim : Nat,
     engines : [Engines \X Nodes -> Nat]]

MonitorsTyped ==
    /\ mon \in [Groups -> MonStates]
    /\ \A g \in Groups :
          /\ mon[g].pc \in {"checking", "kill", "shutting"} => mon[g].engine \in Engines
          /\ mon[g].pc = "shutting" => mon[g].node \in Nodes

InRound == {"next", "checking", "kill", "shutting"}

\* The round has not yet emptied slot n of engine e.
Ahead(m, e, n) ==
    \/ e > m.engine
    \/ e = m.engine /\ (m.pc \in {"next", "checking"} \/ n >= m.node)

CopyStands(g) ==
    mon[g].pc \in InRound =>
        \A e \in Engines, n \in Nodes :
            Ahead(mon[g], e, n) => mon[g].engines[<<e, n>>] \in {0, all_engines[<<g, e, n>>]}

VictimStands(g) ==
    mon[g].pc = "shutting" =>
        mon[g].engines[<<mon[g].engine, mon[g].node>>] \in {0, mon[g].victim}

RoundInv == \A g \in Groups : CopyStands(g) /\ VictimStands(g)

(***************************************************************************)
(* The memory of the engines that share GPUs, phase by phase.  While       *)
(* recovery starts engines, those it found dead and those that died since  *)
(* hold all memory; it goes on only if the counts agree, and then there    *)
(* are none of the latter.                                                 *)
(***************************************************************************)
\* The live leaders of g outside a set hold the given tags.
Hold(g, except, tags) ==
    \A s \in Leaders \ except : s[1] = g /\ all_engines[s] # 0 => mem[s] = tags

Agrees(g) == num_new_engines[g] = Cardinality(mgr.dead[g])

MemoryByPhase(g) ==
    /\ mgr.pc \in {"onload", "training"} => Hold(g, {}, {})
    /\ mgr.pc \in {"recover", "fetch", "update", "onload_kv"} => Hold(g, {}, {"weights"})
    /\ mgr.pc \in {"generate", "generating"} => Hold(g, {}, Tags)
    /\ mgr.pc = "starting" =>
          IF g < mgr.group THEN Agrees(g) => Hold(g, mgr.dead[g], {"weights"})
          ELSE mgr.dead[g] \subseteq Dead(g) /\ Hold(g, {}, {"weights"})
    /\ mgr.pc = "finish" => (Agrees(g) => Hold(g, mgr.dead[g], {"weights"}))

MemoryInv == \A g \in args.needs_offload : MemoryByPhase(g)

(* At the start no round is under way and the shared GPUs are free.        *)
LEMMA RoundsInit == Init => MonitorsTyped /\ RoundInv /\ MemoryInv
  <1> SUFFICES ASSUME Init
               PROVE  MonitorsTyped /\ RoundInv /\ MemoryInv
    OBVIOUS
  <1>1. MonInit \in MonStates /\ MonInit.pc = "top"
    BY DEF MonInit, MonStates, MonPCs
  <1>2. \A g \in Groups : mon[g] \in MonStates /\ mon[g].pc = "top"
    BY <1>1 DEF Init
  <1>3. mon \in [Groups -> MonStates]
    BY <1>2 DEF Init
  <1>4. MonitorsTyped /\ RoundInv
    BY <1>2, <1>3 DEF MonitorsTyped, RoundInv, CopyStands, VictimStands, InRound
  <1>5. mgr.pc = "onload"
    BY DEF Init
  <1>6. \A s \in Leaders : s[1] \in args.needs_offload => mem[s] = {}
    BY DEF Init
  <1> QED
    BY <1>4, <1>5, <1>6 DEF MemoryInv, MemoryByPhase, Hold

(* What the steps of a monitor do to its own record: it jumps, begins a    *)
(* round with a copy of its group's slots, or goes on with its round.      *)
LEMMA MonitorMoves ==
    ASSUME EnginesTyped, MonitorsTyped, NEW g \in Groups, MonitorStep(g)
    PROVE  /\ mon'[g] \in MonStates
           /\ mon' = [mon EXCEPT ![g] = mon'[g]]
           /\ mon'[g].pc \in {"checking", "kill", "shutting"} => mon'[g].engine \in Engines
           /\ mon'[g].pc = "shutting" => mon'[g].node \in Nodes
  <1> DEFINE m == mon[g]
             copy == [x \in Engines \X Nodes |-> all_engines[<<g, x[1], x[2]>>]]
  <1>1. m \in MonStates /\ mon \in [Groups -> MonStates]
    BY DEF MonitorsTyped
  <1>2. /\ m.pc \in {"checking", "kill", "shutting"} => m.engine \in Engines
        /\ m.pc = "shutting" => m.node \in Nodes
    BY DEF MonitorsTyped
  <1>3. copy \in [Engines \X Nodes -> Nat]
    BY DEF EnginesTyped, Slots
  <1>4. NumEngines \in Nat /\ NodesPerEngine \in Nat
    BY RecoveryAssumption
  <1>5. ASSUME NEW pc \in MonPCs \ {"checking", "kill", "shutting"}, Mon(g, pc)
        PROVE  /\ mon'[g] = [m EXCEPT !.pc = pc] /\ mon'[g] \in MonStates
               /\ mon' = [mon EXCEPT ![g] = mon'[g]] /\ mon'[g].pc = pc
    BY <1>1, <1>5 DEF Mon, MonStates
  <1>6. CASE LoopTop(g) \/ FirstWaitOver(g) \/ ClearFirstWait(g) \/ IntervalOver(g)
    <2>1. \E pc \in MonPCs \ {"checking", "kill", "shutting"} : Mon(g, pc)
      BY <1>6 DEF LoopTop, FirstWaitOver, ClearFirstWait, IntervalOver, MonPCs
    <2> QED
      BY <1>5, <2>1
  <1>7. CASE StartRound(g)
    <2>1. CASE Mon(g, "interval")
      <3>1. "interval" \in MonPCs \ {"checking", "kill", "shutting"}
        BY DEF MonPCs
      <3>2. mon'[g] \in MonStates /\ mon' = [mon EXCEPT ![g] = mon'[g]] /\ mon'[g].pc = "interval"
        BY <1>5, <2>1, <3>1
      <3> QED
        BY <3>2
    <2>2. CASE mon' = [mon EXCEPT ![g].pc = "next", ![g].engine = 1, ![g].engines = copy]
      <3> HIDE DEF copy
      <3>1. mon'[g] = [m EXCEPT !.pc = "next", !.engine = 1, !.engines = copy]
        BY <1>1, <2>2
      <3>2. mon'[g] \in MonStates /\ mon'[g].pc = "next"
        <4> DEFINE r == [m EXCEPT !.pc = "next", !.engine = 1, !.engines = copy]
        <4>1. "next" \in MonPCs /\ 1 \in Nat \ {0}
          BY DEF MonPCs
        <4>2. r \in MonStates /\ r.pc = "next"
          BY <1>1, <1>3, <4>1 DEF MonStates
        <4> QED
          BY <3>1, <4>2
      <3> QED
        BY <1>1, <2>2, <3>1, <3>2
    <2> QED
      BY <1>7, <2>1, <2>2 DEF StartRound
  <1>8. CASE NextCheck(g)
    <2>1. \/ mon' = [mon EXCEPT ![g] = [m EXCEPT !.pc = "interval"]]
          \/ mon' = [mon EXCEPT ![g] = [m EXCEPT !.engine = m.engine + 1]] /\ m.pc = "next"
          \/ mon' = [mon EXCEPT ![g] = [m EXCEPT !.pc = "checking"]] /\ ~(m.engine > NumEngines)
      BY <1>8 DEF NextCheck
    <2> QED
      BY <1>1, <1>4, <2>1 DEF MonStates, MonPCs, Engines
  <1>9. CASE CheckPasses(g)
    <2>1. mon' = [mon EXCEPT ![g].pc = "next", ![g].engine = m.engine + 1]
      BY <1>9 DEF CheckPasses
    <2> QED
      BY <1>1, <2>1 DEF MonStates, MonPCs
  <1>10. CASE CheckFails(g)
    <2>1. mon' = [mon EXCEPT ![g].pc = "kill", ![g].node = 1] /\ m.pc = "checking"
      BY <1>10 DEF CheckFails
    <2>2. mon'[g] = [m EXCEPT !.pc = "kill", !.node = 1]
      BY <1>1, <2>1
    <2>3. mon'[g] \in MonStates /\ mon'[g].pc = "kill" /\ mon'[g].engine = m.engine
      <3>1. "kill" \in MonPCs /\ 1 \in Nat \ {0}
        BY DEF MonPCs
      <3> QED
        BY <1>1, <2>2, <3>1 DEF MonStates
    <2> QED
      BY <1>1, <1>2, <2>1, <2>2, <2>3
  <1>11. CASE KillNode(g)
    <2>1. /\ m.pc = "kill"
          /\ \/ mon' = [mon EXCEPT ![g] = [m EXCEPT !.pc = "next", !.engine = m.engine + 1]]
             \/ /\ ~(m.node > NodesPerEngine)
                /\ mon' = [mon EXCEPT ![g] = [m EXCEPT !.pc = "shutting",
                                              !.victim = all_engines[<<g, m.engine, m.node>>]]]
      BY <1>11 DEF KillNode
    <2>2. CASE mon' = [mon EXCEPT ![g] = [m EXCEPT !.pc = "next", !.engine = m.engine + 1]]
      <3>1. mon'[g] = [m EXCEPT !.pc = "next", !.engine = m.engine + 1]
        BY <1>1, <2>2
      <3>2. m.engine + 1 \in Nat \ {0}
        BY <1>1 DEF MonStates
      <3>3. mon'[g] \in MonStates /\ mon'[g].pc = "next"
        BY <1>1, <3>1, <3>2 DEF MonStates, MonPCs
      <3> QED
        BY <1>1, <2>2, <3>1, <3>3
    <2>3. CASE /\ ~(m.node > NodesPerEngine)
               /\ mon' = [mon EXCEPT ![g] = [m EXCEPT !.pc = "shutting",
                                             !.victim = all_engines[<<g, m.engine, m.node>>]]]
      <3>1. m.node \in Nodes
        BY <1>1, <1>4, <2>3 DEF MonStates, Nodes
      <3>2. all_engines[<<g, m.engine, m.node>>] \in Nat
        BY <1>2, <2>1, <3>1 DEF EnginesTyped, Slots
      <3> QED
        BY <1>1, <1>2, <2>1, <2>3, <3>1, <3>2 DEF MonStates, MonPCs
    <2> QED
      BY <2>1, <2>2, <2>3
  <1>12. CASE SlotCleared(g)
    <2>1. mon' = [mon EXCEPT ![g].pc = "kill", ![g].node = m.node + 1] /\ m.pc = "shutting"
      BY <1>12 DEF SlotCleared
    <2> QED
      BY <1>1, <1>2, <2>1 DEF MonStates, MonPCs
  <1> QED
    BY <1>6, <1>7, <1>8, <1>9, <1>10, <1>11, <1>12 DEF MonitorStep

(* The manager and crashes leave the monitors where they are.              *)
LEMMA OthersLeaveMonitors ==
    ASSUME ManagerStep \/ (\E s \in Slots : Crash(s)) \/ UNCHANGED vars
    PROVE  UNCHANGED mon
  BY DEF ManagerStep, onload_weights, recover_updatable_engines, start_engines, StartsDone, recover,
         connect_rollout_engines, update_weights, onload_kv, generate, offload, skip_offload, train,
         Crash, vars

(* The types of the monitors are kept.                                     *)
LEMMA MonitorsStep == EnginesTyped /\ MonitorsTyped /\ [Next]_vars => MonitorsTyped'
  <1> SUFFICES ASSUME EnginesTyped, MonitorsTyped, [Next]_vars
               PROVE  MonitorsTyped'
    OBVIOUS
  <1>1. ASSUME NEW g \in Groups, MonitorStep(g)
        PROVE  MonitorsTyped'
    <2>1. mon' = [mon EXCEPT ![g] = mon'[g]] /\ mon'[g] \in MonStates
      BY <1>1, MonitorMoves
    <2>2. /\ mon'[g].pc \in {"checking", "kill", "shutting"} => mon'[g].engine \in Engines
          /\ mon'[g].pc = "shutting" => mon'[g].node \in Nodes
      BY <1>1, MonitorMoves
    <2>3. mon' \in [Groups -> MonStates] /\ \A h \in Groups \ {g} : mon'[h] = mon[h]
      BY <2>1 DEF MonitorsTyped
    <2> QED
      BY <2>2, <2>3 DEF MonitorsTyped
  <1>2. CASE ManagerStep \/ (\E s \in Slots : Crash(s)) \/ UNCHANGED vars
    BY <1>2, OthersLeaveMonitors DEF MonitorsTyped
  <1> QED
    BY <1>1, <1>2 DEF Next

(* No step but a monitor's own takes an actor out of its slot.             *)
LEMMA ActorsStay ==
    ASSUME EnginesTyped, MonitorsTyped, NEW g \in Groups,
           \/ \E h \in Groups \ {g} : MonitorStep(h)
           \/ ManagerStep \/ (\E s \in Slots : Crash(s)) \/ UNCHANGED vars
    PROVE  /\ mon'[g] = mon[g]
           /\ \A s \in Slots : s[1] = g /\ all_engines[s] # 0 => all_engines'[s] = all_engines[s]
  <1>1. ASSUME NEW h \in Groups \ {g}, MonitorStep(h)
        PROVE  /\ mon'[g] = mon[g]
               /\ \A s \in Slots : s[1] = g => all_engines'[s] = all_engines[s]
    <2>1. mon'[g] = mon[g]
      <3>1. mon' = [mon EXCEPT ![h] = mon'[h]]
        BY <1>1, MonitorMoves
      <3> QED
        BY <3>1 DEF MonitorsTyped
    <2>2. \A s \in Slots : s[1] = g => all_engines'[s] = all_engines[s]
      <3>1. CASE SlotCleared(h)
        <4>1. all_engines' = [all_engines EXCEPT ![<<h, mon[h].engine, mon[h].node>>] = 0]
          BY <3>1 DEF SlotCleared
        <4>2. ASSUME NEW s \in Slots, s[1] = g
              PROVE  s # <<h, mon[h].engine, mon[h].node>>
          BY <4>2
        <4> QED
          BY <4>1, <4>2 DEF EnginesTyped
      <3>2. CASE ~SlotCleared(h)
        BY <1>1, <3>2 DEF MonitorStep, LoopTop, FirstWaitOver, ClearFirstWait, StartRound, NextCheck,
              CheckPasses, CheckFails, KillNode, IntervalOver, OnlyMon, engineVars
      <3> QED
        BY <3>1, <3>2
    <2> QED
      BY <2>1, <2>2
  <1>2. CASE ManagerStep \/ (\E s \in Slots : Crash(s)) \/ UNCHANGED vars
    <2>1. UNCHANGED mon
      BY <1>2, OthersLeaveMonitors
    <2>2. CASE start_engines
      BY <2>1, <2>2, StartEffect DEF Dead
    <2>3. CASE ~start_engines
      <3>1. UNCHANGED all_engines
        BY <1>2, <2>3, QuietEffect DEF ManagerStep, QuietStep, connect_rollout_engines, Crash, vars,
              engineVars
      <3> QED
        BY <2>1, <3>1
    <2> QED
      BY <2>2, <2>3
  <1> QED
    BY <1>1, <1>2

(* A round keeps its copy true of what is ahead of it.                     *)
LEMMA RoundKept ==
    ASSUME EnginesTyped, MonitorsTyped, NEW g \in Groups, CopyStands(g), VictimStands(g),
           MonitorStep(g)
    PROVE  CopyStands(g)' /\ VictimStands(g)'
  <1> DEFINE m == mon[g]
             slot(e, n) == all_engines[<<g, e, n>>]
             copy == [x \in Engines \X Nodes |-> all_engines[<<g, x[1], x[2]>>]]
  <1>1. m \in MonStates /\ mon \in [Groups -> MonStates]
    BY DEF MonitorsTyped
  <1>2. /\ m.pc \in {"checking", "kill", "shutting"} => m.engine \in Engines
        /\ m.pc = "shutting" => m.node \in Nodes
    BY DEF MonitorsTyped
  <1>3. m.engine \in Nat /\ m.node \in Nat /\ Engines \subseteq Nat /\ Nodes \subseteq Nat \ {0}
    BY <1>1 DEF MonStates, Engines, Nodes
  <1>4. CASE LoopTop(g) \/ FirstWaitOver(g) \/ ClearFirstWait(g) \/ IntervalOver(g)
    <2>1. \E pc \in MonPCs \ InRound : Mon(g, pc)
      BY <1>4 DEF LoopTop, FirstWaitOver, ClearFirstWait, IntervalOver, MonPCs, InRound
    <2>2. mon'[g].pc \notin InRound
      BY <1>1, <2>1 DEF Mon, MonStates
    <2> QED
      BY <2>2 DEF CopyStands, VictimStands, InRound
  <1>5. CASE ~SlotCleared(g)
    <2> UNCHANGED all_engines
      BY <1>5 DEF MonitorStep, LoopTop, FirstWaitOver, ClearFirstWait, StartRound, NextCheck,
            CheckPasses, CheckFails, KillNode, IntervalOver, OnlyMon, engineVars
    <2>1. CASE StartRound(g)
      <3>1. CASE Mon(g, "interval")
        BY <1>1, <3>1 DEF Mon, MonStates, CopyStands, VictimStands, InRound
      <3>2. CASE mon' = [mon EXCEPT ![g].pc = "next", ![g].engine = 1, ![g].engines = copy]
        <4>1. mon'[g].pc = "next" /\ mon'[g].engines = copy
          <5> HIDE DEF copy
          <5> QED
            BY <1>1, <3>2 DEF MonStates
        <4>2. \A e \in Engines, n \in Nodes : copy[<<e, n>>] = slot(e, n)
          OBVIOUS
        <4> QED
          BY <4>1, <4>2 DEF CopyStands, VictimStands
      <3> QED
        BY <2>1, <3>1, <3>2 DEF StartRound
    <2>2. ASSUME m.pc \in InRound, mon'[g].engines = m.engines,
                 \A e \in Engines, n \in Nodes : Ahead(mon'[g], e, n) => Ahead(m, e, n)
          PROVE  CopyStands(g)'
      BY <2>2 DEF CopyStands
    <2>3. CASE NextCheck(g)
      <3>1. /\ m.pc = "next"
            /\ \/ mon' = [mon EXCEPT ![g] = [m EXCEPT !.pc = "interval"]]
               \/ mon' = [mon EXCEPT ![g] = [m EXCEPT !.engine = m.engine + 1]]
               \/ mon' = [mon EXCEPT ![g] = [m EXCEPT !.pc = "checking"]]
        BY <2>3 DEF NextCheck
      <3>2. CASE mon' = [mon EXCEPT ![g] = [m EXCEPT !.pc = "interval"]]
        BY <1>1, <3>2 DEF MonStates, CopyStands, VictimStands, InRound
      <3>3. CASE mon' = [mon EXCEPT ![g] = [m EXCEPT !.engine = m.engine + 1]]
        <4>1. mon'[g].engines = m.engines /\ mon'[g].pc = "next" /\ mon'[g].engine = m.engine + 1
          BY <1>1, <3>1, <3>3 DEF MonStates
        <4>2. \A e \in Engines, n \in Nodes : Ahead(mon'[g], e, n) => Ahead(m, e, n)
          BY <1>3, <3>1, <4>1 DEF Ahead
        <4> QED
          BY <2>2, <3>1, <4>1, <4>2 DEF VictimStands, InRound
      <3>4. CASE mon' = [mon EXCEPT ![g] = [m EXCEPT !.pc = "checking"]]
        <4>1. mon'[g].engines = m.engines /\ mon'[g].pc = "checking" /\ mon'[g].engine = m.engine
          BY <1>1, <3>1, <3>4 DEF MonStates
        <4>2. \A e \in Engines, n \in Nodes : Ahead(mon'[g], e, n) => Ahead(m, e, n)
          BY <1>3, <3>1, <4>1 DEF Ahead
        <4> QED
          BY <2>2, <3>1, <4>1, <4>2 DEF VictimStands, InRound
      <3> QED
        BY <3>1, <3>2, <3>3, <3>4
    <2>4. CASE CheckPasses(g)
      <3>1. mon' = [mon EXCEPT ![g].pc = "next", ![g].engine = m.engine + 1] /\ m.pc = "checking"
        BY <2>4 DEF CheckPasses
      <3>2. mon'[g].engines = m.engines /\ mon'[g].pc = "next" /\ mon'[g].engine = m.engine + 1
        BY <1>1, <3>1 DEF MonStates
      <3>3. \A e \in Engines, n \in Nodes : Ahead(mon'[g], e, n) => Ahead(m, e, n)
        BY <1>3, <3>1, <3>2 DEF Ahead
      <3> QED
        BY <2>2, <3>1, <3>2, <3>3 DEF VictimStands, InRound
    <2>5. CASE CheckFails(g)
      <3>1. mon' = [mon EXCEPT ![g].pc = "kill", ![g].node = 1] /\ m.pc = "checking"
        BY <2>5 DEF CheckFails
      <3>2. /\ mon'[g].engines = m.engines /\ mon'[g].pc = "kill" /\ mon'[g].engine = m.engine
            /\ mon'[g].node = 1
        BY <1>1, <3>1 DEF MonStates
      <3>3. \A e \in Engines, n \in Nodes : Ahead(mon'[g], e, n) => Ahead(m, e, n)
        BY <1>3, <3>1, <3>2 DEF Ahead
      <3> QED
        BY <2>2, <3>1, <3>2, <3>3 DEF VictimStands, InRound
    <2>6. CASE KillNode(g)
      <3>1. /\ m.pc = "kill"
            /\ \/ mon' = [mon EXCEPT ![g] = [m EXCEPT !.pc = "next", !.engine = m.engine + 1]]
               \/ /\ ~(m.node > NodesPerEngine)
                  /\ mon' = [mon EXCEPT ![g] = [m EXCEPT !.pc = "shutting",
                                                !.victim = slot(m.engine, m.node)]]
        BY <2>6 DEF KillNode
      <3>2. CASE mon' = [mon EXCEPT ![g] = [m EXCEPT !.pc = "next", !.engine = m.engine + 1]]
        <4>1. mon'[g].engines = m.engines /\ mon'[g].pc = "next" /\ mon'[g].engine = m.engine + 1
          BY <1>1, <3>2 DEF MonStates
        <4>2. \A e \in Engines, n \in Nodes : Ahead(mon'[g], e, n) => Ahead(m, e, n)
          BY <1>3, <3>1, <4>1 DEF Ahead
        <4> QED
          BY <2>2, <3>1, <4>1, <4>2 DEF VictimStands, InRound
      <3>3. CASE /\ ~(m.node > NodesPerEngine)
                 /\ mon' = [mon EXCEPT ![g] = [m EXCEPT !.pc = "shutting",
                                               !.victim = slot(m.engine, m.node)]]
        <4>1. /\ mon'[g].engines = m.engines /\ mon'[g].pc = "shutting"
              /\ mon'[g].engine = m.engine /\ mon'[g].node = m.node
              /\ mon'[g].victim = slot(m.engine, m.node)
          <5> HIDE DEF slot
          <5> QED
            BY <1>1, <3>3 DEF MonStates
        <4>2. \A e \in Engines, n \in Nodes : Ahead(mon'[g], e, n) => Ahead(m, e, n)
          BY <1>3, <3>1, <4>1 DEF Ahead
        <4>3. m.engine \in Engines /\ m.node \in Nodes /\ Ahead(m, m.engine, m.node)
          <5>1. m.node \in Nat \ {0} /\ NodesPerEngine \in Nat
            BY <1>1, RecoveryAssumption DEF MonStates
          <5> QED
            BY <1>2, <3>1, <3>3, <5>1 DEF Nodes, Ahead
        <4>4. m.engines[<<m.engine, m.node>>] \in {0, slot(m.engine, m.node)}
          BY <3>1, <4>3 DEF CopyStands, InRound
        <4> QED
          BY <2>2, <3>1, <4>1, <4>2, <4>4 DEF VictimStands, InRound
      <3> QED
        BY <3>1, <3>2, <3>3
    <2> QED
      BY <1>4, <1>5, <2>1, <2>3, <2>4, <2>5, <2>6 DEF MonitorStep
  <1>6. CASE SlotCleared(g)
    <2>1. /\ m.pc = "shutting"
          /\ all_engines' = [all_engines EXCEPT ![<<g, m.engine, m.node>>] = 0]
          /\ mon' = [mon EXCEPT ![g].pc = "kill", ![g].node = m.node + 1]
      BY <1>6 DEF SlotCleared
    <2>2. /\ mon'[g].engines = m.engines /\ mon'[g].pc = "kill" /\ mon'[g].engine = m.engine
          /\ mon'[g].node = m.node + 1
      BY <1>1, <2>1 DEF MonStates
    <2>3. ASSUME NEW e \in Engines, NEW n \in Nodes, Ahead(mon'[g], e, n)
          PROVE  Ahead(m, e, n) /\ <<g, e, n>> # <<g, m.engine, m.node>>
      BY <1>3, <2>1, <2>2, <2>3 DEF Ahead
    <2>4. ASSUME NEW e \in Engines, NEW n \in Nodes, <<g, e, n>> # <<g, m.engine, m.node>>
          PROVE  all_engines'[<<g, e, n>>] = all_engines[<<g, e, n>>]
      <3>1. <<g, e, n>> \in Slots
        BY DEF Slots
      <3> QED
        BY <2>1, <2>4, <3>1 DEF EnginesTyped
    <2> QED
      BY <2>1, <2>2, <2>3, <2>4 DEF CopyStands, VictimStands, InRound
  <1> QED
    BY <1>5, <1>6

(* Every step keeps the rounds' copies and victims.                        *)
LEMMA RoundStep == EnginesTyped /\ MonitorsTyped /\ RoundInv /\ [Next]_vars => RoundInv'
  <1> SUFFICES ASSUME EnginesTyped, MonitorsTyped, RoundInv, [Next]_vars, NEW g \in Groups
               PROVE  CopyStands(g)' /\ VictimStands(g)'
    BY DEF RoundInv
  <1>1. CASE MonitorStep(g)
    BY <1>1, RoundKept DEF RoundInv
  <1>2. CASE \/ \E h \in Groups \ {g} : MonitorStep(h)
             \/ ManagerStep \/ (\E s \in Slots : Crash(s)) \/ UNCHANGED vars
    <2>1. /\ mon'[g] = mon[g]
          /\ \A s \in Slots : s[1] = g /\ all_engines[s] # 0 => all_engines'[s] = all_engines[s]
      BY <1>2, ActorsStay
    <2>2. ASSUME NEW e \in Engines, NEW n \in Nodes, all_engines[<<g, e, n>>] # 0
          PROVE  all_engines'[<<g, e, n>>] = all_engines[<<g, e, n>>]
      BY <2>1, <2>2 DEF Slots
    <2> QED
      BY <2>1, <2>2 DEF RoundInv, CopyStands, VictimStands
  <1> QED
    BY <1>1, <1>2 DEF Next

(* A monitor's round kills the actor it checked, or a slot that held none  *)
(* when the round began, for any number of engines and nodes and whatever  *)
(* the other monitors, recovery and crashes do in between.                 *)
THEOREM MonitorsKillWhatTheyChecked == Spec => []KillsWhatItChecked
  <1>1. EnginesTyped /\ MonitorsTyped /\ RoundInv /\ [Next]_vars
            => (EnginesTyped /\ MonitorsTyped /\ RoundInv)'
    BY TypedStep, MonitorsStep, RoundStep
  <1>2. RoundInv => KillsWhatItChecked
    BY DEF RoundInv, VictimStands, KillsWhatItChecked
  <1> QED
    BY AnnouncedInit, RoundsInit, <1>1, <1>2, PTL DEF Spec

(***************************************************************************)
(* Memory.                                                                 *)
(***************************************************************************)

(* Monitors, crashes and stuttering leave memory, counts and the manager   *)
(* alone, and can only add to a group's dead slots.                        *)
LEMMA OthersLeaveMemory ==
    ASSUME EnginesTyped,
           (\E h \in Groups : MonitorStep(h)) \/ (\E s \in Slots : Crash(s)) \/ UNCHANGED vars
    PROVE  /\ UNCHANGED <<mem, num_new_engines, mgr>>
           /\ \A s \in Slots : all_engines'[s] \in {0, all_engines[s]}
  <1>1. ASSUME NEW h \in Groups, MonitorStep(h)
        PROVE  UNCHANGED mem
    BY <1>1 DEF MonitorStep, LoopTop, FirstWaitOver, ClearFirstWait, StartRound, NextCheck,
          CheckPasses, CheckFails, KillNode, SlotCleared, IntervalOver, OnlyMon
  <1>2. CASE \E h \in Groups : MonitorStep(h)
    BY <1>1, <1>2, MonitorEffect
  <1>3. CASE (\E s \in Slots : Crash(s)) \/ UNCHANGED vars
    BY <1>3 DEF Crash, vars
  <1> QED
    BY <1>2, <1>3

(* A group whose restarted slots are as many as those found dead restarts  *)
(* exactly those.                                                          *)
LEMMA AgreeMeansSame ==
    ASSUME NEW g \in Groups, mgr.dead[g] \subseteq Dead(g),
           Cardinality(Dead(g)) = Cardinality(mgr.dead[g])
    PROVE  Dead(g) = mgr.dead[g]
  <1>1. Dead(g) \subseteq Slots
    BY DEF Dead
  <1>2. IsFiniteSet(Dead(g))
    BY <1>1, SlotsFinite, FS_Subset
  <1> QED
    BY <1>2, FS_Subset

(* start_engines gives memory to the slots it fills and to no other.       *)
LEMMA StartKeepsMemory ==
    ASSUME EnginesTyped, NEW g \in Groups, MemoryByPhase(g), start_engines
    PROVE  MemoryByPhase(g)'
  <1>0. PICK h \in Groups : h = mgr.group
    BY StartEffect
  <1>1. /\ mgr.pc = "starting" /\ mgr'.pc = "starting" /\ mgr'.group = h + 1
        /\ num_new_engines'[h] = Cardinality(Dead(h))
        /\ \A k \in Groups \ {h} : num_new_engines'[k] = num_new_engines[k]
        /\ \A s \in Slots : s \notin Dead(h) => all_engines'[s] = all_engines[s]
    BY <1>0, StartEffect
  <1>2. mgr'.dead = mgr.dead
    BY DEF start_engines, EnginesTyped, MgrStates
  <1>3. \A s \in Leaders : s \notin Dead(h) => mem'[s] = mem[s] /\ all_engines'[s] = all_engines[s]
    BY <1>0, <1>1, LeadersAreSlots DEF start_engines
  <1>4. \A s \in Leaders : s[1] # h => s \notin Dead(h)
    BY DEF Dead
  <1>5. g \in Nat /\ h \in Nat
    BY DEF Groups
  <1>6. CASE g < h
    <2>1. Agrees(g)' => Agrees(g)
      BY <1>1, <1>2, <1>5, <1>6 DEF Agrees
    <2>2. Agrees(g)' => Hold(g, mgr.dead[g], {"weights"})'
      BY <1>0, <1>1, <1>2, <1>3, <1>4, <1>5, <1>6, <2>1 DEF MemoryByPhase, Hold
    <2>3. g < mgr'.group
      BY <1>1, <1>5, <1>6
    <2> QED
      BY <1>1, <2>2, <2>3 DEF MemoryByPhase
  <1>7. CASE g = h
    <2>1. mgr.dead[g] \subseteq Dead(g) /\ Hold(g, {}, {"weights"})
      BY <1>0, <1>1, <1>5, <1>7 DEF MemoryByPhase
    <2>2. Agrees(g)' => Dead(g) = mgr.dead[g]
      BY <1>1, <1>2, <1>7, <2>1, AgreeMeansSame DEF Agrees
    <2>3. Agrees(g)' => Hold(g, mgr.dead[g], {"weights"})'
      BY <1>2, <1>3, <1>7, <2>1, <2>2 DEF Hold
    <2>4. g < mgr'.group
      BY <1>1, <1>5, <1>7
    <2> QED
      BY <1>1, <2>3, <2>4 DEF MemoryByPhase
  <1>8. CASE g > h
    <2>1. mgr.dead[g] \subseteq Dead(g) /\ Hold(g, {}, {"weights"})
      BY <1>0, <1>1, <1>5, <1>8 DEF MemoryByPhase
    <2>2. \A s \in Slots : s[1] = g => s \notin Dead(h)
      BY <1>5, <1>8 DEF Dead
    <2>3. Dead(g)' = Dead(g)
      BY <1>1, <2>2 DEF Dead
    <2>4. Hold(g, {}, {"weights"})'
      BY <1>3, <1>4, <1>5, <1>8, <2>1 DEF Hold
    <2>5. ~(g < mgr'.group)
      BY <1>1, <1>5, <1>8
    <2> QED
      BY <1>1, <1>2, <2>1, <2>3, <2>4, <2>5 DEF MemoryByPhase
  <1> QED
    BY <1>5, <1>6, <1>7, <1>8

(* The manager's other steps: each takes the memory of the shared groups   *)
(* from its phase to the next.                                             *)
LEMMA ManagerKeepsMemory ==
    ASSUME EnginesTyped, NEW g \in args.needs_offload, MemoryByPhase(g),
           QuietStep \/ connect_rollout_engines
    PROVE  MemoryByPhase(g)'
  <1>0. mgr \in MgrStates /\ mgr.group > 0 /\ g \in Groups
    BY DEF EnginesTyped, Setups
  <1>1. UNCHANGED all_engines
    BY QuietEffect DEF connect_rollout_engines, engineVars
  <1>2. CASE mgr'.pc \in {"failed", "assertion_failed"}
    BY <1>2 DEF MemoryByPhase
  <1>3. CASE onload_weights /\ mgr'.pc \notin {"failed", "assertion_failed"}
    <2>1. /\ mem' = [s \in Leaders |-> IF s \in Shared THEN mem[s] \cup {"weights"} ELSE mem[s]]
          /\ Goto("recover") /\ mgr.pc = "onload"
      BY <1>0, <1>3, Jump DEF onload_weights, MgrPCs
    <2>2. mgr'.pc = "recover"
      BY <1>0, <2>1, Jump DEF MgrPCs
    <2>3. Hold(g, {}, {"weights"})'
      BY <1>1, <2>1 DEF MemoryByPhase, Hold, Shared
    <2> QED
      BY <2>2, <2>3 DEF MemoryByPhase
  <1>4. CASE recover_updatable_engines
    <2>1. mgr.pc = "recover" /\ UNCHANGED mem
      BY <1>4 DEF recover_updatable_engines
    <2>2. Hold(g, {}, {"weights"})'
      BY <1>1, <2>1 DEF MemoryByPhase, Hold
    <2>3. CASE Goto("fetch")
      <3>1. mgr'.pc = "fetch"
        BY <1>0, <2>3, Jump DEF MgrPCs
      <3> QED
        BY <2>2, <3>1 DEF MemoryByPhase
    <2>4. CASE mgr' = [pc |-> "starting", group |-> 1, dead |-> [k \in Groups |-> Dead(k)]]
      <3>1. mgr'.pc = "starting" /\ mgr'.group = 1 /\ mgr'.dead[g] = Dead(g)
        BY <1>0, <2>4
      <3>2. Dead(g)' = Dead(g)
        BY <1>1 DEF Dead
      <3>3. ~(g < mgr'.group)
        BY <1>0, <3>1 DEF Groups
      <3> QED
        BY <2>2, <3>1, <3>2, <3>3 DEF MemoryByPhase
    <2> QED
      BY <1>4, <2>3, <2>4 DEF recover_updatable_engines
  <1>5. CASE StartsDone
    <2>1. mgr.pc = "starting" /\ mgr.group > NumGroups /\ Goto("finish")
          /\ UNCHANGED <<mem, num_new_engines>>
      BY <1>5 DEF StartsDone
    <2>2. mgr'.pc = "finish" /\ mgr'.dead = mgr.dead
      BY <1>0, <2>1 DEF Goto, MgrStates
    <2>3. g < mgr.group
      BY <1>0, <2>1, RecoveryAssumption DEF Groups, MgrStates
    <2>4. Agrees(g)' => Hold(g, mgr.dead[g], {"weights"})'
      BY <1>1, <2>1, <2>2, <2>3 DEF MemoryByPhase, Hold, Agrees
    <2> QED
      BY <2>2, <2>4 DEF MemoryByPhase
  <1>6. CASE recover /\ mgr'.pc \notin {"failed", "assertion_failed"}
    <2>1. /\ mgr.pc = "finish" /\ UNCHANGED num_new_engines
          /\ \A h \in Groups : num_new_engines[h] = Cardinality(mgr.dead[h])
          /\ mem' = [s \in Leaders |-> IF s \in NewShared THEN {"weights"} ELSE mem[s]]
          /\ Goto("fetch")
      BY <1>0, <1>6, Jump DEF recover, MgrPCs
    <2>2. mgr'.pc = "fetch"
      BY <1>0, <2>1, Jump DEF MgrPCs
    <2>3. Hold(g, mgr.dead[g], {"weights"})
      BY <1>0, <2>1 DEF MemoryByPhase, Agrees
    <2>4. Hold(g, {}, {"weights"})'
      <3> SUFFICES ASSUME NEW s \in Leaders, s[1] = g, all_engines[s] # 0
                   PROVE  mem'[s] = {"weights"}
        BY <1>1 DEF Hold
      <3>1. CASE s \in mgr.dead[g]
        BY <2>1, <3>1 DEF NewShared
      <3>2. CASE s \notin mgr.dead[g]
        <4>1. mem[s] = {"weights"}
          BY <2>3, <3>2 DEF Hold
        <4> QED
          BY <2>1, <4>1
      <3> QED
        BY <3>1, <3>2
    <2> QED
      BY <2>2, <2>4 DEF MemoryByPhase
  <1>7. CASE (connect_rollout_engines \/ update_weights) /\ mgr'.pc \notin {"failed", "assertion_failed"}
    <2>1. mgr.pc \in {"fetch", "update"} /\ UNCHANGED mem
      BY <1>7 DEF connect_rollout_engines, update_weights
    <2>2. mgr'.pc \in {"update", "onload_kv"}
      BY <1>0, <1>7, Jump DEF connect_rollout_engines, update_weights, MgrPCs
    <2>3. Hold(g, {}, {"weights"})'
      BY <1>1, <2>1 DEF MemoryByPhase, Hold
    <2> QED
      BY <2>2, <2>3 DEF MemoryByPhase
  <1>8. CASE onload_kv /\ mgr'.pc \notin {"failed", "assertion_failed"}
    <2>1. /\ mem' = [s \in Leaders |-> IF s \in Shared THEN mem[s] \cup {"kv_cache", "cuda_graph"}
                                       ELSE mem[s]]
          /\ Goto("generate") /\ mgr.pc = "onload_kv"
      BY <1>0, <1>8, Jump DEF onload_kv, MgrPCs
    <2>2. mgr'.pc = "generate"
      BY <1>0, <2>1, Jump DEF MgrPCs
    <2>3. {"weights"} \cup {"kv_cache", "cuda_graph"} = Tags
      BY DEF Tags
    <2>4. Hold(g, {}, Tags)'
      BY <1>1, <2>1, <2>3 DEF MemoryByPhase, Hold, Shared
    <2> QED
      BY <2>2, <2>4 DEF MemoryByPhase
  <1>9. CASE generate
    <2>1. mgr.pc = "generate" /\ UNCHANGED mem /\ Goto("generating")
      BY <1>9 DEF generate
    <2>2. mgr'.pc = "generating"
      BY <1>0, <2>1, Jump DEF MgrPCs
    <2>3. Hold(g, {}, Tags)'
      BY <1>1, <2>1 DEF MemoryByPhase, Hold
    <2> QED
      BY <2>2, <2>3 DEF MemoryByPhase
  <1>10. CASE (offload \/ skip_offload) /\ mgr'.pc \notin {"failed", "assertion_failed"}
    <2>1. args.offload_rollout
      BY DEF EnginesTyped, Setups
    <2>2. /\ mem' = [s \in Leaders |-> IF s \in Shared THEN {} ELSE mem[s]]
          /\ Goto("training")
      BY <1>0, <1>10, <2>1, Jump DEF offload, skip_offload, MgrPCs
    <2>3. mgr'.pc = "training"
      BY <1>0, <2>2, Jump DEF MgrPCs
    <2>4. Hold(g, {}, {})'
      BY <1>1, <2>2 DEF Hold, Shared
    <2> QED
      BY <2>3, <2>4 DEF MemoryByPhase
  <1>11. CASE train
    <2>1. mgr.pc = "training" /\ UNCHANGED mem /\ Goto("onload")
      BY <1>11 DEF train
    <2>2. mgr'.pc = "onload"
      BY <1>0, <2>1, Jump DEF MgrPCs
    <2>3. Hold(g, {}, {})'
      BY <1>1, <2>1 DEF MemoryByPhase, Hold
    <2> QED
      BY <2>2, <2>3 DEF MemoryByPhase
  <1> QED
    BY <1>2, <1>3, <1>4, <1>5, <1>6, <1>7, <1>8, <1>9, <1>10, <1>11 DEF QuietStep

(* Every step keeps the memory of the shared groups in its phase.          *)
LEMMA MemoryStep == EnginesTyped /\ MemoryInv /\ [Next]_vars => MemoryInv'
  <1> SUFFICES ASSUME EnginesTyped, MemoryInv, [Next]_vars, NEW g \in args.needs_offload
               PROVE  MemoryByPhase(g)'
    BY ArgsKept DEF MemoryInv
  <1>1. MemoryByPhase(g) /\ g \in Groups
    BY DEF MemoryInv, EnginesTyped, Setups
  <1>2. CASE (\E h \in Groups : MonitorStep(h)) \/ (\E s \in Slots : Crash(s)) \/ UNCHANGED vars
    <2>1. /\ UNCHANGED <<mem, num_new_engines, mgr>>
          /\ \A s \in Slots : all_engines'[s] \in {0, all_engines[s]}
      BY <1>2, OthersLeaveMemory
    <2>2. Dead(g) \subseteq Dead(g)'
      BY <2>1 DEF Dead
    <2>3. ASSUME NEW s \in Leaders, all_engines'[s] # 0
          PROVE  all_engines[s] # 0
      BY <2>1, <2>3, LeadersAreSlots
    <2> QED
      BY <1>1, <2>1, <2>2, <2>3 DEF MemoryByPhase, Hold, Agrees
  <1>3. CASE start_engines
    BY <1>1, <1>3, StartKeepsMemory
  <1>4. CASE QuietStep \/ connect_rollout_engines
    BY <1>1, <1>4, ManagerKeepsMemory
  <1> QED
    BY <1>2, <1>3, <1>4 DEF Next, ManagerStep, QuietStep

(* The engines that share GPUs with training hold nothing there while it   *)
(* runs, the weights alone while they are pushed, and all their memory     *)
(* when they serve, restarted engines included.                            *)
THEOREM SharedMemoryFollowsPhase == Spec => []MemoryFollowsPhase
  <1>1. EnginesTyped /\ MemoryInv /\ [Next]_vars => (EnginesTyped /\ MemoryInv)'
    BY TypedStep, MemoryStep
  <1>2. MemoryInv => MemoryFollowsPhase
    BY DEF MemoryInv, MemoryByPhase, Hold, MemoryFollowsPhase
  <1> QED
    BY AnnouncedInit, RoundsInit, <1>1, <1>2, PTL DEF Spec
=============================================================================
