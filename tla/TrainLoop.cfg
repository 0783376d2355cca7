SPECIFICATION FairSpec
CONSTANTS
    num_rollout = 5
    rollout_batch_size = 2
    dataset_size = 3
    Configurations <- CommandLines
    MaxCrashes = 3
CHECK_DEADLOCK FALSE
INVARIANTS EveryRolloutOnce StalenessBounded MemoryExclusive OldActorGenerated TrainersReady
    ArchivesPair
PROPERTIES RestartsTogether JobEnds
