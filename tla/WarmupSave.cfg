SPECIFICATION FairSpec
CONSTANTS
    num_rollout = 3
    rollout_batch_size = 2
    dataset_size = 3
    Configurations <- WarmupLines
    MaxCrashes = 1
CHECK_DEADLOCK FALSE
INVARIANT SavedAsTrained
