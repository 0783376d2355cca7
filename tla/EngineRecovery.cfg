SPECIFICATION FairSpec
CONSTANTS
    NumGroups = 1
    NumEngines = 1
    NodesPerEngine = 2
    MaxGen = 3
CHECK_DEADLOCK FALSE
INVARIANTS ServingIsUpdated MemoryFollowsPhase NewEnginesAnnounced KillsWhatItChecked
PROPERTIES DeadReplaced
