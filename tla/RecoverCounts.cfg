SPECIFICATION Spec
CONSTANTS
    NumGroups = 1
    NumEngines = 1
    NodesPerEngine = 1
    MaxGen = 2
CHECK_DEADLOCK FALSE
INVARIANTS RecoverCountsAgree
