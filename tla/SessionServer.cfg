SPECIFICATION FairSpec
CONSTANTS
    Sessions = {s1}
    Clients = {c1, c2}
    Asst = {a1, a2}
    Other = {u, t1}
    Appendable = {t1}
    User = {u}
    Tools = {t1}
    Requests <- AgentRequests
    FewShot = FALSE
    MaxTrim = 0
    Truncation = TRUE
    Boundary = Boundary
    Stops = {Boundary}
    None = None
INVARIANTS TypeOK CheckpointsAligned TokensMatchMessages RecordsFormChain SessionMakesSample
PROPERTIES CommitExtendsStored RemovedIsFrozen RequestsAnswered
