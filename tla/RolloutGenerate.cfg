SPECIFICATION FairSpec
CONSTANT Configurations <- RolloutLines
INVARIANTS OnePlaceEach DeliveredComplete OnlyOnPolicyTrained TokensFollow
PROPERTIES RolloutsEnd
