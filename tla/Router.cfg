SPECIFICATION FairSpec
CONSTANT Configurations <- RouterLines
INVARIANTS CountsAreActive
PROPERTIES RequestsEnd CacheSound
