SPECIFICATION FairSpec
CONSTANT Configurations <- UpdateLines
INVARIANTS UpdateTakesEffect CachesFresh PlansCover
PROPERTIES UpdateEnds ImplementsService
