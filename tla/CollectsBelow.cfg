SPECIFICATION FairSpec
CONSTANT Configurations <- TreeLines
PROPERTIES CollectsBelow
