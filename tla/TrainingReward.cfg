CONSTANT Configurations <- MCConfigurations
SPECIFICATION FairSpec
INVARIANT RewardAtLastToken
CHECK_DEADLOCK FALSE
