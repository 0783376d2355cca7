CONSTANT Configurations <- MCConfigurations
SPECIFICATION FairSpec
CHECK_DEADLOCK FALSE
INVARIANTS EachTokenOnce AdvantageByDefinition LossIsMean OnlySaidIsTrained RoutedAsRecorded
PROPERTIES TrainingEnds
