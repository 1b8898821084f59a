SPECIFICATION CodesSpec
CONSTANT statusGroups <- MCGroups
PROPERTY FineTuneApplies
CHECK_DEADLOCK FALSE
