\* A layer that a model shares with a model nested in it.
SPECIFICATION Spec

CONSTANTS
  Models = {"shared"}
  KerasModels <- MCKerasModels
  GivenFiles <- MCGivenFiles
  MaxNesting = 2
  MaxConversions = 1
  MaxLoads = 1

INVARIANT SupportedModelConverts
CHECK_DEADLOCK FALSE
