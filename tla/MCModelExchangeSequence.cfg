\* A model with one output, a sequence.
SPECIFICATION Spec

CONSTANTS
  Models = {"sequence"}
  KerasModels <- MCKerasModels
  GivenFiles <- MCGivenFiles
  MaxNesting = 2
  MaxConversions = 1
  MaxLoads = 1

PROPERTY SupportedModelLoads
CHECK_DEADLOCK FALSE
