\* Three layers after an image, a sequence or a vector, with one tensor used again.
SPECIFICATION Spec

CONSTANTS
  Inputs <- MCInputs
  Paddings <- MCPaddings
  Scales <- MCScales
  Low = 0
  High = 510
  ConcatAxes <- LastAxis
  MaxLayers = 3
  MaxVolume = 24

INVARIANT TypeOK
INVARIANT SameTensor
INVARIANT NothingRefused
INVARIANT ClassIsArgMax
INVARIANT BytesAreRows
CHECK_DEADLOCK FALSE
