\* Concatenate along any axis, as Keras allows it.
SPECIFICATION Spec

CONSTANTS
  Inputs <- MCInputs
  Paddings <- MCPaddings
  Scales <- MCScales
  Low = 0
  High = 510
  ConcatAxes <- AnyAxis
  MaxLayers = 1
  MaxVolume = 24

INVARIANT SameTensor
CHECK_DEADLOCK FALSE
