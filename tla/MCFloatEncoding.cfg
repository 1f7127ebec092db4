\* Strings of 6 characters: most cut a group, and the last one may be short.
SPECIFICATION Spec

CONSTANTS
  Weights <- MCWeights
  ChunkSize = 6

INVARIANT TypeOK
INVARIANT DecodesPrefix
INVARIANT FloatsSurvive
CHECK_DEADLOCK FALSE
