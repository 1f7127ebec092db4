CONSTANTS
  Sizes <- MCSizes
  Kernels <- MCKernels
  Rates <- MCRates
  Strides <- MCStrides
SPECIFICATION Spec
INVARIANTS
  TypeOK
  ReadsInsideTensor
  WindowHasCell
  WindowsAreTensorFlows
  WindowsCentred
  CoversInput
  ProbeTellsOffset
\* a layer is applied once, then the run stops
CHECK_DEADLOCK FALSE
