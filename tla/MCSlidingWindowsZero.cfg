CONSTANTS
  Sizes <- MCSizes
  Kernels <- MCKernels
  Rates <- MCRates
  Strides <- MCStrides
SPECIFICATION Spec
INVARIANTS AnswersOrThrows
\* a layer is applied once, then the run stops
CHECK_DEADLOCK FALSE
