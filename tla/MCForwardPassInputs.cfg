CONSTANTS
  Graph <- MCGraph
  Roots <- MCRoots
  Arguments <- MCArguments
  SizeT = 16
  Rejecting <- MCRejecting
  Misshapen <- MCMisshapen
  Tensor <- MCTensor
  Activate <- MCActivate
  ModelAt <- MCModelAt
  Meaning <- MCMeaning
  Rank <- MCRank
SPECIFICATION Spec
INVARIANTS
  InputsAreChecked
