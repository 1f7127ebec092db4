SPECIFICATION FairSpec
CONSTANTS
  alice = alice
  bob = bob
  img = img
  bad = bad
  odd = odd
  Callers <- MCCallers
  Given <- MCGiven
  NInputs = 1
  Layers <- MCLayers
  Outs <- MCOuts
  Compute <- MCCompute
  Refuses <- MCRefuses
  Edited <- MCEdited
  Batches <- MCBatches
  MaxCalls <- MCMaxCalls
  MaxEntries = 2
  MaxThreads = 2
INVARIANTS
  TypeOK
  NoDataRace
  ArgumentsUntouched
  ResultsOwned
  NoTaskOutlivesCall
PROPERTIES
  CallsAreAnswered
  AnsweredAsIfAlone
CHECK_DEADLOCK FALSE
