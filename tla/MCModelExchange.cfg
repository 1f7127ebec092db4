\* Twelve models, two conversions and two loads of one path.
SPECIFICATION FairSpec

CONSTANTS
  Models = {"nested", "clash_after", "clash_before", "shared", "activations", "prelu",
            "separable_1d", "softsign", "dense_on_volume", "unsized", "sequence",
            "image_sequence"}
  KerasModels <- MCKerasModels
  GivenFiles <- MCGivenFiles
  MaxNesting = 2
  MaxConversions = 2
  MaxLoads = 2

INVARIANT TypeOK
INVARIANT LoadedIsConverted
INVARIANT LoadedAnswers
INVARIANT VerifiedIsRight
INVARIANT RaisesWithReason
PROPERTY LoadThrowsWithReason
PROPERTY ExchangeEnds
CHECK_DEADLOCK FALSE
