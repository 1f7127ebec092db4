\* Windows on 3 by 4 images and sequences of 6, up to two channels and units.
SPECIFICATION Spec

CONSTANTS
  KerasLayers <- MCLayers
  Input <- MCInput
  Shifts <- MCShifts

INVARIANT NothingRefused
INVARIANT OutputIsKeras
CHECK_DEADLOCK FALSE
