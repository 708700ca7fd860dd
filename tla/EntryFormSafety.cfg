SPECIFICATION FairFormSpec
CONSTANTS
  Lengths = {0, 7, 8, 15, 16, 20}
  REVEAL = 3
INVARIANTS
  FormTypeOK
  MeterFresh
  RatingSound
PROPERTIES
  HiddenAgain
