SPECIFICATION Spec
CONSTANTS
  Intents <- SmallIntents
  MaxSegment = 8
  MaxUrlLength = 11
  MaxInt = 9
  LowerOf <- Lower
  UpperOf <- Upper
  DecodedOf <- Decoded
  NumberOf <- Number
INVARIANT TypeOK
INVARIANT HeadEndsExactly
INVARIANT FieldsFound
INVARIANT LengthTaken
INVARIANT ScriptToldTruth
CHECK_DEADLOCK FALSE
