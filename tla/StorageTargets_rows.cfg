SPECIFICATION Spec
CONSTANTS
  Bits32 = 3
  Bits64 = 4
  Digits64 = 2
  TimeMin <- MCTimeMin
  TimeMax = 15
  NanosPerMicro = 2
  UuidLength = 4
  UuidHyphens = {2}
  Strings <- MCStrings
  MaxItems = 2
  Fold <- MCFold
  TextInputs <- MCTextInputs
  MaxFieldID = 40
  MaxFixedString = 2
  Datasets <- MCDatasets
INVARIANTS
  NoSilentLoss
  AcceptedRowsAreMessages
  OmissionIsAbsence
  MessageSurvives
CHECK_DEADLOCK FALSE
