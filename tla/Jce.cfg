CONSTANTS
  SizeOf <- Sizes
  kString1Max = 3
  JCE_MAX_STRING_LENGTH = 12000
  Programs <- AllPrograms
  Texts <- SomeTexts
  kBufferSize = 16
  MaxRequests = 4
SPECIFICATION Spec
INVARIANTS
  ReadsWhatWasWritten
  UnknownFieldsSurvive
  TruncatedReadsAreHonest
  WholeRequestsArrive
PROPERTIES
  CutRequestsMakeNothingUp
