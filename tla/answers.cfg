SPECIFICATION Spec
CONSTANTS
  Configs <- MCConfigs
  Frames <- MCFrames
  Failures = {401}
  MaxFrames <- MCMaxFrames
  MaxRetries = 1
INVARIANTS
  TextIntact
  AnnotationsPointAtCitations
  FeedbackTruthful
  SummaryInOrder
PROPERTIES
  ProtocolSpec
CHECK_DEADLOCK FALSE
