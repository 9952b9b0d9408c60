CONSTANTS
  Required <- MCRequired
  Verdicts <- MCVerdicts
  Bounds <- MCBounds
  Allowed = {"background"}
  Samples = 3
  MaxRetries = 1
  Images = 2
  LabelSets <- MCLabelSets
  Repeats = 2
  MinImages = 2
  MinSelfAgreement = 90
  MinCheckAgreement = 50
SPECIFICATION Spec
INVARIANTS PassedMeansUnanimous FixKeepsTheEnvelope SweepIsNoStricter OpenGateBoundsMisses
CHECK_DEADLOCK FALSE
