CONSTANTS
  Names = {1, 2, 3}
  Counters = {0, 1}
  MAX_ROUNDS = 3
  Margin <- MCMargin
  StepsAsked <- MCStepsAsked
  LimitsAsked = {2, 3, 4}
  ByteBits = 1
  Streams <- MCStreams
SPECIFICATION CanarySpec
INVARIANTS CanaryTypeOK LoneTraitorFound FramesAreListed
PROPERTY BuildEnds
