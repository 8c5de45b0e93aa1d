SPECIFICATION SteadySpec
CONSTANTS
  Frame <- MCSteadyFrames
  MaxFrames = 4
  MaxPerChunk = 2
  MaxEvents = 20
  convert_web_ref = TRUE
CHECK_DEADLOCK FALSE
INVARIANTS NothingTwice FaithfulResponse CollectedFaithful OpenAiShape AnthropicShape
PROPERTY Answered
