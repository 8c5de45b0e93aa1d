SPECIFICATION OrderlySpec
CONSTANTS
  Frame <- MCSteadyFrames
  MaxFrames = 3
  MaxPerChunk = 2
  MaxEvents = 20
  convert_web_ref = TRUE
CHECK_DEADLOCK FALSE
INVARIANT OpenAiShape
