SPECIFICATION EFairSpec
CONSTANTS
    MaxFrames = 6
    InPipe = 2
    OutPipe = 2
    Lookahead = 2
    OutFails = TRUE
    Crashes = FALSE
PROPERTIES EncoderCloseReturns
CHECK_DEADLOCK FALSE
