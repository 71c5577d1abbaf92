SPECIFICATION Spec
CONSTANTS
    Sizes <- MCSizes
    InputSize = 4
    Angles <- MCAngles
    ConfThreshold = 2
    NMSThreshold <- MCNMSThreshold
    NumClasses = 2
    AllowedClasses = {0}
    ClassScores <- MCClassScores
    Deviations <- MCDeviations
    NumBoxes = 3
INVARIANTS PictureIsTurned BoxesAreSound ObjectIsFound
CHECK_DEADLOCK FALSE
