CONSTANTS
    N = 7
    Instances <- MCInstances
SPECIFICATION DrawingSpec
INVARIANTS AnswersCanBeDrawn MissesNothing
PROPERTY BestIsNeverLost
CHECK_DEADLOCK FALSE
