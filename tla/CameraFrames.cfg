SPECIFICATION Spec
CONSTANTS
    MAX_CAMERA_BUFFERS = 2
    Undequeued <- OneKept
    MaxStarts = 2
    MaxRecordings = 1
    MaxSwitches = 1
    MaxFaults = 1
INVARIANTS
    TypeOK
    FilledAlone
    Circulates
    DisplayPaced
    StoppedReturned
PROPERTIES
    CommandAnswered
CHECK_DEADLOCK FALSE
