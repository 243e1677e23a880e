\* More keys than the windows of the cycle reach.
CONSTANTS
    Keys = {1, 2, 3, 4}
    kSampleWindow = 2
    MaxInserts = 1
SPECIFICATION Spec
PROPERTY StaleCollected
CHECK_DEADLOCK FALSE
