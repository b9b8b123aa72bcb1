SPECIFICATION FairSpec
CONSTANTS
    MaxSerial = 1
    MaxServices = 1
    MaxQueued = 1
    Kinds = {"unit"}
PROPERTIES
    SkippedIsReported
CHECK_DEADLOCK FALSE
