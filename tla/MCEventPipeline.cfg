SPECIFICATION PipelineFairSpec
CONSTANTS
    MaxInputs = 2
    MaxFaults = 2
    BacklogCap = 1
INVARIANTS
    PipelineTypeOK
    EventsAccounted
PROPERTIES
    DirtyIsPublished
    WaitingEnds
CHECK_DEADLOCK FALSE
