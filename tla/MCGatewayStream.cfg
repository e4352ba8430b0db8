SPECIFICATION FairSpec
CONSTANTS
    FrameCap = 2
    MaxParts = 3
    MaxFrames = 4
INVARIANTS
    TypeOK
    BodyIsWhatAgentSent
    AnsweredOnce
PROPERTIES
    UnansweredEnds
    ReaderReleased
