\* Five responses of a pipeline, cut into reads in every way.
CONSTANTS
    Responses <- Pipeline
    Input = 100
SPECIFICATION FairSpec
PROPERTIES
    AsSent
\* The server has no more to say.
CHECK_DEADLOCK FALSE
