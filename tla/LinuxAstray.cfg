SPECIFICATION Spec

CONSTANTS
    MaxFd = 4
    Seen <- SomeSeen
    Responses <- SomeResponses
    MaxLength = 3

INVARIANTS
    NeverAstray

CHECK_DEADLOCK FALSE
