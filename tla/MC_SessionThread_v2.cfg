CONSTANTS
    Outcomes = {"clean", "weak", "refuse"}
    Chunks <- MCChunks
    UserResponses = {TRUE, FALSE}
    MaxSends = 2
    MaxCalls = 2
    MaxFaults = 1
    MaxChunks = 2

SPECIFICATION Spec

PROPERTY EncryptionAnswered

CHECK_DEADLOCK FALSE
