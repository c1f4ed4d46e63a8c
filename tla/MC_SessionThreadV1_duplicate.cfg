CONSTANTS
    Servers <- MCTlsV1
    CallVersions = {"Any"}
    UserResponses = {TRUE}
    MaxFaults = 0
    MaxConnectFails = 0
    MaxCalls = 6
    MaxSends = 0

SPECIFICATION Spec

INVARIANT OneAnswerPerStart

CHECK_DEADLOCK FALSE
