CONSTANTS
    Servers <- MCRefusing
    CallVersions = {"Any"}
    UserResponses = {TRUE}
    MaxFaults = 0
    MaxConnectFails = 1
    MaxCalls = 6
    MaxSends = 0

SPECIFICATION Spec

PROPERTY StartSslAnswered

CHECK_DEADLOCK FALSE
