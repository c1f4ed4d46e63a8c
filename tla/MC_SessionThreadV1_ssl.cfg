CONSTANTS
    Servers <- MCServers
    CallVersions = {"Any", "TlsV1"}
    UserResponses = {TRUE, FALSE}
    MaxFaults = 3
    MaxConnectFails = 2
    MaxCalls = 10
    MaxSends = 2

SPECIFICATION Spec

INVARIANT TypeOK
PROPERTY LossReported
INVARIANT HandedInOrder
PROPERTY StartSslAnsweredConnecting
PROPERTY SentHanded

CHECK_DEADLOCK FALSE
