CONSTANTS
    Jobs = {j1, j2, j3}
    j1 = j1
    j2 = j2
    j3 = j3
    MailBoxes <- MCMailBoxes
    NoMailBox <- MCNoMailBox
    NoJob = NoJob
    JobCmd <- MCJobCmd
    JobArg <- MCJobArg
    GreetCodes = {"OK", "PREAUTH", "BYE", "BAD"}
    ReplyCodes = {"OK", "NO"}
    Unsolicited <- MCUnsolicitedFault
    MaxUnsolicited = 1
    MaxDeletes = 1
    TimeoutSettings = {TRUE, FALSE}
    AllowClose = TRUE
    AllowDestroy = FALSE

SPECIFICATION Spec

INVARIANT SingleFlight
INVARIANT AssertionsHold
PROPERTY NoDeliveryAfterResult
PROPERTY JobQueueRefinement

CHECK_DEADLOCK FALSE
