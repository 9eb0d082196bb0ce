SPECIFICATION Spec
CONSTANTS
    OptionsSize = 40
    MaxSize <- PacketSize
    Clients <- Settings
    Ms = 3
    UIntMod = 26
    MinLease = 8
    DefaultLease = 9
    MaxAge = 34
    Delays <- DelaySteps
    MaxRequests = 2
    RetryDelays = {4, 6}
    NakDelay = 1
    ErrorDelays = {2}
    Failsafe = 2
    AnnounceWait = 2
    RetransDelay = 1
    DefendInterval = 2
    ProbeWait = 1
    ProbeDelays = {1, 2}
    ProbeNum = 3
    Layouts <- Replies
    Sizes <- FieldSizes
    Frames <- Arriving
    MaxFailures = 1
INVARIANTS TypeOK RequestsReadable RepliesUnderstood AcceptedIsSound HeldNoLonger DefendsInTime NoSpin
PROPERTIES GivenUpOnlyWhenOver AnswersHaveTime
