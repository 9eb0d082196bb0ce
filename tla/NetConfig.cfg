SPECIFICATION FairSpec
CONSTANTS
    a = a
    b = b
    r1 = r1
    r2 = r2
    IPs = {a, b}
    NoIP = NoIP
    Gws = {r1, r2}
    NoGw = NoGw
    Previous <- LeftBehind
    MaxRefused = 1
    AllowHostname = TRUE
    WriteResolv = TRUE
    Configs <- SomeConfigs
INVARIANTS
    TypeOK
    PrefixOfEveryMask
    AddressSetWhenBelieved
    ConfirmedIsApplied
    DeconfiguredIsBare
    RouteNeverStale
    ResolvConfFollows
PROPERTIES
    RequestAnswered
