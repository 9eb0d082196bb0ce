SPECIFICATION Spec
CONSTANTS
    a = a
    b = b
    r1 = r1
    r2 = r2
    IPs = {a, b}
    NoIP = NoIP
    Gws = {r1, r2}
    NoGw = NoGw
    Previous <- LeftBehind
    MaxRefused = 0
    AllowHostname = TRUE
    WriteResolv = TRUE
    Configs <- SomeConfigs
INVARIANTS ResolvConfHasEveryServer
