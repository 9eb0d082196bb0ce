SPECIFICATION Spec
CONSTANTS
    Addrs = {"ip1"}
    Hosts = {"gw", "srv"}
    Nets = {home}
    NoAddr = "none"
    NoNet = nonet
    GwPings = 4
    LittleEndian = FALSE
    Packets <- OneServer
    LongAddrs = {}
    MaxRequests = 2
    MaxDiscovers = 1
    Configs = {{}, {"abort"}, {"background"}, {"quit"}, {"relentless"}}
    Faults = {}
    Links = {}
    Signals = {"RENEW", "RELEASE", "TERM"}
    Bursts = FALSE
    Peers = {"peer", "own"}
INVARIANTS LastSignalWins ReleasedIsQuiet ListensForAReason
