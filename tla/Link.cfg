SPECIFICATION Spec
CONSTANTS
    Addrs = {"ip1"}
    Hosts = {"gw", "srv"}
    Nets = {home, cafe}
    NoAddr = "none"
    NoNet = nonet
    GwPings = 4
    LittleEndian = FALSE
    Packets <- OneServer
    LongAddrs = {}
    MaxRequests = 2
    MaxDiscovers = 1
    Configs = {{}}
    Faults = {}
    Links = {"flap", "rfkill", "notice", "remove"}
    Signals = {}
    Bursts = FALSE
    Peers = {}
INVARIANTS FingerprintOfThisNetwork
PROPERTIES RevalidatesSameNetworkOnly
SYMMETRY Networks
