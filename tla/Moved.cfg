SPECIFICATION Spec
CONSTANTS
    Addrs = {"ip1"}
    Hosts = {"gw", "srv"}
    Nets = {home, cafe}
    NoAddr = "none"
    NoNet = nonet
    GwPings = 4
    LittleEndian = FALSE
    Packets <- OneServer
    LongAddrs = {}
    MaxRequests = 2
    MaxDiscovers = 1
    Configs = {{}}
    Faults = {}
    Links = {"flap"}
    Signals = {}
    Bursts = FALSE
    Peers = {}
INVARIANTS LeaseOfThisNetwork
SYMMETRY Networks
