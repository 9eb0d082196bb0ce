SPECIFICATION Spec
CONSTANTS
    Addrs = {"ip1"}
    Hosts = {"gw", "srv"}
    Nets = {home}
    NoAddr = "none"
    NoNet = nonet
    GwPings = 4
    LittleEndian = FALSE
    Packets <- GrantsOnly
    LongAddrs = {}
    MaxRequests = 2
    MaxDiscovers = 1
    Configs = {{}}
    Faults = {}
    Links = {}
    Signals = {}
    Bursts = FALSE
    Peers = {"peer"}
PROPERTIES PeerReplyAbortsProbe
