SPECIFICATION Spec
CONSTANTS
    Addrs = {"ip1", "ip2"}
    Hosts = {"gw", "srv"}
    Nets = {home}
    NoAddr = "none"
    NoNet = nonet
    GwPings = 2
    LittleEndian = FALSE
    Packets <- TwoServers
    LongAddrs = {"ip2"}
    MaxRequests = 1
    MaxDiscovers = 1
    Configs = {{}}
    Faults = {"send", "ifch", "read"}
    Links = {"notice"}
    Signals = {}
    Bursts = FALSE
    Peers = {}
INVARIANTS TypeOK BoundIsConfigured SleepsOnlyWhenReleased WorkIsScheduled SocketMatchesLease IInv
PROPERTIES ImplementsLease
