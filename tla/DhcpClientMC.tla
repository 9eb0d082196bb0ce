---------------------------- MODULE DhcpClientMC ----------------------------
(* Small instances of DhcpClient for TLC. *)
EXTENDS DhcpClient, TLC

Pkt(type, addr, sid, src, router) ==
    [type |-> type, yiaddr |-> addr, sid |-> sid, src |-> src,
     router |-> router]

\* One server, one address, a router that is not the DHCP agent.
OneServer ==
    {Pkt("OFFER", "ip1", "srv", "srv", "gw"),
     Pkt("ACK", "ip1", "srv", "srv", "gw"),
     Pkt("NAK", "ip1", "srv", "srv", "gw")}

\* A server that only grants.
GrantsOnly ==
    {Pkt("OFFER", "ip1", "srv", "srv", "gw"),
     Pkt("ACK", "ip1", "srv", "srv", "gw")}

\* Two servers, two addresses: an offer without a server id, a lease without
\* a router, a lease that gains one, a refusal by the other server, and
\* acknowledgements of an address other than the one requested or held.
TwoServers ==
    {Pkt("OFFER", "ip1", "srv", "srv", "gw"),
     Pkt("OFFER", "ip2", "none", "gw", "gw"),
     Pkt("OFFER", "ip2", "gw", "gw", "none"),
     Pkt("ACK", "ip1", "srv", "srv", "gw"),
     Pkt("ACK", "ip2", "gw", "gw", "none"),
     Pkt("ACK", "ip2", "gw", "gw", "gw"),
     Pkt("NAK", "ip1", "gw", "gw", "none")}

\* Nothing tells one network from another.
Networks == Permutations(Nets)
=============================================================================
