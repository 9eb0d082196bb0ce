----------------------------- MODULE NetConfig -----------------------------
(***************************************************************************)
(* The master's requests to ndhc-ifch (src/src/ifchange.c) composed with    *)
(* ifch and the kernel.  The master may bind any configuration, or          *)
(* deconfigure, or ask for the carrier, whenever it has no request open;    *)
(* module DhcpClient says when it does.                                     *)
(***************************************************************************)
EXTENDS Ifch

CONSTANTS
    Configs     \* configurations of DHCP replies

VARIABLES
    m           \* the master: cs->ifDeconfig, cfg_packet and the open request

vars == <<m, wire, ifch, resolv, hostname, kern, sock, job, stuck>>

Options == {"SUBNET", "BROADCAST", "ROUTER", "DNS", "HOSTNAME", "DOMAIN", "MTU",
            "WINS"}

\* cfg_packet, zeroed: an option that is absent reads as an empty sequence.
NoConfig == [yiaddr |-> NoIP, opt |-> [c \in Options |-> <<>>]]

ClassC == <<255, 255, 255, 0>>
HostMask == <<255, 255, 255, 255>>

\* refused: history, a deconfiguration was refused and no address was set since.
Init ==
    /\ NetInit
    /\ IfchInit
    /\ m = [st |-> "idle", call |-> "none", pkt |-> NoConfig, cfg |-> NoConfig,
            ifDeconfig |-> FALSE, refused |-> FALSE]

-----------------------------------------------------------------------------
(* Commands *)

\* An option that is new or differs; one that disappears is no change.
Changed(cfg, p, c) == p.opt[c] # <<>> /\ p.opt[c] # cfg.opt[c]

\* Mutant: a new netmask alone is not sent.
send_client_ip_ignores_subnet(cfg, p) ==
    IF p.yiaddr # cfg.yiaddr \/ Changed(cfg, p, "BROADCAST")
    THEN <<[name |-> "IP4", ip |-> p.yiaddr,
            arg |-> IF p.opt["SUBNET"] = <<>> THEN ClassC
                    ELSE p.opt["SUBNET"]]>>
    ELSE <<>>

send_client_ip(cfg, p) ==
    IF \/ p.yiaddr # cfg.yiaddr
       \/ Changed(cfg, p, "SUBNET")
       \/ Changed(cfg, p, "BROADCAST")
    THEN <<[name |-> "IP4", ip |-> p.yiaddr,
            arg |-> IF p.opt["SUBNET"] = <<>> THEN ClassC
                    ELSE p.opt["SUBNET"]]>>
    ELSE <<>>

\* Mutant: only the lengths are compared.
send_cmd_by_length(cfg, p, c) ==
    IF p.opt[c] # <<>> /\ Len(p.opt[c]) # Len(cfg.opt[c])
    THEN <<[name |-> c, ip |-> NoIP, arg |-> p.opt[c]]>>
    ELSE <<>>

send_cmd(cfg, p, c) ==
    IF Changed(cfg, p, c)
    THEN <<[name |-> c, ip |-> NoIP, arg |-> p.opt[c]]>>
    ELSE <<>>

BindCommands(cfg, p) ==
    send_client_ip(cfg, p)
        \o send_cmd(cfg, p, "ROUTER") \o send_cmd(cfg, p, "DNS")
        \o send_cmd(cfg, p, "HOSTNAME") \o send_cmd(cfg, p, "DOMAIN")
        \o send_cmd(cfg, p, "MTU") \o send_cmd(cfg, p, "WINS")

\* The request is written; to a process that has ended, that fails.
ifchwrite(call, p, cmds) ==
    /\ m.st = "idle" /\ ifch.alive
    /\ m' = [m EXCEPT !.st = "wait", !.call = call, !.pkt = p]
    /\ wire' = cmds
    /\ UNCHANGED <<ifch, resolv, hostname, netVars>>

\* A bind with nothing to send, or that cannot be sent, has failed, and the
\* caller (arp.c:521) ends the process.
ifchange_bind(p) ==
    \/ BindCommands(m.cfg, p) # <<>> /\ ifchwrite("bind", p, BindCommands(m.cfg, p))
    \/ /\ m.st = "idle"
       /\ BindCommands(m.cfg, p) = <<>> \/ ~ifch.alive
       /\ m' = [m EXCEPT !.st = "gone"]
       /\ UNCHANGED <<wire, ifch, resolv, hostname, netVars>>

ifchange_deconfig ==
    /\ ~m.ifDeconfig
    /\ ifchwrite("deconfig", NoConfig,
                 <<[name |-> "IP4", ip |-> NoIP, arg |-> HostMask]>>)

carrier_isup ==
    ifchwrite("carrier", NoConfig, <<[name |-> "CARRIER", ip |-> NoIP, arg |-> <<>>]>>)

-----------------------------------------------------------------------------
(* Answers *)

Answered == m.st = "wait" /\ ifch.reply # "none"

Idling == [m EXCEPT !.st = "idle", !.call = "none", !.pkt = NoConfig]

\* Mutant: the interface still counts as deconfigured.
BindAnsweredKeeps ==
    /\ Answered /\ m.call = "bind"
    /\ m' = IF ifch.reply = "+"
            THEN [Idling EXCEPT !.cfg = m.pkt, !.refused = FALSE]
            ELSE [Idling EXCEPT !.st = "gone"]
    /\ ifch' = [ifch EXCEPT !.reply = "none"]
    /\ UNCHANGED <<wire, resolv, hostname, netVars>>

BindAnswered ==
    /\ Answered /\ m.call = "bind"
    /\ m' = IF ifch.reply = "+"
            THEN [Idling EXCEPT !.ifDeconfig = FALSE, !.cfg = m.pkt,
                                !.refused = @ /\ send_client_ip(m.cfg, m.pkt) = <<>>]
            ELSE [Idling EXCEPT !.st = "gone"]
    /\ ifch' = [ifch EXCEPT !.reply = "none"]
    /\ UNCHANGED <<wire, resolv, hostname, netVars>>

DeconfigAnswered ==
    /\ Answered /\ m.call = "deconfig"
    /\ m' = IF ifch.reply = "+"
            THEN [Idling EXCEPT !.ifDeconfig = TRUE, !.cfg = NoConfig,
                                !.refused = FALSE]
            ELSE [Idling EXCEPT !.refused = TRUE]
    /\ ifch' = [ifch EXCEPT !.reply = "none"]
    /\ UNCHANGED <<wire, resolv, hostname, netVars>>

CarrierAnswered ==
    /\ Answered /\ m.call = "carrier"
    /\ m' = Idling
    /\ ifch' = [ifch EXCEPT !.reply = "none"]
    /\ UNCHANGED <<wire, resolv, hostname, netVars>>

MasterStep ==
    \/ \E p \in Configs : ifchange_bind(p)
    \/ ifchange_deconfig \/ carrier_isup
    \/ BindAnswered \/ DeconfigAnswered \/ CarrierAnswered

Next ==
    \/ MasterStep
    \/ IfchStep /\ UNCHANGED m
    \/ (Cable \/ Radio) /\ UNCHANGED <<m, ifchVars>>

Spec == Init /\ [][Next]_vars

\* ifch is a loop over its socket, and the kernel answers every request.
FairSpec ==
    /\ Spec
    /\ WF_vars(IfchStep /\ UNCHANGED m)
    /\ WF_vars(BindAnswered \/ DeconfigAnswered \/ CarrierAnswered)

-----------------------------------------------------------------------------

Quiet == m.st = "idle" /\ m.cfg # NoConfig

TypeOK ==
    /\ NetTypeOK
    /\ m.st \in {"idle", "wait", "gone"}
    /\ m.pkt \in Configs \cup {NoConfig} /\ m.cfg \in Configs \cup {NoConfig}
    /\ ifch.reply # "none" => m.st = "wait" /\ ~ifch.busy /\ wire = <<>>

\* cfg_packet is what ifch confirmed (ifchange.c:351), built from commands that
\* only name what changed: with no deconfiguration refused in between, the
\* interface has the address, prefix length and MTU of cfg_packet, and any
\* other address is one that the kernel would not delete.
ConfirmedIsApplied ==
    Quiet =>
        /\ m.cfg.opt["MTU"] # <<>> => kern.mtu = m.cfg.opt["MTU"][1]
        /\ ~m.refused =>
            \E a \in kern.addrs :
                /\ a.ip = m.cfg.yiaddr
                /\ kern.addrs \ {a} \subseteq stuck
                /\ m.cfg.opt["SUBNET"] # <<>> => m.cfg.opt["SUBNET"] = MaskOf(a.plen)

\* ifDeconfig says that the interface needs no deconfiguration (ifchange.c:239):
\* it then has no address but those that the kernel would not delete.  Nor has
\* it after a refusal that ifch survives, which comes when the addresses are
\* gone (ifset.c:590), although cfg_packet still has the lease.
DeconfiguredIsBare ==
    m.st = "idle" /\ (m.ifDeconfig \/ (m.refused /\ ifch.alive)) =>
        kern.addrs \subseteq stuck

\* A default route outlives its lease only until the next one names a router:
\* the route is via the confirmed router or there is none (ifchange.c:340).
RouteNeverStale ==
    Quiet /\ m.cfg.opt["ROUTER"] # <<>> =>
        kern.route \in {m.cfg.opt["ROUTER"][1], NoGw}

\* resolv.conf is written by two commands that each know half of it
\* (ifchd.c:218, 260), the second of them from lists that the first has cut:
\* of the name servers and domains of the confirmed configuration, the file has
\* the one list whole, and the other whole or down to its first entry.
ResolvConfFollows ==
    LET dns == m.cfg.opt["DNS"]
        domains == UpTo(m.cfg.opt["DOMAIN"], 7)
    IN  Quiet /\ WriteResolv =>
            /\ dns # <<>> => resolv.ns \in {dns, UpTo(dns, 1)}
            /\ domains # <<>> => resolv.dom \in {domains, UpTo(domains, 1)}
            /\ dns # <<>> /\ domains # <<>> =>
                  resolv.ns = dns \/ resolv.dom = domains

\* Every request that the master blocks on (ifchange.c:213) is answered, unless
\* ifch has ended.
RequestAnswered == m.st = "wait" ~> (m.st # "wait" \/ ~ifch.alive)

-----------------------------------------------------------------------------
(* A statement of the manual that the code breaks *)

\* ndhc.8: with --resolv-conf "ndhc will update the contents of this file to
\* match the DNS servers specified by the remote DHCP server".
ResolvConfHasEveryServer ==
    Quiet /\ WriteResolv /\ m.cfg.opt["DNS"] # <<>> =>
        resolv.ns = m.cfg.opt["DNS"]
=============================================================================
