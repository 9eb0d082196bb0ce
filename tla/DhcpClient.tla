----------------------------- MODULE DhcpClient -----------------------------
(***************************************************************************)
(* ndhc-master: the DHCP state machine (src/src/state.c) with the ARP work *)
(* it drives (module Arp), under the event loop of src/src/ndhc.c.         *)
(*                                                                         *)
(* dhcp_handle is a coroutine: `line` is where it will resume.  One call   *)
(* runs through several sections of the loop at that line, in source order;*)
(* `todo` holds those that the current call has still to run.  Each section*)
(* is one action, and the environment moves only between calls (todo = {}).*)
(* `goto reinit` leaves the section flags of the call in place, which is   *)
(* why a call may end in a different state from the one it started in.     *)
(*                                                                         *)
(* Time is abstracted to `phase`, the part of the lease that has passed,   *)
(* and to which of the two wake-up times have come when a call starts.     *)
(***************************************************************************)
EXTENDS Arp, FiniteSets

CONSTANTS
    Packets,      \* DHCP replies that validate_dhcp_packet accepts
    LongAddrs,    \* addresses whose dotted form has 15 characters
    MaxRequests,  \* DHCPREQUESTs sent before starting over (5)
    MaxDiscovers, \* DHCPDISCOVERs sent before program_init has an effect (2)
    Configs,      \* command lines to consider, as sets of options
    Faults,       \* what may fail: send, ifch, read
    Links,        \* what the link may do: flap, notice, remove, rfkill, rekill
    Signals,      \* signals the user may send: RENEW, RELEASE, TERM
    Bursts,       \* may a signal be sent while another is pending?
    Peers         \* MACs, other than gateways', seen with our address

VARIABLES
    line,   \* where dhcp_handle resumes
    todo,   \* sections of the current call that have not run yet
    ev,     \* the event the current call was made for
    cs,     \* client_state_t, less what Arp holds
    arp,    \* the ARP state, see Arp
    host,   \* interface, cfg_packet and lease file; history: was a
            \* deconfiguration refused since the address was last set?
    link,   \* carrier, attached network, netlink and rfkill state
    sigs    \* pending signals, and the last one sent

vars == <<line, todo, ev, cs, arp, host, link, sigs>>

-----------------------------------------------------------------------------
(* State *)

PacketType == [type : {"OFFER", "ACK", "NAK"}, yiaddr : Addrs,
               sid : Hosts \cup {NoAddr}, src : Hosts,
               router : Hosts \cup {NoAddr}]

ArpMsg == [sip : Addrs \cup Hosts, smac : Nets \cup Peers, reply : BOOLEAN]

ASSUME ConstantsAssumption ==
    /\ Packets \subseteq PacketType
    /\ LongAddrs \subseteq Addrs
    /\ NoAddr \notin Addrs \cup Hosts
    /\ Addrs \cap Hosts = {}
    /\ NoNet \notin Nets
    /\ "own" \notin Nets
    /\ Nets \cap Peers = {}
    /\ GwPings \in Nat /\ GwPings >= 2
    /\ MaxRequests \in Nat /\ MaxDiscovers \in Nat
    /\ MaxDiscovers <= MaxRequests
    /\ LittleEndian \in BOOLEAN /\ Bursts \in BOOLEAN
    /\ Signals \subseteq {"RENEW", "RELEASE", "TERM"}
    /\ Configs \subseteq SUBSET {"background", "abort", "quit", "relentless"}

Lines == {"SELECTING", "REQUESTING", "COLLISION", "BOUND", "DECONFIG",
          "RELEASED", "EXITED"}

NoEvent == [kind |-> "none"]

Events == {NoEvent, [kind |-> "ifup"]}
            \cup [kind : {"signal"}, sig : Signals]
            \cup [kind : {"dhcp"}, pkt : Packets]
            \cup [kind : {"arp"}, msg : ArpMsg]

ClientState ==
    [config : Configs,              \* client_config, fixed at start
     clientAddr : Addrs \cup {NoAddr},
     serverAddr : Hosts \cup {NoAddr},
     srcAddr : Hosts \cup {NoAddr},
     routerAddr : Hosts \cup {NoAddr},
     requests : 0 .. MaxRequests,   \* num_dhcp_requests, saturating
     wake : BOOLEAN,                \* dhcp_wake_ts # -1
     phase : 0 .. 3,                \* 1: after T1, 2: after T2, 3: expired
     listen : BOOLEAN,              \* listenFd is open
     program_init : BOOLEAN,
     ifDeconfig : BOOLEAN,
     leaseNet : Nets \cup {NoNet},  \* network of the server that acked last
     exit : {"", "nolease", "bind", "fingerprint", "quit", "term", "removed"}]

HostState ==
    [iface : Addrs \cup {NoAddr},     \* address of the interface
     cfg : Leases \cup {NoLease},     \* cfg_packet
     leasefile : Addrs \cup {NoAddr},
     refused : BOOLEAN]               \* history, see VARIABLES

Sections == {"resume", "signal", "dhcp", "arp", "arptimer", "gwtimer",
             "ifup", "dhcptimer"}

TypeOK ==
    /\ line \in Lines
    /\ todo \in SUBSET Sections
    /\ ev \in Events
    /\ cs \in ClientState
    /\ arp \in ArpState
    /\ host \in HostState
    /\ link \in [carrier : BOOLEAN, net : Nets,
                 nl : {"none", "up", "down", "removed"},
                 rfkill_set : BOOLEAN, wentup : BOOLEAN]
    /\ sigs \in [pending : SUBSET Signals, last : Signals \cup {"none"}]

\* An interface may come up configured by an earlier run; without a carrier
\* ndhc_main deconfigures it first.  The command line may ask for an address.
Init ==
    /\ line = "SELECTING" /\ todo = {} /\ ev = NoEvent
    /\ arp = InitArp
    /\ link \in [carrier : IF "flap" \in Links THEN BOOLEAN ELSE {TRUE},
                 net : Nets, nl : {"none"}, rfkill_set : {FALSE},
                 wentup : {FALSE}]
    /\ cs \in [config : Configs, clientAddr : Addrs \cup {NoAddr},
               serverAddr : {NoAddr}, srcAddr : {NoAddr},
               routerAddr : {NoAddr}, requests : {0}, wake : {FALSE},
               phase : {0}, listen : {TRUE}, program_init : {TRUE},
               ifDeconfig : {~link.carrier}, leaseNet : {NoNet}, exit : {""}]
    /\ host \in [iface : IF link.carrier THEN Addrs \cup {NoAddr}
                                         ELSE {NoAddr},
                 cfg : {NoLease}, leasefile : {NoAddr}, refused : {FALSE}]
    /\ sigs = [pending |-> {}, last |-> "none"]

-----------------------------------------------------------------------------
(* Outcomes of calls that may fail *)

Sent == IF "send" \in Faults THEN BOOLEAN ELSE {TRUE}

\* How many of n packets are sent before one fails.
SentOf(n) == IF "send" \in Faults THEN 0 .. n ELSE {n}

IfchOk == IF "ifch" \in Faults THEN BOOLEAN ELSE {TRUE}

-----------------------------------------------------------------------------
(* Control: which section runs, and how a call goes on *)

\* Sections of the loop at each line.
SectionsOf(l) ==
    CASE l \in {"SELECTING", "REQUESTING"} -> {"signal", "dhcp", "dhcptimer"}
      [] l = "COLLISION" -> {"signal", "arp", "arptimer", "dhcptimer"}
      [] l = "BOUND" -> {"signal", "dhcp", "arp", "arptimer", "ifup",
                         "dhcptimer"}
      [] l = "DECONFIG" -> {"resume", "signal", "dhcptimer"}
      [] l = "RELEASED" -> {"signal"}
      [] OTHER -> {}

\* Source order of the sections: the timers follow the event.
Earlier(sec) ==
    CASE sec = "resume" -> {}
      [] sec = "arptimer" -> {"resume", "signal", "dhcp", "arp"}
      [] sec = "gwtimer" -> {"resume", "signal", "dhcp", "arp", "arptimer"}
      [] sec = "ifup" -> {"arptimer", "gwtimer"}
      [] sec = "dhcptimer" -> Sections \ {"dhcptimer"}
      [] OTHER -> {"resume"}

At(l, sec) == line = l /\ sec \in todo /\ todo \cap Earlier(sec) = {}

Go(l, sections) ==
    /\ line' = l
    /\ todo' = sections
    /\ ev' = IF sections = {} THEN NoEvent ELSE ev

Done(sec) == Go(line, todo \ {sec})

\* scrReturn in the middle of the loop: the later sections are skipped.
Return(l) == Go(l, {})

\* goto reinit: the timeout flag of the call is still set in SELECTING.
GotoReinit == Go("SELECTING", todo \cap {"dhcptimer"})

-----------------------------------------------------------------------------
(* state.c: helpers *)

\* The lease's age and network mean nothing without a lease.
reinit_shared_deconfig(c) ==
    [c EXCEPT !.clientAddr = NoAddr, !.requests = 0,
              !.phase = 0, !.leaseNet = NoNet]

\* Mutant: the ARP socket and timers survive.
ForgetNetworkKeepsSocket(a) ==
    [a EXCEPT
        !.got_router_arp = FALSE, !.got_server_arp = FALSE,
        !.check_fingerprint = FALSE, !.sent_gw_query = FALSE,
        !.announced = 0, !.init_fingerprint = FALSE,
        !.routerArp = NoNet, !.serverArp = NoNet]

\* What reinit_shared_deconfig does to the ARP side.
ForgetNetwork(a) ==
    [arp_reset_state(a) EXCEPT
        !.got_router_arp = FALSE, !.got_server_arp = FALSE,
        !.check_fingerprint = FALSE, !.sent_gw_query = FALSE,
        !.announced = 0, !.init_fingerprint = FALSE,
        !.routerArp = NoNet, !.serverArp = NoNet]

\* Mutant: the DHCP socket is not opened again.
reinit_selecting_deaf(c) ==
    [reinit_shared_deconfig(c) EXCEPT !.wake = TRUE]

reinit_selecting(c) ==
    [reinit_shared_deconfig(c) EXCEPT !.wake = TRUE, !.listen = TRUE]

print_release(c) ==
    [reinit_shared_deconfig(c) EXCEPT !.wake = FALSE, !.listen = FALSE]

get_leasetime(c) ==
    [c EXCEPT !.phase = 0, !.wake = TRUE, !.leaseNet = link.net]

\* Mutant: the next attempt is not scheduled.
RequestedOnce(c) ==
    [c EXCEPT !.requests = IF @ < MaxRequests THEN @ + 1 ELSE @]

\* A DHCP message went out and the next attempt is scheduled.
Requested(c) ==
    [c EXCEPT !.wake = TRUE,
              !.requests = IF @ < MaxRequests THEN @ + 1 ELSE @]

LeaseOf(p) == [yiaddr |-> p.yiaddr, router |-> p.router]

Exit(why) ==
    /\ cs' = [cs EXCEPT !.exit = why]
    /\ Return("EXITED")

\* Losing the lease, or the hope of one, and starting over.
Reinit ==
    /\ cs' = reinit_selecting(cs)
    /\ arp' = ForgetNetwork(arp)
    /\ GotoReinit

Sleep ==
    /\ cs' = print_release(cs)
    /\ arp' = ForgetNetwork(arp)
    /\ Return("RELEASED")

-----------------------------------------------------------------------------
(* SELECTING and REQUESTING *)

\* Mutant: a release signal is ignored while the address is probed.
UnboundSignalNotProbing ==
    /\ \E l \in {"SELECTING", "REQUESTING", "COLLISION"} : At(l, "signal")
    /\ \/ ev.sig = "RELEASE" /\ line # "COLLISION" /\ Sleep
       \/ /\ ev.sig # "RELEASE" \/ line = "COLLISION"
          /\ Done("signal") /\ UNCHANGED <<cs, arp>>
    /\ UNCHANGED <<host, link, sigs>>

\* A release signal before there is a lease; other signals are ignored.
UnboundSignal ==
    /\ \E l \in {"SELECTING", "REQUESTING", "COLLISION"} : At(l, "signal")
    /\ \/ ev.sig = "RELEASE" /\ Sleep
       \/ ev.sig # "RELEASE" /\ Done("signal") /\ UNCHANGED <<cs, arp>>
    /\ UNCHANGED <<host, link, sigs>>

SelectingPacket ==
    /\ At("SELECTING", "dhcp")
    /\ LET p == ev.pkt
       IN  \/ /\ p.type = "OFFER" /\ p.sid # NoAddr
              /\ cs' = [cs EXCEPT !.clientAddr = p.yiaddr,
                                  !.serverAddr = p.sid, !.srcAddr = p.src,
                                  !.wake = TRUE, !.requests = 0]
              /\ Go("REQUESTING", todo \cap {"dhcptimer"})
           \/ /\ ~(p.type = "OFFER" /\ p.sid # NoAddr)
              /\ Done("dhcp") /\ UNCHANGED cs
    /\ UNCHANGED <<arp, host, link, sigs>>

SelectingTimeout ==
    /\ At("SELECTING", "dhcptimer")
    /\ LET tired == cs.program_init /\ cs.requests >= MaxDiscovers
           c == [cs EXCEPT !.program_init =
                             @ /\ ~(tired /\ "background" \in cs.config)]
       IN  IF tired /\ "abort" \in cs.config /\ "background" \notin cs.config
           THEN Exit("nolease")
           ELSE /\ \E ok \in Sent : cs' = IF ok THEN Requested(c) ELSE c
                /\ Return(line)
    /\ UNCHANGED <<arp, host, link, sigs>>

\* Mutants: the address is not compared; the server id is, the wrong way.
AcksOfferOfAny(p) == p.type = "ACK" /\ p.sid # NoAddr
AcksOfferOfOther(p) ==
    p.type = "ACK" /\ p.yiaddr = cs.clientAddr /\ p.sid # cs.serverAddr

\* The server id need not be the one of the offer: some networks have several
\* servers that answer for each other.
AcksOffer(p) ==
    p.type = "ACK" /\ p.yiaddr = cs.clientAddr /\ p.sid # NoAddr

RequestingPacket ==
    /\ At("REQUESTING", "dhcp")
    /\ LET p == ev.pkt
           acked == AcksOffer(p)
           c == get_leasetime([cs EXCEPT
                    !.serverAddr = p.sid,
                    !.srcAddr = IF cs.serverAddr = p.sid THEN @ ELSE p.src])
       IN  \/ /\ acked
              /\ \E ok \in Sent :
                   LET a == arp_check(arp, LeaseOf(p), ok)
                   IN  IF ok THEN /\ cs' = c /\ arp' = a
                                  /\ Return("COLLISION")
                             ELSE /\ cs' = reinit_selecting(c)
                                  /\ arp' = ForgetNetwork(a)
                                  /\ GotoReinit
           \/ ~acked /\ Done("dhcp") /\ UNCHANGED <<cs, arp>>
    /\ UNCHANGED <<host, link, sigs>>

requesting_timeout ==
    /\ \E l \in {"REQUESTING", "COLLISION"} : At(l, "dhcptimer")
    /\ \/ cs.requests >= MaxRequests /\ Reinit
       \/ /\ cs.requests < MaxRequests
          /\ \E ok \in Sent : cs' = IF ok THEN Requested(cs) ELSE cs
          /\ Return(line) /\ UNCHANGED arp
    /\ UNCHANGED <<host, link, sigs>>

-----------------------------------------------------------------------------
(* Probing the address: technically still REQUESTING *)

CollisionReply ==
    /\ At("COLLISION", "arp")
    /\ \/ /\ IsCollision(arp, ev.msg)
          /\ \E ok \in Sent :
                IF ok THEN Reinit
                ELSE /\ arp' = Disarm(arp, "COLLISION")
                     /\ Return(line) /\ UNCHANGED cs
       \/ ~IsCollision(arp, ev.msg) /\ Done("arp") /\ UNCHANGED <<cs, arp>>
    /\ UNCHANGED <<host, link, sigs>>

\* Not yet time to bind: wait on, or probe again.
CollisionWait ==
    /\ At("COLLISION", "arptimer")
    /\ \/ arp' = Arm(arp, "COLLISION") /\ Done("arptimer")
       \/ FALSE \in Sent /\ Return(line) /\ UNCHANGED arp
    /\ UNCHANGED <<cs, host, link, sigs>>

\* Mutant: a new address alone is not a change.
ChangedOptions(l) ==
    IF l.router \notin {NoAddr, host.cfg.router} THEN {"routr"} ELSE {}

\* Configuration items of lease l that the interface does not have yet; an
\* option the server did not send is never a change.
ChangedItems(l) ==
    (IF l.yiaddr # host.cfg.yiaddr THEN {"ip4"} ELSE {})
      \cup (IF l.router \notin {NoAddr, host.cfg.router} THEN {"routr"} ELSE {})

\* The operation fails, as for an error, when there is nothing to change.
ifchange_bind(l, ok) == ok /\ ChangedItems(l) # {}

\* snprintf's length counts the newline: 15 characters do not fit.
write_leasefile(addr) == IF addr \in LongAddrs THEN host.leasefile ELSE addr

\* The address is sent to ifch only when cfg_packet records another one.
SetAddress(l) ==
    IF "ip4" \in ChangedItems(l)
    THEN [host EXCEPT !.iface = l.yiaddr, !.refused = FALSE] ELSE host

\* No conflict was seen for long enough: take the address into use.
CollisionFree ==
    /\ At("COLLISION", "arptimer")
    /\ LET l == arp.offered
           c == [cs EXCEPT !.clientAddr = l.yiaddr, !.program_init = FALSE,
                           !.ifDeconfig = FALSE, !.routerAddr = l.router,
                           !.listen = FALSE]
           a == [Disarm(arp, "COLLISION") EXCEPT !.conflict = FALSE]
       IN  \E bound \in IfchOk :
             IF ~ifchange_bind(l, bound)
             THEN Exit("bind") /\ UNCHANGED <<arp, host>>
             ELSE /\ host' = [SetAddress(l) EXCEPT
                                !.cfg = l,
                                !.leasefile = write_leasefile(l.yiaddr)]
                  /\ IF "quit" \in cs.config
                     THEN /\ cs' = [c EXCEPT !.exit = "quit"]
                          /\ Return("EXITED") /\ UNCHANGED arp
                     ELSE /\ cs' = c
                          /\ \E k \in SentOf(PingsToSend(l.router)), ok \in Sent :
                               arp' = arp_announce(
                                        arp_query_gateway(a, l.router, k), ok)
                          /\ Return("BOUND")
    /\ UNCHANGED <<link, sigs>>

-----------------------------------------------------------------------------
(* BOUND, RENEWING and REBINDING share one loop *)

BoundSignal ==
    /\ At("BOUND", "signal")
    /\ \E ok \in Sent :
         \/ ev.sig = "RELEASE" /\ ok /\ Sleep
         \/ /\ ev.sig = "RELEASE" /\ ~ok
            /\ Return(line) /\ UNCHANGED <<cs, arp>>
         \/ /\ ev.sig = "RENEW"
            /\ cs' = [cs EXCEPT !.listen = TRUE]
            /\ IF ok THEN Done("signal") ELSE Return(line)
            /\ UNCHANGED arp
    /\ UNCHANGED <<host, link, sigs>>

\* A reply counts only after T1, and only from the server of the lease.
extend_packet ==
    /\ At("BOUND", "dhcp")
    /\ LET p == ev.pkt
           ours == cs.phase >= 1 /\ p.sid # NoAddr /\ p.sid = cs.serverAddr
           c == get_leasetime(cs)
       IN  \/ /\ ours /\ p.type = "ACK" /\ p.yiaddr = cs.clientAddr
              /\ cs' = [c EXCEPT !.listen = FALSE]
              /\ arp' = arp_open_fd(arp, "defense", cs.clientAddr)
              /\ Done("dhcp")
           \/ /\ ours /\ p.type = "ACK" /\ p.yiaddr # cs.clientAddr
              /\ \E ok \in Sent :
                   LET a == arp_check(arp, LeaseOf(p), ok)
                   IN  IF ok THEN cs' = c /\ arp' = a /\ Done("dhcp")
                             ELSE /\ cs' = reinit_selecting(c)
                                  /\ arp' = ForgetNetwork(a)
                                  /\ GotoReinit
           \/ ours /\ p.type = "NAK" /\ Reinit
           \/ /\ ~ours \/ p.type = "OFFER"
              /\ Done("dhcp") /\ UNCHANGED <<cs, arp>>
    /\ UNCHANGED <<host, link, sigs>>

\* Another host uses our address.  `recent`: the last conflict was seen less
\* than DEFEND_INTERVAL ago.
arp_do_defense ==
    /\ At("BOUND", "arp") /\ IsConflict(arp, ev.msg, cs.clientAddr)
    /\ LET a == Disarm(arp, "DEFENSE")
       IN  \E recent \in BOOLEAN :
             \/ /\ ~arp.conflict \/ recent
                /\ \E ok \in Sent :
                     IF ok THEN /\ arp' = [a EXCEPT !.conflict = TRUE]
                                /\ Done("arp")
                           ELSE arp' = a /\ Return(line)
                /\ UNCHANGED cs
             \/ /\ arp.conflict /\ ~recent /\ "relentless" \notin cs.config
                /\ Reinit
             \/ /\ arp.conflict /\ ~recent /\ "relentless" \in cs.config
                /\ arp' = [Arm(a, "DEFENSE") EXCEPT !.conflict = TRUE]
                /\ Done("arp") /\ UNCHANGED cs
    /\ UNCHANGED <<host, link, sigs>>

\* A reply while the gateway's or the agent's MAC is still unknown.
GwQueryReply ==
    /\ At("BOUND", "arp") /\ ~IsConflict(arp, ev.msg, cs.clientAddr)
    /\ ~Fingerprinted(arp)
    /\ arp' = arp_do_gw_query(arp, ev.msg, cs.routerAddr, cs.srcAddr,
                              cs.clientAddr)
    /\ Done("arp")
    /\ UNCHANGED <<cs, host, link, sigs>>

\* A reply while the network is being compared with its fingerprint.
arp_do_gw_check ==
    /\ At("BOUND", "arp") /\ ~IsConflict(arp, ev.msg, cs.clientAddr)
    /\ Fingerprinted(arp)
    /\ LET m == ev.msg
           answers == m.reply /\ m.sip \in {cs.routerAddr, cs.srcAddr}
           a == GwReplied(arp, m, cs.routerAddr, cs.srcAddr)
       IN  IF ~arp.check_fingerprint \/ ~answers
           THEN Done("arp") /\ UNCHANGED <<cs, arp>>
           ELSE IF GwDiffers(arp, m, cs.routerAddr, cs.srcAddr) THEN Reinit
           ELSE IF CheckMissing(a) # 0
           THEN arp' = a /\ Done("arp") /\ UNCHANGED cs
           ELSE \E ok \in Sent :
                  /\ arp' = arp_gw_success(a, cs.clientAddr, ok)
                  /\ IF ok THEN Done("arp") ELSE Return(line)
                  /\ UNCHANGED cs
    /\ UNCHANGED <<host, link, sigs>>

\* First half of the ARP timers; the second half follows in the same call.
AnnounceTimeout ==
    /\ At("BOUND", "arptimer")
    /\ \E due \in BOOLEAN, ok \in Sent :
         arp' = arp_announce_or_defend_timeout(arp, due, ok)
    /\ Go(line, (todo \ {"arptimer"}) \cup {"gwtimer"})
    /\ UNCHANGED <<cs, host, link, sigs>>

\* The query of the gateway could not be sent so far, or is unanswered.
\* `late`: the time set for the next attempt has come.
GwQueryTimeout ==
    /\ At("BOUND", "gwtimer") /\ ~(arp.sent_gw_query /\ Fingerprinted(arp))
    /\ \E late \in BOOLEAN :
         \/ /\ ~arp.sent_gw_query
            /\ IF late /\ "QUERY_SEND" \in arp.wake
               THEN \E k \in SentOf(PingsToSend(cs.routerAddr)) :
                      arp' = arp_query_gateway(arp, cs.routerAddr, k)
               ELSE UNCHANGED arp
            /\ Done("gwtimer")
         \/ /\ arp.sent_gw_query
            /\ \E k \in SentOf(QueryMissing(arp)) :
                 /\ arp' = arp_gw_query_timeout(arp, late, k)
                 /\ IF late /\ k < QueryMissing(arp)
                    THEN Return(line) ELSE Done("gwtimer")
    /\ UNCHANGED <<cs, host, link, sigs>>

GwCheckTimeout ==
    /\ At("BOUND", "gwtimer") /\ arp.sent_gw_query /\ Fingerprinted(arp)
    /\ IF ~arp.check_fingerprint
       THEN Done("gwtimer") /\ UNCHANGED <<cs, arp>>
       ELSE IF GwCheckGivesUp(arp) THEN Reinit
       ELSE \E late \in BOOLEAN, k \in SentOf(CheckMissing(arp)) :
              /\ arp' = arp_gw_check_timeout(arp, late, k)
              /\ IF late /\ k < CheckMissing(arp)
                 THEN Return(line) ELSE Done("gwtimer")
              /\ UNCHANGED cs
    /\ UNCHANGED <<host, link, sigs>>

\* The carrier came back: is this still the network of the lease?
ifup_action ==
    /\ At("BOUND", "ifup")
    /\ IF arp.init_fingerprint
       THEN Exit("fingerprint") /\ UNCHANGED arp
       ELSE \E k \in SentOf(PingsToSend(cs.routerAddr)) :
              /\ arp' = arp_gw_check(arp, cs.routerAddr, k)
              /\ IF k = PingsToSend(cs.routerAddr)
                 THEN Done("ifup") ELSE Return(line)
              /\ UNCHANGED cs
    /\ cs.routerAddr # NoAddr /\ cs.serverAddr # NoAddr
    /\ UNCHANGED <<host, link, sigs>>

\* Without a router there is no fingerprint: get a new lease.  ifch deletes the
\* address before it brings the interface up, and refuses when that fails: the
\* address is gone, but cfg_packet still records it.  (Errors that end ifch, and
\* with it the master, are in Processes.)
ifchange_deconfig ==
    /\ At("BOUND", "ifup")
    /\ cs.routerAddr = NoAddr \/ cs.serverAddr = NoAddr
    /\ \E ok \in IfchOk :
         IF cs.ifDeconfig \/ ok
         THEN /\ cs' = [reinit_selecting(cs) EXCEPT !.ifDeconfig = TRUE]
              /\ arp' = ForgetNetwork(arp)
              /\ host' = IF cs.ifDeconfig THEN host
                         ELSE [host EXCEPT !.iface = NoAddr, !.cfg = NoLease,
                                           !.refused = FALSE]
              /\ GotoReinit
         ELSE /\ host' = [host EXCEPT !.iface = NoAddr, !.refused = TRUE]
              /\ Return("DECONFIG") /\ UNCHANGED <<cs, arp>>
    /\ UNCHANGED <<link, sigs>>

\* The call after a failed deconfiguration resumes behind it, and starts over
\* in SELECTING with the signal and the timeout of the new call.
DeconfigResume ==
    /\ At("DECONFIG", "resume")
    /\ cs' = reinit_selecting(cs)
    /\ arp' = ForgetNetwork(arp)
    /\ Go("SELECTING", todo \ {"resume"})
    /\ UNCHANGED <<host, link, sigs>>

\* Mutant: an expired lease is still rebound.
BoundTimeoutForever ==
    /\ At("BOUND", "dhcptimer")
    /\ \/ /\ cs.phase > 0
          /\ \E ok \in Sent :
               cs' = [cs EXCEPT !.listen = TRUE, !.wake = @ \/ ok]
       \/ cs.phase = 0 /\ cs' = [cs EXCEPT !.wake = TRUE]
    /\ Return(line)
    /\ UNCHANGED <<arp, host, link, sigs>>

\* bound_timeout, renewing_timeout and rebinding_timeout, by phase.
BoundTimeout ==
    /\ At("BOUND", "dhcptimer")
    /\ \/ cs.phase = 3 /\ Reinit
       \/ /\ cs.phase \in {1, 2}
          /\ \E ok \in Sent :
               cs' = [cs EXCEPT !.listen = TRUE, !.wake = @ \/ ok]
          /\ Return(line) /\ UNCHANGED arp
       \/ /\ cs.phase = 0
          /\ cs' = [cs EXCEPT !.wake = TRUE]
          /\ Return(line) /\ UNCHANGED arp
    /\ UNCHANGED <<host, link, sigs>>

-----------------------------------------------------------------------------
(* RELEASED: asleep until a renew signal *)

ReleasedSignal ==
    /\ At("RELEASED", "signal")
    /\ \/ /\ ev.sig = "RENEW"
          /\ cs' = reinit_selecting(cs)
          /\ arp' = ForgetNetwork(arp)
          \* a call made with dhcp_wake_ts = -1 has its timeout flag set
          /\ Go("SELECTING", IF cs.wake THEN {} ELSE {"dhcptimer"})
       \/ ev.sig # "RENEW" /\ Done("signal") /\ UNCHANGED <<cs, arp>>
    /\ UNCHANGED <<host, link, sigs>>

dhcp_handle ==
    \/ UnboundSignal \/ SelectingPacket \/ SelectingTimeout
    \/ RequestingPacket \/ requesting_timeout
    \/ CollisionReply \/ CollisionWait \/ CollisionFree
    \/ BoundSignal \/ extend_packet \/ arp_do_defense \/ GwQueryReply
    \/ arp_do_gw_check \/ AnnounceTimeout \/ GwQueryTimeout \/ GwCheckTimeout
    \/ ifup_action \/ ifchange_deconfig \/ DeconfigResume \/ BoundTimeout
    \/ ReleasedSignal

-----------------------------------------------------------------------------
(* do_ndhc_work: one event per turn of the loop *)

Idle == todo = {} /\ line # "EXITED"

\* The loop calls dhcp_handle only with a usable interface.
Usable == link.carrier /\ ~link.rfkill_set

\* Wake-up times that have come; -1, "no time set", counts as having come.
TimersDue ==
    {t \in SUBSET {"arptimer", "dhcptimer"} :
        /\ ~cs.wake => "dhcptimer" \in t
        /\ arp.wake = {} => "arptimer" \in t}

\* dhcp_handle is called for event e (kind "none": only a timeout).
Call(e, timers) ==
    LET sections == (timers \cup {e.kind, "resume"}) \cap SectionsOf(line)
    IN  /\ todo' = sections
        /\ ev' = IF sections = {} THEN NoEvent ELSE e
        /\ UNCHANGED line

Timeout ==
    /\ Idle /\ Usable
    /\ \E t \in TimersDue : t # {} /\ Call(NoEvent, t)
    /\ UNCHANGED <<cs, arp, host, link, sigs>>

\* A reply with the current xid.  The xid is drawn when the first DISCOVER is
\* sent, so a reply to an earlier message is accepted until then.
DhcpPacket(p) ==
    /\ Idle /\ Usable /\ cs.listen
    /\ \E t \in TimersDue : Call([kind |-> "dhcp", pkt |-> p], t)
    /\ UNCHANGED <<cs, arp, host, link, sigs>>

\* ARP traffic: the gateway and the agent of the attached network answer with
\* their MACs, a peer may use the address that is ours or about to be.
ArpTraffic ==
    [sip : {cs.routerAddr, cs.srcAddr} \cap Hosts, smac : {link.net},
     reply : {TRUE}]
    \cup [sip : {cs.clientAddr, arp.offered.yiaddr} \cap Addrs, smac : Peers,
          reply : BOOLEAN]

ArpPacket ==
    /\ Idle /\ Usable
    /\ \E m \in ArpTraffic, t \in TimersDue :
         PassesFilter(arp, m) /\ Call([kind |-> "arp", msg |-> m], t)
    /\ UNCHANGED <<cs, arp, host, link, sigs>>

\* A failed read closes the socket, which also forgets what kind it was, and
\* opens it again.
ArpReadError ==
    /\ Idle /\ "read" \in Faults /\ arp.fd # "none"
    /\ arp' = arp_open_fd([arp EXCEPT !.fd = "none"], "basic", NoAddr)
    /\ IF Usable THEN \E t \in TimersDue : Call(NoEvent, t)
                 ELSE UNCHANGED <<line, todo, ev>>
    /\ UNCHANGED <<cs, host, link, sigs>>

\* signalfd hands out pending signals by number: SIGUSR1, SIGUSR2, SIGTERM.
FirstSignal(S) ==
    CASE "RENEW" \in S -> "RENEW"
      [] "RENEW" \notin S /\ "RELEASE" \in S -> "RELEASE"
      [] OTHER -> "TERM"

\* The signal is consumed even when the call is not made.
signal_dispatch ==
    /\ Idle /\ sigs.pending # {}
    /\ LET s == FirstSignal(sigs.pending)
       IN  /\ sigs' = [sigs EXCEPT !.pending = @ \ {s}]
           /\ IF s = "TERM" THEN Exit("term")
              ELSE /\ IF Usable
                      THEN \E t \in TimersDue :
                             Call([kind |-> "signal", sig |-> s], t)
                      ELSE UNCHANGED <<line, todo, ev>>
                   /\ UNCHANGED cs
    /\ UNCHANGED <<arp, host, link>>

\* Mutant: a carrier that returns while the radio is blocked is not noted.
nl_event_get_forgets ==
    /\ Idle /\ link.nl # "none"
    /\ link' = [link EXCEPT !.nl = "none"]
    /\ IF link.nl = "removed" THEN Exit("removed")
       ELSE /\ IF link.nl = "up" /\ Usable
               THEN \E t \in TimersDue : Call([kind |-> "ifup"], t)
               ELSE UNCHANGED <<line, todo, ev>>
            /\ UNCHANGED cs
    /\ UNCHANGED <<arp, host, sigs>>

\* The last of the pending link messages decides.
nl_event_get ==
    /\ Idle /\ link.nl # "none"
    /\ link' = [link EXCEPT !.nl = "none",
                  !.wentup = @ \/ (link.nl = "up" /\ link.rfkill_set)]
    /\ IF link.nl = "removed" THEN Exit("removed")
       ELSE /\ IF link.nl = "up" /\ Usable
               THEN \E t \in TimersDue : Call([kind |-> "ifup"], t)
               ELSE UNCHANGED <<line, todo, ev>>
            /\ UNCHANGED cs
    /\ UNCHANGED <<arp, host, sigs>>

\* A radio may be blocked by software and by hardware, each reported as a
\* block of its own ("rekill").
rfkill_get ==
    /\ Idle /\ "rfkill" \in Links
    /\ \/ /\ link.rfkill_set => "rekill" \in Links
          /\ link' = [link EXCEPT !.rfkill_set = TRUE, !.wentup = FALSE]
          /\ UNCHANGED <<line, todo, ev>>
       \/ /\ link' = [link EXCEPT !.rfkill_set = FALSE]
          /\ IF link.carrier
             THEN \E t \in TimersDue :
                    Call(IF link.wentup THEN [kind |-> "ifup"] ELSE NoEvent, t)
             ELSE UNCHANGED <<line, todo, ev>>
    /\ UNCHANGED <<cs, arp, host, sigs>>

-----------------------------------------------------------------------------
(* The world around ndhc *)

CarrierLost ==
    /\ Idle /\ "flap" \in Links /\ link.carrier
    /\ link' = [link EXCEPT !.carrier = FALSE, !.nl = "down"]
    /\ UNCHANGED <<line, todo, ev, cs, arp, host, sigs>>

\* The cable may have been moved to another network meanwhile.
CarrierBack ==
    /\ Idle /\ ~link.carrier /\ link.nl # "removed"
    /\ \E n \in Nets : link' = [link EXCEPT !.carrier = TRUE, !.net = n,
                                            !.nl = "up"]
    /\ UNCHANGED <<line, todo, ev, cs, arp, host, sigs>>

\* RTM_NEWLINK reports other changes of the link as well, and its removal.
LinkNotice ==
    /\ Idle
    /\ \/ /\ "notice" \in Links /\ link.carrier
          /\ link' = [link EXCEPT !.nl = "up"]
       \/ /\ "remove" \in Links
          /\ link' = [link EXCEPT !.nl = "removed", !.carrier = FALSE]
    /\ UNCHANGED <<line, todo, ev, cs, arp, host, sigs>>

\* Pending signals do not queue.
Kill(s) ==
    /\ Idle /\ (Bursts \/ sigs.pending = {})
    /\ sigs' = [pending |-> sigs.pending \cup {s}, last |-> s]
    /\ UNCHANGED <<line, todo, ev, cs, arp, host, link>>

\* The lease grows older.
Tick ==
    /\ Idle /\ line \in {"COLLISION", "BOUND"} /\ cs.phase < 3
    /\ cs' = [cs EXCEPT !.phase = @ + 1]
    /\ UNCHANGED <<line, todo, ev, arp, host, link, sigs>>

Exited == line = "EXITED" /\ UNCHANGED vars

Loop ==
    \/ Timeout \/ (\E p \in Packets : DhcpPacket(p)) \/ ArpPacket
    \/ ArpReadError \/ signal_dispatch \/ nl_event_get \/ rfkill_get

World ==
    \/ CarrierLost \/ CarrierBack \/ LinkNotice
    \/ (\E s \in Signals : Kill(s)) \/ Tick

Next == dhcp_handle \/ Loop \/ World \/ Exited

Spec == Init /\ [][Next]_vars

-----------------------------------------------------------------------------
(* Fairness: the process runs, times that are set come, events are read, and *)
(* a server that answers at all is heard now and then.                       *)

Fairness ==
    /\ WF_vars(dhcp_handle)
    /\ WF_vars(nl_event_get)
    /\ SF_vars(Timeout /\ "dhcptimer" \in todo')
    /\ SF_vars(Timeout /\ "arptimer" \in todo')
    \* probing ends after ANNOUNCE_WAIT, pings are repeated
    \* after ARP_RETRANS_DELAY
    /\ SF_vars(CollisionFree)
    /\ SF_vars(GwCheckTimeout /\ arp'.pings # arp.pings)
    /\ SF_vars(line = "SELECTING" /\ cs.requests > 0 /\ \E p \in Packets :
                  p.type = "OFFER" /\ p.sid # NoAddr /\ DhcpPacket(p))
    /\ SF_vars(line = "REQUESTING" /\ cs.requests > 0 /\ \E p \in Packets :
                  /\ p.type = "ACK" /\ p.sid # NoAddr
                  /\ p.yiaddr = cs.clientAddr /\ DhcpPacket(p))

FairSpec == Spec /\ Fairness

-----------------------------------------------------------------------------
(* Properties *)

\* Between two calls of dhcp_handle in BOUND, cfg_packet, the lease file and the
\* client's own idea of its address and router agree: an ACK for another
\* address, a failed send or a renewal must not let them drift apart.  The
\* interface has that address as well, with one exception: it is bare when a
\* deconfiguration was refused and the same address was bound again, since
\* ifchange_bind then takes the address for set.
BoundIsConfigured ==
    Idle /\ line = "BOUND" =>
        /\ cs.clientAddr \in Addrs
        /\ host.iface = IF host.refused THEN NoAddr ELSE cs.clientAddr
        /\ host.cfg.yiaddr = cs.clientAddr
        /\ cs.clientAddr \in LongAddrs \/ host.leasefile = cs.clientAddr
        /\ host.cfg.router = cs.routerAddr
        /\ ~cs.ifDeconfig

\* The loop sleeps without a time limit when neither a DHCP nor an ARP time is
\* set.  That may happen only when the user put ndhc to sleep, or before the
\* first DISCOVER could be sent (the loop then retries on its own).
SleepsOnlyWhenReleased ==
    Idle /\ ~cs.wake =>
        line = "RELEASED" \/ (line = "SELECTING" /\ cs.requests = 0)

\* Nothing is known of a network, and nothing was told to it.
NetworkForgotten(a) ==
    /\ a.announced = 0 /\ ~a.sent_gw_query /\ ~a.conflict
    /\ ~a.got_router_arp /\ ~a.got_server_arp /\ ~a.init_fingerprint
    /\ ~a.check_fingerprint /\ a.routerArp = NoNet /\ a.serverArp = NoNet

\* Asleep after a release, ndhc has no socket open, no timer running and no
\* trace of the old network.
ReleasedIsQuiet ==
    line = "RELEASED" =>
        /\ ~cs.wake /\ ~cs.listen /\ cs.clientAddr = NoAddr
        /\ arp.fd = "none" /\ arp.wake = {} /\ NetworkForgotten(arp)

\* Work that BOUND has still to do has its timer running: failed sends of an
\* announcement or of the gateway query are always retried.
WorkIsScheduled ==
    Idle /\ line = "BOUND" => WorkScheduled(arp)

\* The filter of the defense socket is compiled once, when the socket is
\* opened, and kept as long as the mode stays the same: it must always be for
\* the address that is ours now.  Probing needs the unfiltered socket.
SocketMatchesLease ==
    /\ arp.fd = "defense" => arp.filter = cs.clientAddr /\ arp.filter # NoAddr
    /\ line = "COLLISION" => arp.fd = "basic"

\* The DHCP socket is open whenever a reply is expected, and in BOUND only
\* for a reason: a renewal is due, the user asked for one, or the server has
\* acknowledged another address.
ListensForAReason ==
    Idle =>
        /\ line \in {"SELECTING", "REQUESTING", "COLLISION"} => cs.listen
        /\ line = "BOUND" /\ cs.listen =>
             \/ cs.phase >= 1
             \/ sigs.last = "RENEW" \/ sigs.pending # {}
             \/ arp.offered.yiaddr # cs.clientAddr

\* A lease is bound to the network it was fingerprinted on: with the link up,
\* link messages read and no check under way, the MACs on record are those of
\* the network the interface is attached to.
FingerprintOfThisNetwork ==
    Idle /\ line = "BOUND" /\ Usable /\ link.nl = "none"
         /\ Fingerprinted(arp) /\ ~arp.check_fingerprint
    => arp.routerArp \in {link.net, NoNet} /\ arp.serverArp = link.net

\* With all link messages read, a check of the network succeeds, keeping the
\* lease, only on the network the fingerprint was taken on.
RevalidatesSameNetworkOnly ==
    [][ arp.check_fingerprint /\ ~arp'.check_fingerprint /\ link.nl = "none"
            /\ line = "BOUND" /\ line' = "BOUND"
        => arp.serverArp = link.net /\ arp.routerArp = link.net ]_vars

\* The signal sent last decides: once signals are processed, ndhc is asleep
\* after SIGUSR2 and not asleep after SIGUSR1.
LastSignalWins ==
    Idle /\ sigs.pending = {} =>
        /\ sigs.last = "RELEASE" => line = "RELEASED"
        /\ sigs.last = "RENEW" => line # "RELEASED"

\* What becomes of the address of the interface, see LeaseSpec: that address is
\* looked at in every state, also when there is no lease.
Lease == INSTANCE LeaseSpec WITH
    granted <- IF line \in {"COLLISION", "BOUND", "DECONFIG"}
               THEN cs.clientAddr ELSE NoAddr,
    taken <- line \in {"BOUND", "DECONFIG"},
    iface <- host.iface,
    refused <- host.refused

\* The interface changes its address only to one that a server granted and that
\* was probed, or to none, and keeps it while the lease is held.
ImplementsLease == Lease!Spec

\* Under the stated fairness a client that is not put to sleep has a lease again
\* and again, whatever leases it loses.
GetsLease == []<>(line \in {"BOUND", "EXITED"})

\* A lease that has expired is given up, unless a last-moment ACK extends it.
ExpiredLeaseGivenUp ==
    (line = "BOUND" /\ cs.phase = 3) ~> (line # "BOUND" \/ cs.phase = 0)

\* Once the link is quiet, a check of the network comes to an end: the hosts
\* answer, or they are given up after a bounded number of pings.
RevalidationEnds ==
    <>[](link.nl = "none") => (arp.check_fingerprint ~> ~arp.check_fingerprint)

-----------------------------------------------------------------------------
(* The inductive invariant behind the safety properties above *)

\* A section of a call that reads the event has an event of its kind; only
\* hosts that are not ours to lease answer with the MAC of a network.
EventMatches ==
    /\ "signal" \in todo => ev.kind = "signal"
    /\ "dhcp" \in todo => ev.kind = "dhcp"
    /\ "arp" \in todo => ev.kind = "arp"
    /\ ev.kind = "arp" /\ ev.msg.sip \in Hosts => ev.msg.smac \in Nets

\* Without a lease, and while probing, nothing is left of an earlier network;
\* only probing has a socket and its timer.
Fresh ==
    /\ line \in {"SELECTING", "REQUESTING", "RELEASED"} =>
         NetworkForgotten(arp) /\ arp.fd = "none" /\ arp.wake = {}
    /\ line = "COLLISION" =>
         NetworkForgotten(arp) /\ arp.fd = "basic"
           /\ arp.wake \subseteq {"COLLISION"}

\* The address being probed is the one that was requested.
Probed ==
    line = "COLLISION" =>
        /\ arp.offered \in Leases
        /\ arp.offered.yiaddr = cs.clientAddr

\* The interface has the address that cfg_packet records, in every state, except
\* after a refused deconfiguration: then it has none until one is set.
Configured ==
    /\ host.cfg # NoLease =>
         /\ host.cfg \in Leases
         /\ host.iface = IF host.refused THEN NoAddr ELSE host.cfg.yiaddr
    /\ line \in {"BOUND", "DECONFIG"} =>
         /\ host.cfg # NoLease
         /\ host.cfg = [yiaddr |-> cs.clientAddr, router |-> cs.routerAddr]
         /\ cs.clientAddr \in LongAddrs \/ host.leasefile = cs.clientAddr
         /\ ~cs.ifDeconfig

\* The DHCP time is set, except asleep or before the first DISCOVER.
Awake ==
    /\ ~cs.wake => \/ line \in {"RELEASED", "EXITED"}
                   \/ line = "SELECTING" /\ cs.requests = 0
    /\ line = "RELEASED" => ~cs.wake /\ ~cs.listen /\ cs.clientAddr = NoAddr

\* WorkIsScheduled, also in the middle of a call.
Scheduled == line = "BOUND" => WorkScheduled(arp)

\* The invariant that every step of dhcp_handle and of the event loop keeps.
IInv ==
    /\ TypeOK /\ EventMatches /\ Fresh /\ Probed /\ Configured /\ Awake
    /\ Scheduled /\ SocketMatchesLease

-----------------------------------------------------------------------------
(* Statements of the documentation and of comments that the code breaks *)

\* README.md: "When the link status returns, ndhc will fingerprint the
\* reconnected network and make sure that it corresponds to the one on which
\* it has a lease."
LeaseOfThisNetwork ==
    Idle /\ line = "BOUND" /\ Usable /\ link.nl = "none"
         /\ Fingerprinted(arp) /\ ~arp.check_fingerprint
    => cs.leaseNet = link.net

\* arp.c: a reply "sent from our lease IP" that "does not have a MAC address
\* matching our own" is a conflict, so probing must not go on after it.
PeerReplyAbortsProbe ==
    [][ At("COLLISION", "arp") /\ ev.msg.reply
            /\ ev.msg.sip = arp.offered.yiaddr /\ ev.msg.smac # "own"
        => line' # "COLLISION" \/ arp'.wake = {} ]_vars

\* README.md: "Active defense of IP address": a frame of another host that
\* uses our address reaches the client.
ConflictsAreHeard ==
    arp.fd = "defense" =>
        \A p \in Peers \ {"own"} :
            PassesFilter(arp, [sip |-> cs.clientAddr, smac |-> p])

\* ndhc.8: SIGUSR1 makes ndhc "renew the current lease or, if it does not have
\* one, obtain a new lease": with ifch working, it never ends in a failure to
\* configure the interface.
SigUsr1ObtainsLease == sigs.last = "RENEW" => cs.exit # "bind"

=============================================================================
