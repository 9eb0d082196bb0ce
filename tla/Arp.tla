-------------------------------- MODULE Arp --------------------------------
(***************************************************************************)
(* The ARP half of ndhc-master (src/src/arp.c): its state, as one record   *)
(* that holds `garp` and the fields of client_state_t that only arp.c and  *)
(* the fingerprinting use, and its operations, as operators on that record.*)
(*                                                                         *)
(* Time is abstracted: garp.wake_ts[t] # -1 is "t \in wake"; whether an    *)
(* armed timer has expired is chosen by the caller.  A MAC address is      *)
(* abstracted to the network its owner sits on, because the only use the   *)
(* code makes of a gateway's MAC is to tell networks apart.                *)
(***************************************************************************)
EXTENDS Naturals

CONSTANTS
    Addrs,      \* addresses a DHCP server may lease
    Hosts,      \* addresses of routers and DHCP agents
    Nets,       \* networks the interface may be attached to
    NoAddr,     \* the address 0
    NoNet,      \* the all-zero MAC
    GwPings,    \* pings after which a gateway check gives up (6)
    LittleEndian  \* byte order of the machine ndhc runs on

Timers == {"ANNOUNCE", "COLLISION", "QUERY_SEND", "GW_CHECK", "GW_QUERY",
           "DEFENSE"}

\* What the client keeps of a DHCP reply.
Leases == [yiaddr : Addrs, router : Hosts \cup {NoAddr}]

NoLease == [yiaddr |-> NoAddr, router |-> NoAddr]

ArpState ==
    [fd : {"none", "basic", "defense"},     \* arpFd and arp_is_defense
     filter : Addrs \cup {NoAddr},          \* address in the defense filter
     wake : SUBSET Timers,
     offered : Leases \cup {NoLease},       \* garp.dhcp_packet
     pings : 0 .. GwPings,                  \* send count - gw_check_initpings
     router_replied : BOOLEAN,
     server_replied : BOOLEAN,
     conflict : BOOLEAN,                    \* last_conflict_ts # 0
     announced : 0 .. 2,                    \* sent_{first,second}_announce
     sent_gw_query : BOOLEAN,
     init_fingerprint : BOOLEAN,            \* init_fingerprint_inprogress
     got_router_arp : BOOLEAN,
     got_server_arp : BOOLEAN,
     routerArp : Nets \cup {NoNet},
     serverArp : Nets \cup {NoNet},
     check_fingerprint : BOOLEAN]

InitArp ==
    [fd |-> "none", filter |-> NoAddr, wake |-> {}, offered |-> NoLease,
     pings |-> 0, router_replied |-> FALSE, server_replied |-> FALSE,
     conflict |-> FALSE, announced |-> 0, sent_gw_query |-> FALSE,
     init_fingerprint |-> FALSE, got_router_arp |-> FALSE,
     got_server_arp |-> FALSE, routerArp |-> NoNet, serverArp |-> NoNet,
     check_fingerprint |-> FALSE]

-----------------------------------------------------------------------------
(* Sockets and sending *)

arp_reset_state(a) ==
    [a EXCEPT !.fd = "none", !.filter = NoAddr, !.wake = {}, !.pings = 0,
              !.router_replied = FALSE, !.server_replied = FALSE,
              !.conflict = FALSE]

\* An open socket of the wanted kind is kept, filter and all.
arp_open_fd(a, mode, addr) ==
    IF a.fd = mode THEN a
    ELSE [a EXCEPT !.fd = mode,
                   !.filter = IF mode = "defense" THEN addr ELSE NoAddr]

\* Frames the kernel lets through to the socket.  sockd compiles the address
\* into the defense filter in network byte order, while a BPF word load yields
\* host byte order: on a little-endian machine the two never match.
PassesFilter(a, m) ==
    \/ a.fd = "basic"
    \/ a.fd = "defense" /\ m.sip = a.filter /\ m.smac # "own" /\ ~LittleEndian

\* k more pings to the gateway or the DHCP agent have been sent.
Pinged(a, k) ==
    [a EXCEPT !.pings = IF @ + k > GwPings THEN GwPings ELSE @ + k]

Arm(a, t) == [a EXCEPT !.wake = @ \cup {t}]

Disarm(a, t) == [a EXCEPT !.wake = @ \ {t}]

-----------------------------------------------------------------------------
(* Probing an offered address *)

\* ok: the probe could be sent.
arp_check(a, lease, ok) ==
    LET b == [arp_open_fd(a, "basic", NoAddr) EXCEPT !.offered = lease]
    IN  IF ok THEN Arm(b, "COLLISION") ELSE b

\* As written: the sender's MAC must be our own.
IsCollision(a, m) ==
    m.reply /\ m.sip = a.offered.yiaddr /\ m.smac = "own"

-----------------------------------------------------------------------------
(* Announcing and defending the address *)

\* Mutant: an announcement that could not be sent is not tried again.
arp_announce_once(a, ok) ==
    IF a.announced = 2 \/ ~ok THEN Disarm(a, "ANNOUNCE")
    ELSE IF a.announced = 0
         THEN Arm([a EXCEPT !.announced = 1], "ANNOUNCE")
         ELSE Disarm([a EXCEPT !.announced = 2], "ANNOUNCE")

\* An announcement that is due is sent; ok: the send succeeded.
arp_announce(a, ok) ==
    IF a.announced = 2 THEN Disarm(a, "ANNOUNCE")
    ELSE IF ~ok \/ a.announced = 0
         THEN Arm([a EXCEPT !.announced = IF ok THEN @ + 1 ELSE @], "ANNOUNCE")
         ELSE Disarm([a EXCEPT !.announced = 2], "ANNOUNCE")

\* Once both announcements are out, a deferred defense is sent whatever timer
\* it was that expired.
arp_announce_or_defend_timeout(a, due, ok) ==
    IF a.announced = 2 THEN Disarm(a, "DEFENSE")
    ELSE IF due /\ "ANNOUNCE" \in a.wake THEN arp_announce(a, ok) ELSE a

IsConflict(a, m, addr) == m.sip = addr /\ m.smac # "own"

-----------------------------------------------------------------------------
(* Fingerprinting the network after binding *)

\* Mutant: one host too many is pinged.
PingsToSendPlusOne(router) == IF router = NoAddr THEN 2 ELSE 3

\* Pings that a query or check of the gateway sends.
PingsToSend(router) == IF router = NoAddr THEN 1 ELSE 2

\* k: how many of the pings went out before one failed.
arp_get_gw_hwaddr(a, router, k) ==
    LET b == [Pinged(arp_open_fd(a, "basic", NoAddr), k)
                EXCEPT !.got_server_arp = FALSE,
                       !.got_router_arp =
                          IF k = 0 THEN @ ELSE router = NoAddr]
    IN  IF k = PingsToSend(router) THEN Arm(b, "GW_QUERY") ELSE b

arp_query_gateway(a, router, k) ==
    LET b == arp_get_gw_hwaddr(a, router, k)
    IN  IF a.sent_gw_query THEN Disarm(a, "QUERY_SEND")
        ELSE IF k < PingsToSend(router) THEN Arm(b, "QUERY_SEND")
        ELSE Disarm([b EXCEPT !.sent_gw_query = TRUE,
                              !.init_fingerprint = TRUE], "QUERY_SEND")

Fingerprinted(a) == a.got_router_arp /\ a.got_server_arp

\* Hosts that have not yet answered the query, respectively the check.
QueryMissing(a) ==
    (IF a.got_router_arp THEN 0 ELSE 1) + (IF a.got_server_arp THEN 0 ELSE 1)

CheckMissing(a) ==
    (IF a.router_replied THEN 0 ELSE 1) + (IF a.server_replied THEN 0 ELSE 1)

arp_gw_query_timeout(a, late, k) ==
    IF ~late THEN Arm(a, "GW_QUERY")
    ELSE IF k < QueryMissing(a) THEN Pinged(a, k)
    ELSE Arm(Pinged(a, k), "GW_QUERY")

\* A reply m to a query: learn the MACs; when both are known, listen for
\* conflicts only.
arp_do_gw_query(a, m, router, src, addr) ==
    LET fromRouter == m.sip = router
        fromServer == m.sip = src
        b == [a EXCEPT
                !.got_router_arp = @ \/ fromRouter,
                !.got_server_arp = @ \/ fromServer,
                !.routerArp = IF fromRouter THEN m.smac ELSE @,
                !.serverArp = IF fromServer THEN m.smac ELSE @]
    IN  IF ~m.reply \/ ~(fromRouter \/ fromServer) THEN a
        ELSE IF Fingerprinted(b)
        THEN [arp_open_fd(Disarm(b, "GW_QUERY"), "defense", addr)
                EXCEPT !.init_fingerprint = FALSE]
        ELSE b

-----------------------------------------------------------------------------
(* Checking, after the carrier returned, that the network is the same *)

arp_gw_check(a, router, k) ==
    LET b == [arp_open_fd(a, "basic", NoAddr)
                EXCEPT !.pings = k,
                       !.check_fingerprint = TRUE,
                       !.server_replied = FALSE,
                       !.router_replied =
                          IF k = 0 THEN @ ELSE router = NoAddr]
    IN  IF k = PingsToSend(router) THEN Arm(b, "GW_CHECK") ELSE b

\* Mutant: off by one.
GwCheckGivesUpLater(a) == a.pings > GwPings

GwCheckGivesUp(a) == a.pings >= GwPings

arp_gw_check_timeout(a, late, k) ==
    IF ~late THEN Arm(a, "GW_CHECK")
    ELSE IF k < CheckMissing(a) THEN Pinged(a, k)
    ELSE Arm(Pinged(a, k), "GW_CHECK")

\* Mutant: both hosts have to differ at once.
GwBothDiffer(a, m, router, src) ==
    /\ m.reply
    /\ m.sip = router /\ m.smac # a.routerArp
    /\ m.sip = src /\ m.smac # a.serverArp

\* A reply m to a check, from a host whose MAC is not the fingerprinted one.
\* A router that is also the DHCP agent has to match both.
GwDiffers(a, m, router, src) ==
    /\ m.reply
    /\ \/ m.sip = router /\ m.smac # a.routerArp
       \/ m.sip = src /\ m.smac # a.serverArp

GwReplied(a, m, router, src) ==
    [a EXCEPT !.router_replied = @ \/ (m.reply /\ m.sip = router),
              !.server_replied = @ \/ (m.reply /\ m.sip = src)]

\* All have answered: back to defending.  ok: the announcement was sent.
arp_gw_success(a, addr, ok) ==
    [Disarm(arp_open_fd(a, "defense", addr), "GW_CHECK")
        EXCEPT !.check_fingerprint = IF ok THEN FALSE ELSE @]

-----------------------------------------------------------------------------

\* What is left to do after binding an address has its timer running.
WorkScheduled(a) ==
    /\ a.announced < 2 => "ANNOUNCE" \in a.wake
    /\ ~a.sent_gw_query => "QUERY_SEND" \in a.wake
    /\ a.sent_gw_query /\ ~Fingerprinted(a) => "GW_QUERY" \in a.wake
=============================================================================
