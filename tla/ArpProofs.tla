----------------------------- MODULE ArpProofs -----------------------------
(***************************************************************************)
(* Lemmas about the operators of Arp: each maps ARP states to ARP states,  *)
(* leaves alone what it does not name, and schedules the work it leaves    *)
(* undone.                                                                 *)
(***************************************************************************)
EXTENDS Arp, TLAPS

\* The senders of pings send at most two at once; a check allows at least two.
PingBound == GwPings \in Nat /\ GwPings >= 2

\* What WorkIsScheduled looks at, besides the timers.
SameProgress(a, b) ==
    /\ b.announced = a.announced
    /\ b.sent_gw_query = a.sent_gw_query
    /\ b.got_router_arp = a.got_router_arp
    /\ b.got_server_arp = a.got_server_arp

SameSocket(a, b) == b.fd = a.fd /\ b.filter = a.filter

-----------------------------------------------------------------------------
(* Updates of one field, from which the provers build the others *)

\* The ARP state that ndhc starts with has the right type.
LEMMA InitArpType == PingBound => InitArp \in ArpState
BY DEF PingBound, InitArp, ArpState, NoLease

\* Replacing a field by a value of its type keeps the type of the record.
LEMMA UpdateType ==
    ASSUME NEW a \in ArpState
    PROVE  /\ \A v \in {"none", "basic", "defense"} :
                [a EXCEPT !.fd = v] \in ArpState
           /\ \A v \in Addrs \cup {NoAddr} : [a EXCEPT !.filter = v] \in ArpState
           /\ \A v \in SUBSET Timers : [a EXCEPT !.wake = v] \in ArpState
           /\ \A v \in Leases \cup {NoLease} :
                [a EXCEPT !.offered = v] \in ArpState
           /\ \A v \in 0 .. GwPings : [a EXCEPT !.pings = v] \in ArpState
           /\ \A v \in 0 .. 2 : [a EXCEPT !.announced = v] \in ArpState
           /\ \A v \in Nets \cup {NoNet} :
                /\ [a EXCEPT !.routerArp = v] \in ArpState
                /\ [a EXCEPT !.serverArp = v] \in ArpState
BY DEF ArpState

\* The same for the flags.
LEMMA UpdateFlagType ==
    ASSUME NEW a \in ArpState, NEW v \in BOOLEAN
    PROVE  /\ [a EXCEPT !.router_replied = v] \in ArpState
           /\ [a EXCEPT !.server_replied = v] \in ArpState
           /\ [a EXCEPT !.conflict = v] \in ArpState
           /\ [a EXCEPT !.sent_gw_query = v] \in ArpState
           /\ [a EXCEPT !.init_fingerprint = v] \in ArpState
           /\ [a EXCEPT !.got_router_arp = v] \in ArpState
           /\ [a EXCEPT !.got_server_arp = v] \in ArpState
           /\ [a EXCEPT !.check_fingerprint = v] \in ArpState
BY SMTT(30) DEF ArpState

\* The types of the fields that operators read.
LEMMA FieldTypes ==
    ASSUME NEW a \in ArpState
    PROVE  /\ a.wake \subseteq Timers /\ a.offered \in Leases \cup {NoLease}
           /\ a.pings \in 0 .. GwPings /\ a.announced \in 0 .. 2
           /\ a.routerArp \in Nets \cup {NoNet}
           /\ a.serverArp \in Nets \cup {NoNet}
           /\ a.filter \in Addrs \cup {NoAddr}
           /\ a.fd \in {"none", "basic", "defense"}
BY DEF ArpState

-----------------------------------------------------------------------------
(* Timers, sockets and the ping count *)

\* Arming a timer changes only the set of timers.
LEMMA ArmFacts ==
    ASSUME NEW a \in ArpState, NEW t \in Timers
    PROVE  LET b == Arm(a, t)
           IN  /\ b \in ArpState /\ SameProgress(a, b) /\ SameSocket(a, b)
               /\ b.wake = a.wake \cup {t}
<1>1. Arm(a, t) \in ArpState
  BY UpdateType, FieldTypes, ZenonT(60) DEF Arm
<1> QED
  BY <1>1 DEF Arm, ArpState, SameProgress, SameSocket

\* Disarming a timer changes only the set of timers.
LEMMA DisarmFacts ==
    ASSUME NEW a \in ArpState, NEW t \in Timers
    PROVE  LET b == Disarm(a, t)
           IN  /\ b \in ArpState /\ SameProgress(a, b) /\ SameSocket(a, b)
               /\ b.wake = a.wake \ {t}
<1>1. Disarm(a, t) \in ArpState
  BY UpdateType, FieldTypes, ZenonT(60) DEF Disarm
<1> QED
  BY <1>1 DEF Disarm, ArpState, SameProgress, SameSocket

\* arp_open_fd gives a socket of the wanted kind; a defense socket has the
\* filter it was opened with, or the given one when it is opened now.
LEMMA OpenFacts ==
    ASSUME NEW a \in ArpState, NEW mode \in {"basic", "defense"},
           NEW addr \in Addrs \cup {NoAddr}
    PROVE  LET b == arp_open_fd(a, mode, addr)
           IN  /\ b \in ArpState /\ SameProgress(a, b) /\ b.wake = a.wake
               /\ b.fd = mode
               /\ mode = "defense" =>
                    b.filter = IF a.fd = "defense" THEN a.filter ELSE addr
<1>1. arp_open_fd(a, mode, addr) \in ArpState
  BY UpdateType, ZenonT(60) DEF arp_open_fd
<1> QED
  BY <1>1 DEF arp_open_fd, ArpState, SameProgress

\* Counting pings saturates and changes nothing else.
LEMMA PingedFacts ==
    ASSUME NEW a \in ArpState, NEW k \in Nat, PingBound
    PROVE  LET b == Pinged(a, k)
           IN  /\ b \in ArpState /\ SameProgress(a, b) /\ SameSocket(a, b)
               /\ b.wake = a.wake
<1> DEFINE n == IF a.pings + k > GwPings THEN GwPings ELSE a.pings + k
<1>1. n \in 0 .. GwPings
  BY FieldTypes DEF PingBound
<1>2. Pinged(a, k) = [a EXCEPT !.pings = n]
  BY DEF Pinged
<1> HIDE DEF n
<1>3. Pinged(a, k) \in ArpState
  BY <1>1, <1>2, UpdateType, ZenonT(60)
<1> QED
  BY <1>1, <1>2, <1>3 DEF ArpState, SameProgress, SameSocket

-----------------------------------------------------------------------------
(* Probing and announcing *)

\* arp_check leaves an unfiltered socket and remembers the lease.
LEMMA CheckFacts ==
    ASSUME NEW a \in ArpState, NEW l \in Leases, NEW ok \in BOOLEAN
    PROVE  arp_check(a, l, ok) \in ArpState
<1> DEFINE o == arp_open_fd(a, "basic", NoAddr)
           b == [o EXCEPT !.offered = l]
<1>1. o \in ArpState
  BY OpenFacts
<1>2. b \in ArpState
  <2> HIDE DEF o
  <2> QED BY <1>1, UpdateType, ZenonT(60)
<1>3. Arm(b, "COLLISION") \in ArpState
  <2> HIDE DEF b
  <2> QED BY <1>2, ArmFacts DEF Timers
<1> QED BY <1>2, <1>3 DEF arp_check

\* After arp_announce either both announcements are out or the next one has
\* its timer set; nothing else changes.
LEMMA AnnounceFacts ==
    ASSUME NEW a \in ArpState, NEW ok \in BOOLEAN
    PROVE  LET b == arp_announce(a, ok)
           IN  /\ b \in ArpState /\ SameSocket(a, b)
               /\ b.sent_gw_query = a.sent_gw_query
               /\ b.got_router_arp = a.got_router_arp
               /\ b.got_server_arp = a.got_server_arp
               /\ b.wake \ {"ANNOUNCE"} = a.wake \ {"ANNOUNCE"}
               /\ b.announced < 2 => "ANNOUNCE" \in b.wake
<1> DEFINE n == IF ok THEN a.announced + 1 ELSE a.announced
           c == [a EXCEPT !.announced = n]
           d == [a EXCEPT !.announced = 2]
<1>1. "ANNOUNCE" \in Timers
  BY DEF Timers
<1>2. CASE a.announced = 2
  <2>1. arp_announce(a, ok) = Disarm(a, "ANNOUNCE")
    BY <1>2 DEF arp_announce
  <2> QED BY <1>1, <1>2, <2>1, DisarmFacts DEF SameProgress
<1>3. CASE a.announced # 2 /\ (~ok \/ a.announced = 0)
  <2>1. arp_announce(a, ok) = Arm(c, "ANNOUNCE")
    BY <1>3 DEF arp_announce
  <2>2. n \in 0 .. 2
    BY <1>3, FieldTypes
  <2> HIDE DEF n
  <2>3. c \in ArpState
    BY <2>2, UpdateType, ZenonT(60)
  <2>4. /\ SameSocket(a, c) /\ c.sent_gw_query = a.sent_gw_query
        /\ c.got_router_arp = a.got_router_arp
        /\ c.got_server_arp = a.got_server_arp /\ c.wake = a.wake
    BY DEF ArpState, SameSocket
  <2> HIDE DEF c
  <2> QED BY <1>1, <2>1, <2>3, <2>4, ArmFacts DEF SameProgress, SameSocket
<1>4. CASE a.announced # 2 /\ ok /\ a.announced # 0
  <2>1. arp_announce(a, ok) = Disarm(d, "ANNOUNCE")
    BY <1>4 DEF arp_announce
  <2>2. d \in ArpState
    <3>1. 2 \in 0 .. 2
      OBVIOUS
    <3> QED BY <3>1, UpdateType, ZenonT(60)
  <2>3. /\ d.announced = 2 /\ SameSocket(a, d) /\ d.sent_gw_query = a.sent_gw_query
        /\ d.got_router_arp = a.got_router_arp
        /\ d.got_server_arp = a.got_server_arp /\ d.wake = a.wake
    BY DEF ArpState, SameSocket
  <2> HIDE DEF d
  <2> QED BY <1>1, <2>1, <2>2, <2>3, DisarmFacts DEF SameProgress, SameSocket
<1> QED BY <1>2, <1>3, <1>4

\* The first half of the ARP timers keeps the work scheduled.
LEMMA AnnounceTimeoutFacts ==
    ASSUME NEW a \in ArpState, NEW due \in BOOLEAN, NEW ok \in BOOLEAN,
           WorkScheduled(a)
    PROVE  LET b == arp_announce_or_defend_timeout(a, due, ok)
           IN  b \in ArpState /\ SameSocket(a, b) /\ WorkScheduled(b)
<1>1. Disarm(a, "DEFENSE") \in ArpState
      /\ SameSocket(a, Disarm(a, "DEFENSE"))
      /\ WorkScheduled(Disarm(a, "DEFENSE"))
  BY DisarmFacts DEF Timers, WorkScheduled, SameProgress, Fingerprinted
<1>2. arp_announce(a, ok) \in ArpState /\ SameSocket(a, arp_announce(a, ok))
      /\ WorkScheduled(arp_announce(a, ok))
  BY AnnounceFacts DEF WorkScheduled, Fingerprinted
<1> QED
  BY <1>1, <1>2 DEF arp_announce_or_defend_timeout, SameSocket

-----------------------------------------------------------------------------
(* Fingerprinting *)

\* A complete query has its timer set; the socket is unfiltered.
LEMMA GetGwFacts ==
    ASSUME NEW a \in ArpState, NEW router \in Hosts \cup {NoAddr},
           NEW k \in 0 .. PingsToSend(router), PingBound
    PROVE  LET b == arp_get_gw_hwaddr(a, router, k)
           IN  /\ b \in ArpState /\ b.fd = "basic"
               /\ b.announced = a.announced
               /\ b.sent_gw_query = a.sent_gw_query
               /\ a.wake \subseteq b.wake
               /\ k = PingsToSend(router) => "GW_QUERY" \in b.wake
<1> DEFINE o == arp_open_fd(a, "basic", NoAddr)
           p == Pinged(o, k)
           g == IF k = 0 THEN p.got_router_arp ELSE router = NoAddr
           q == [p EXCEPT !.got_server_arp = FALSE, !.got_router_arp = g]
<1>1. k \in Nat
  BY DEF PingsToSend
<1>2. /\ o \in ArpState /\ o.fd = "basic" /\ o.announced = a.announced
      /\ o.sent_gw_query = a.sent_gw_query /\ o.wake = a.wake
  BY OpenFacts DEF SameProgress
<1> HIDE DEF o
<1>3. /\ p \in ArpState /\ p.fd = "basic" /\ p.announced = a.announced
      /\ p.sent_gw_query = a.sent_gw_query /\ p.wake = a.wake
  BY <1>1, <1>2, PingedFacts DEF SameProgress, SameSocket
<1> HIDE DEF p
<1>4. g \in BOOLEAN
  BY <1>3, ZenonT(60) DEF ArpState
<1> HIDE DEF g
<1>5. q \in ArpState
  BY <1>3, <1>4, UpdateFlagType, ZenonT(60)
<1>6. /\ q.fd = "basic" /\ q.announced = a.announced
      /\ q.sent_gw_query = a.sent_gw_query /\ q.wake = a.wake
  BY <1>3 DEF ArpState
<1>7. arp_get_gw_hwaddr(a, router, k)
        = IF k = PingsToSend(router) THEN Arm(q, "GW_QUERY") ELSE q
  BY DEF arp_get_gw_hwaddr, q, p, o, g
<1> HIDE DEF q
<1> QED
  BY <1>5, <1>6, <1>7, ArmFacts DEF Timers, SameProgress, SameSocket

\* arp_query_gateway is repeated until it has sent everything; then the
\* answers are waited for.
LEMMA QueryGatewayFacts ==
    ASSUME NEW a \in ArpState, NEW router \in Hosts \cup {NoAddr},
           NEW k \in 0 .. PingsToSend(router), PingBound,
           ~a.sent_gw_query
    PROVE  LET b == arp_query_gateway(a, router, k)
           IN  /\ b \in ArpState /\ b.fd = "basic"
               /\ b.announced = a.announced
               /\ a.wake \ {"QUERY_SEND"} \subseteq b.wake
               /\ ~b.sent_gw_query => "QUERY_SEND" \in b.wake
               /\ b.sent_gw_query => "GW_QUERY" \in b.wake
<1> DEFINE b == arp_get_gw_hwaddr(a, router, k)
           c == [b EXCEPT !.sent_gw_query = TRUE, !.init_fingerprint = TRUE]
<1>1. /\ b \in ArpState /\ b.fd = "basic" /\ b.announced = a.announced
      /\ b.sent_gw_query = a.sent_gw_query /\ a.wake \subseteq b.wake
      /\ k = PingsToSend(router) => "GW_QUERY" \in b.wake
  BY GetGwFacts
<1>2. arp_query_gateway(a, router, k)
        = IF k < PingsToSend(router) THEN Arm(b, "QUERY_SEND")
          ELSE Disarm(c, "QUERY_SEND")
  BY DEF arp_query_gateway
<1> HIDE DEF b
<1>3. c \in ArpState
  BY <1>1, UpdateFlagType, ZenonT(60)
<1>4. /\ c.fd = "basic" /\ c.announced = a.announced /\ c.sent_gw_query
      /\ c.wake = b.wake
  BY <1>1 DEF ArpState
<1> HIDE DEF c
<1>5. "QUERY_SEND" \in Timers
  BY DEF Timers
<1>6. CASE k < PingsToSend(router)
  BY <1>1, <1>2, <1>5, <1>6, ArmFacts DEF SameProgress, SameSocket
<1>7. CASE ~(k < PingsToSend(router))
  <2>1. k = PingsToSend(router)
    BY <1>7 DEF PingsToSend
  <2> QED
    BY <1>1, <1>2, <1>3, <1>4, <1>5, <1>7, <2>1, DisarmFacts
       DEF SameProgress, SameSocket
<1> QED BY <1>6, <1>7

\* Waiting for the answers to a query keeps its timer running.
LEMMA GwQueryTimeoutFacts ==
    ASSUME NEW a \in ArpState, NEW late \in BOOLEAN, NEW k \in Nat, PingBound,
           WorkScheduled(a)
    PROVE  LET b == arp_gw_query_timeout(a, late, k)
           IN  b \in ArpState /\ SameSocket(a, b) /\ WorkScheduled(b)
<1> DEFINE p == Pinged(a, k)
<1>1. p \in ArpState /\ SameSocket(a, p) /\ WorkScheduled(p)
  BY PingedFacts DEF SameProgress, WorkScheduled, Fingerprinted
<1> HIDE DEF p
<1>2. Arm(p, "GW_QUERY") \in ArpState /\ SameSocket(a, Arm(p, "GW_QUERY"))
      /\ WorkScheduled(Arm(p, "GW_QUERY"))
  BY <1>1, ArmFacts DEF Timers, SameProgress, SameSocket, WorkScheduled,
                        Fingerprinted
<1>3. Arm(a, "GW_QUERY") \in ArpState /\ SameSocket(a, Arm(a, "GW_QUERY"))
      /\ WorkScheduled(Arm(a, "GW_QUERY"))
  BY ArmFacts DEF Timers, SameProgress, SameSocket, WorkScheduled,
                  Fingerprinted
<1> QED
  BY <1>1, <1>2, <1>3 DEF arp_gw_query_timeout, p

\* An answer to the query is recorded; when it completes the fingerprint, the
\* socket that listens for conflicts is opened for our address.
LEMMA DoGwQueryFacts ==
    ASSUME NEW a \in ArpState, NEW m,
           NEW router \in Hosts \cup {NoAddr}, NEW src \in Hosts \cup {NoAddr},
           NEW addr \in Addrs, WorkScheduled(a),
           m.sip \in {router, src} => m.smac \in Nets
    PROVE  LET b == arp_do_gw_query(a, m, router, src, addr)
           IN  /\ b \in ArpState /\ WorkScheduled(b)
               /\ b.fd = "defense" =>
                    b.filter = IF a.fd = "defense" THEN a.filter ELSE addr
<1> DEFINE gr == a.got_router_arp \/ m.sip = router
           gs == a.got_server_arp \/ m.sip = src
           ra == IF m.sip = router THEN m.smac ELSE a.routerArp
           sa == IF m.sip = src THEN m.smac ELSE a.serverArp
           b == [a EXCEPT !.got_router_arp = gr, !.got_server_arp = gs,
                          !.routerArp = ra, !.serverArp = sa]
           d == Disarm(b, "GW_QUERY")
           o == arp_open_fd(d, "defense", addr)
           f == [o EXCEPT !.init_fingerprint = FALSE]
<1>1. arp_do_gw_query(a, m, router, src, addr)
        = IF ~m.reply \/ ~(m.sip = router \/ m.sip = src) THEN a
          ELSE IF Fingerprinted(b) THEN f ELSE b
  BY DEF arp_do_gw_query
<1>2. gr \in BOOLEAN /\ gs \in BOOLEAN
  OBVIOUS
<1>3. ra \in Nets \cup {NoNet} /\ sa \in Nets \cup {NoNet}
  BY FieldTypes
<1> HIDE DEF gr, gs, ra, sa
<1>4. b \in ArpState
  BY <1>2, <1>3, UpdateType, UpdateFlagType, ZenonT(60)
<1>5. /\ SameSocket(a, b) /\ b.announced = a.announced /\ b.wake = a.wake
      /\ b.sent_gw_query = a.sent_gw_query
      /\ b.got_router_arp = gr /\ b.got_server_arp = gs
  BY DEF ArpState, SameSocket
<1>6. Fingerprinted(a) => Fingerprinted(b)
  BY <1>5, ZenonT(60) DEF Fingerprinted, gr, gs
<1>7. WorkScheduled(b)
  BY <1>5, <1>6 DEF WorkScheduled
<1> HIDE DEF b
<1>8. CASE Fingerprinted(b)
  <2>1. d \in ArpState /\ SameProgress(b, d) /\ SameSocket(b, d)
        /\ d.wake = b.wake \ {"GW_QUERY"}
    BY <1>4, DisarmFacts DEF Timers
  <2> HIDE DEF d
  <2>2. /\ o \in ArpState /\ SameProgress(b, o)
        /\ o.wake = b.wake \ {"GW_QUERY"}
        /\ o.filter = IF a.fd = "defense" THEN a.filter ELSE addr
    BY <1>5, <2>1, OpenFacts DEF SameProgress, SameSocket
  <2> HIDE DEF o
  <2>3. f \in ArpState
    BY <2>2, UpdateFlagType, ZenonT(60)
  <2>4. SameProgress(b, f) /\ f.wake = b.wake \ {"GW_QUERY"}
        /\ f.filter = o.filter
    BY <2>2 DEF ArpState, SameProgress
  <2> HIDE DEF f
  <2>5. WorkScheduled(f)
    BY <1>7, <1>8, <2>4 DEF WorkScheduled, SameProgress, Fingerprinted
  <2> QED
    BY <1>1, <1>8, <2>2, <2>3, <2>4, <2>5
<1>9. CASE ~Fingerprinted(b)
  BY <1>1, <1>4, <1>5, <1>7, <1>9 DEF SameSocket
<1> QED BY <1>8, <1>9

-----------------------------------------------------------------------------
(* Checking that the network is the same *)

\* Starting a check opens the unfiltered socket and keeps the work scheduled.
LEMMA GwCheckFacts ==
    ASSUME NEW a \in ArpState, NEW router \in Hosts \cup {NoAddr},
           NEW k \in 0 .. PingsToSend(router), PingBound, WorkScheduled(a)
    PROVE  LET b == arp_gw_check(a, router, k)
           IN  b \in ArpState /\ b.fd = "basic" /\ WorkScheduled(b)
<1> DEFINE o == arp_open_fd(a, "basic", NoAddr)
           g == IF k = 0 THEN o.router_replied ELSE router = NoAddr
           b == [o EXCEPT !.pings = k, !.check_fingerprint = TRUE,
                          !.server_replied = FALSE, !.router_replied = g]
<1>1. o \in ArpState /\ SameProgress(a, o) /\ o.fd = "basic"
      /\ o.wake = a.wake
  BY OpenFacts
<1> HIDE DEF o
<1>2. k \in 0 .. GwPings
  BY DEF PingsToSend, PingBound
<1>3. g \in BOOLEAN
  BY <1>1, ZenonT(60) DEF ArpState
<1>4. arp_gw_check(a, router, k)
        = IF k = PingsToSend(router) THEN Arm(b, "GW_CHECK") ELSE b
  BY DEF arp_gw_check, o
<1> HIDE DEF g
<1>5. b \in ArpState
  BY <1>1, <1>2, <1>3, UpdateType, UpdateFlagType, ZenonT(60)
<1>6. b.fd = "basic" /\ SameProgress(a, b) /\ b.wake = a.wake
  BY <1>1 DEF ArpState, SameProgress
<1> HIDE DEF b
<1>7. WorkScheduled(b)
  BY <1>6 DEF WorkScheduled, SameProgress, Fingerprinted
<1>8. Arm(b, "GW_CHECK") \in ArpState /\ SameProgress(b, Arm(b, "GW_CHECK"))
      /\ Arm(b, "GW_CHECK").fd = "basic"
      /\ Arm(b, "GW_CHECK").wake = b.wake \cup {"GW_CHECK"}
  BY <1>5, <1>6, ArmFacts DEF Timers, SameSocket
<1>9. WorkScheduled(Arm(b, "GW_CHECK"))
  BY <1>7, <1>8 DEF WorkScheduled, SameProgress, Fingerprinted
<1> QED BY <1>4, <1>5, <1>6, <1>7, <1>8, <1>9

\* So does waiting for the answers to a check.
LEMMA GwCheckTimeoutFacts ==
    ASSUME NEW a \in ArpState, NEW late \in BOOLEAN, NEW k \in Nat, PingBound,
           WorkScheduled(a)
    PROVE  LET b == arp_gw_check_timeout(a, late, k)
           IN  b \in ArpState /\ SameSocket(a, b) /\ WorkScheduled(b)
<1> DEFINE p == Pinged(a, k)
<1>1. p \in ArpState /\ SameSocket(a, p) /\ WorkScheduled(p)
  BY PingedFacts DEF SameProgress, WorkScheduled, Fingerprinted
<1> HIDE DEF p
<1>2. Arm(p, "GW_CHECK") \in ArpState /\ SameSocket(a, Arm(p, "GW_CHECK"))
      /\ WorkScheduled(Arm(p, "GW_CHECK"))
  BY <1>1, ArmFacts DEF Timers, SameProgress, SameSocket, WorkScheduled,
                        Fingerprinted
<1>3. Arm(a, "GW_CHECK") \in ArpState /\ SameSocket(a, Arm(a, "GW_CHECK"))
      /\ WorkScheduled(Arm(a, "GW_CHECK"))
  BY ArmFacts DEF Timers, SameProgress, SameSocket, WorkScheduled,
                  Fingerprinted
<1> QED
  BY <1>1, <1>2, <1>3 DEF arp_gw_check_timeout, p

\* Recording an answer to a check changes only the replied flags.
LEMMA GwRepliedFacts ==
    ASSUME NEW a \in ArpState, NEW m, NEW router, NEW src
    PROVE  LET b == GwReplied(a, m, router, src)
           IN  /\ b \in ArpState /\ SameProgress(a, b) /\ SameSocket(a, b)
               /\ b.wake = a.wake
<1> DEFINE r == a.router_replied \/ (m.reply /\ m.sip = router)
           s == a.server_replied \/ (m.reply /\ m.sip = src)
           c == [a EXCEPT !.router_replied = r]
           b == [c EXCEPT !.server_replied = s]
<1>1. r \in BOOLEAN /\ s \in BOOLEAN
  OBVIOUS
<1>2. GwReplied(a, m, router, src) = b
  BY DEF GwReplied
<1> HIDE DEF r, s
<1>3. c \in ArpState /\ SameProgress(a, c) /\ SameSocket(a, c)
      /\ c.wake = a.wake
  BY <1>1 DEF ArpState, SameProgress, SameSocket
<1> HIDE DEF c
<1>4. b \in ArpState /\ SameProgress(c, b) /\ SameSocket(c, b)
      /\ b.wake = c.wake
  BY <1>1, <1>3 DEF ArpState, SameProgress, SameSocket
<1> QED
  BY <1>2, <1>3, <1>4 DEF SameProgress, SameSocket

\* A check that succeeds goes back to listening for conflicts.
LEMMA GwSuccessFacts ==
    ASSUME NEW a \in ArpState, NEW addr \in Addrs, NEW ok \in BOOLEAN,
           WorkScheduled(a)
    PROVE  LET b == arp_gw_success(a, addr, ok)
           IN  /\ b \in ArpState /\ WorkScheduled(b)
               /\ b.filter = IF a.fd = "defense" THEN a.filter ELSE addr
<1> DEFINE o == arp_open_fd(a, "defense", addr)
           d == Disarm(o, "GW_CHECK")
           c == IF ok THEN FALSE ELSE d.check_fingerprint
           b == [d EXCEPT !.check_fingerprint = c]
<1>1. o \in ArpState /\ SameProgress(a, o) /\ o.wake = a.wake
      /\ o.filter = IF a.fd = "defense" THEN a.filter ELSE addr
  BY OpenFacts
<1> HIDE DEF o
<1>2. d \in ArpState /\ SameProgress(a, d)
      /\ d.wake = a.wake \ {"GW_CHECK"}
      /\ d.filter = IF a.fd = "defense" THEN a.filter ELSE addr
  BY <1>1, DisarmFacts DEF Timers, SameProgress, SameSocket
<1> HIDE DEF d
<1>3. c \in BOOLEAN
  BY <1>2, ZenonT(60) DEF ArpState
<1>4. arp_gw_success(a, addr, ok) = b
  BY DEF arp_gw_success, d, o
<1> HIDE DEF c
<1>5. b \in ArpState
  BY <1>2, <1>3, UpdateFlagType, ZenonT(60)
<1>6. SameProgress(a, b) /\ b.wake = a.wake \ {"GW_CHECK"}
      /\ b.filter = d.filter
  BY <1>2 DEF ArpState, SameProgress
<1> HIDE DEF b
<1>7. WorkScheduled(b)
  BY <1>6 DEF WorkScheduled, SameProgress, Fingerprinted
<1> QED BY <1>2, <1>4, <1>5, <1>6, <1>7
=============================================================================
