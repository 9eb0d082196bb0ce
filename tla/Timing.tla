------------------------------- MODULE Timing -------------------------------
(***************************************************************************)
(* When things happen: the timers of the DHCP state machine (state.c), of  *)
(* probing, announcing and defending an address (arp.c), and the event loop*)
(* that sleeps until the first of them (do_ndhc_work in ndhc.c), driven by *)
(* real DHCP messages (DhcpMessage).                                       *)
(*                                                                         *)
(* Time passes in ticks.  An armed timer is the number of ticks left, 0    *)
(* when it is due; -1 is "not armed", which the code also takes for due.   *)
(* Instead of a time stamp the model keeps the ticks since, counted up to  *)
(* the largest value that makes a difference.  A turn of the loop takes no *)
(* time.                                                                   *)
(*                                                                         *)
(* The carrier is up all the time, so that GW_CHECK is never armed, leases *)
(* name no router, and neither --background-if-no-lease nor                *)
(* --abort-if-no-lease is given: DhcpClient has all of these, untimed.     *)
(***************************************************************************)
EXTENDS DhcpMessage, FiniteSetsExt

CONSTANTS
    Ms,             \* ticks in a second of a lease (1000)
    UIntMod,        \* size of the type of a lease time (2^32)
    MinLease, DefaultLease,     \* seconds (60, 3600)
    MaxAge,         \* ticks up to which the age of a lease is counted
    Delays,         \* ticks before the next discover or request (4 s .. 64 s)
    MaxRequests,    \* requests sent before the offer is given up (5)
    RetryDelays,    \* ticks between renewals (50 s .. 69 s)
    NakDelay,       \* ticks of quiet after a NAK (3 s)
    ErrorDelays,    \* ticks of sleep after an error (2 s .. 5 s)
    Failsafe,       \* ticks of sleep instead of a spin (10 s)
    AnnounceWait, RetransDelay, DefendInterval,   \* as in arp.c (2, 5, 10 s)
    ProbeWait,      \* arp_probe_wait, ticks
    ProbeDelays,    \* arp_probe_min .. arp_probe_max, ticks
    ProbeNum,       \* arp_probe_num
    Layouts,        \* what servers say: yiaddr, and the options by field
    Sizes,          \* bytes of the fields of a message
    Frames,         \* what may arrive: a layout and a set of Defects
    MaxFailures     \* turns in which sending may fail

\* Every pause has a length.
ASSUME PausesAssumption ==
    /\ Failsafe \in Nat \ {0}
    /\ ErrorDelays \subseteq Nat \ {0}
    /\ Min(ErrorDelays) \in ErrorDelays /\ Max(ErrorDelays) \in ErrorDelays

VARIABLES
    s,              \* client_state_t and garp; out is what the turn sent
    loop,           \* of do_ndhc_work: the sleep that is left, timeout = 0
    relentless,     \* garp.relentless_def
    failures,       \* turns left in which sending may fail
    seen            \* history: what the properties look back at
                    \*   spins: turns without event since a tick or event
                    \*   owed: ticks since a conflict not yet answered, or -1
                    \*   tried: ways the lease was tried to be prolonged
                    \*   lapsed: the last turn gave up the lease by a timer
                    \*   garbled, misread, unsound: messages of the last turn

vars == <<s, loop, relentless, failures, seen>>

Timers == {"COLLISION", "ANNOUNCE", "QUERY_SEND", "GW_QUERY", "DEFENSE"}

\* The messages of the servers, as bytes and as the client reads them.
Message == [l \in Layouts |-> Laid(l, Sizes)]

NoPacket == [type |-> 0]

Read ==
    [l \in Layouts |->
        LET m == Message[l]
        IN  [type |-> get_option_msgtype(m), sid |-> get_option_serverid(m),
             lease |-> get_option_leasetime(m), yiaddr |-> l.yiaddr]]

Client == CHOOSE c \in Clients : TRUE

\* The frames that are taken; the filter of the socket may or may not be in place.
Taken ==
    {f \in Frames : \E bpf \in BOOLEAN :
                      dhcp_packet_get(f[2], Message[f[1]], Client, bpf)}

\* What the client makes of the frames that may arrive, and which they are.
Arrivals ==
    {[packet |-> NoPacket, frames |-> {}]}
    \cup {[packet |-> Read[f[1]],
           frames |-> {g \in Taken : Read[g[1]] = Read[f[1]]}] : f \in Taken}

\* The longest wait after a probe.
MaxProbe == Max(ProbeDelays \cup {ProbeWait})

Up(t, max) == IF t < max THEN t + 1 ELSE t

Down(t) == IF t > 0 THEN t - 1 ELSE t

-----------------------------------------------------------------------------
(* Timers of arp.c.  ok.arp, ok.dhcp: frames of that kind can be sent.  rnd: *)
(* what the random numbers of the turn come to, least or most.             *)

Pick(delays, rnd) == IF rnd = 0 THEN Min(delays) ELSE Max(delays)

arp_reset_state(c) ==
    [c EXCEPT !.timer = [t \in Timers |-> -1], !.probes = 0,
              !.probed = MaxProbe, !.wait = 0, !.started = AnnounceWait,
              !.announce_ts = DefendInterval, !.conflict_ts = -1]

arp_get_wake_ts(c) ==
    LET armed == {c.timer[t] : t \in Timers} \ {-1}
    IN  IF armed = {} THEN -1 ELSE Min(armed)

arp_ip_anon_ping(c) == [c EXCEPT !.probes = Up(@, ProbeNum), !.probed = 0]

\* The probe was sent.
arp_check(c) ==
    [arp_ip_anon_ping(c) EXCEPT !.started = 0, !.wait = ProbeWait,
                                !.timer["COLLISION"] = ProbeWait]

arp_reprobe(c, rnd) ==
    LET wait == Pick(ProbeDelays, rnd)
    IN  [arp_ip_anon_ping(c) EXCEPT !.wait = wait, !.timer["COLLISION"] = wait]

Unclaimed(c) == c.started >= AnnounceWait \/ c.probes >= ProbeNum

\* The address is bound, and nobody listens for DHCP replies.  The counts of
\* requests and probes are not read again before they are reset.
arp_bind(c) ==
    [c EXCEPT !.conflict_ts = -1, !.timer["COLLISION"] = -1, !.listen = FALSE,
              !.pc = "BOUND", !.n = 0, !.probes = 0, !.wait = 0]

arp_announcement(c) ==
    [c EXCEPT !.announce_ts = 0, !.out = @ \cup {"announce"}]

arp_announce(c, ok) ==
    IF c.announced = 2 THEN [c EXCEPT !.timer["ANNOUNCE"] = -1]
    ELSE IF ~ok.arp THEN [c EXCEPT !.timer["ANNOUNCE"] = RetransDelay]
    ELSE [arp_announcement(c) EXCEPT
            !.announced = @ + 1,
            !.timer["ANNOUNCE"] = IF c.announced = 0 THEN RetransDelay ELSE -1]

arp_announce_timeout(c, ok) ==
    IF c.timer["ANNOUNCE"] = 0 THEN arp_announce(c, ok) ELSE c

\* A deferred defence is sent when any timer is due, and not tried again.
arp_defense_timeout(c, ok) ==
    IF c.timer["DEFENSE"] = -1 THEN c
    ELSE LET d == [c EXCEPT !.timer["DEFENSE"] = -1]
         IN  IF ok.arp THEN arp_announcement(d) ELSE d

arp_query_gateway(c, ok) ==
    IF c.sent_gw_query THEN [c EXCEPT !.timer["QUERY_SEND"] = -1]
    ELSE IF ~ok.arp THEN [c EXCEPT !.timer["QUERY_SEND"] = RetransDelay]
    ELSE [c EXCEPT !.sent_gw_query = TRUE, !.timer["QUERY_SEND"] = -1,
                   !.timer["GW_QUERY"] = RetransDelay]

arp_query_gateway_timeout(c, ok) ==
    IF c.timer["QUERY_SEND"] = 0 THEN arp_query_gateway(c, ok) ELSE c

arp_gw_query_timeout(c) ==
    IF c.timer["GW_QUERY"] > 0 THEN c
    ELSE [c EXCEPT !.timer["GW_QUERY"] = RetransDelay]

DefendsAtOnce(c) == c.conflict_ts = -1 \/ c.conflict_ts < DefendInterval

\* Mutant: the defence is put off, and no timer armed for it.
arp_do_defense_unarmed(c) ==
    [c EXCEPT !.timer["DEFENSE"] = -1, !.conflict_ts = 0]

\* A conflict that is not answered now, by a relentless client.
arp_do_defense_deferred(c) ==
    [c EXCEPT !.timer["DEFENSE"] =
                 IF c.announce_ts < DefendInterval
                 THEN DefendInterval - c.announce_ts ELSE 0,
              !.conflict_ts = 0]

-----------------------------------------------------------------------------
(* Timers of state.c.  t is what dhcp_handle is called with: a signal, a    *)
(* packet, an ARP frame, which timers are due, and ok and rnd as above.    *)

Send(c, kind) == [c EXCEPT !.out = @ \cup {kind}]

delay_timeout(n, rnd) ==
    Pick(IF n < Len(Delays) THEN Delays[n + 1] ELSE Delays[Len(Delays)], rnd)

\* What is kept of the last lease is written again before it is read.
NoLease(c) == [c EXCEPT !.lease = 0, !.age = 0, !.server = <<>>]

reinit_shared_deconfig(c) ==
    [arp_reset_state(NoLease(c)) EXCEPT
        !.addr = "none", !.n = 0, !.announced = 0, !.sent_gw_query = FALSE,
        !.known = FALSE]

reinit_selecting(c, timeout) ==
    [reinit_shared_deconfig(c) EXCEPT !.wake = timeout, !.listen = TRUE]

print_release(c) ==
    [reinit_shared_deconfig(c) EXCEPT !.wake = -1, !.listen = FALSE,
                                      !.pc = "RELEASED"]

\* One more request or discover was sent.
Requested(c, kind, rnd) ==
    [Send(c, kind) EXCEPT !.wake = delay_timeout(c.n, rnd),
                          !.n = IF @ < MaxRequests THEN @ + 1 ELSE @]

renewTime(lease) == lease \div 2

rebindTime(lease) == (lease \div 8) * 7

is_renewing(c) == c.age >= renewTime(c.lease) * Ms

is_rebinding(c) == c.age >= rebindTime(c.lease) * Ms

\* The product is computed in the unsigned type of the lease time.
elt(c) == (c.lease * Ms) % UIntMod

\* Mutant: a lease that is over may be tried for once more.
ExpiredOneTryLater(c) == c.age >= elt(c) + Min(RetryDelays)

Expired(c) == c.age >= elt(c)

\* The retry, or the time `end` if that comes first.
NextTry(c, end, rnd) == Min({Pick(RetryDelays, rnd), end - c.age})

\* Mutant: retries go on until the lease is over.
renewing_retry_until_end(c, rnd) ==
    [Send(c, "renew") EXCEPT !.wake = NextTry(c, c.lease * Ms, rnd)]

renewing_retry(c, rnd) ==
    [Send(c, "renew") EXCEPT !.wake = NextTry(c, rebindTime(c.lease) * Ms, rnd)]

\* Mutant: the end of the lease is not looked at.
rebinding_retry_whole(c, rnd) ==
    [Send(c, "rebind") EXCEPT !.wake = Pick(RetryDelays, rnd)]

rebinding_retry(c, rnd) ==
    [Send(c, "rebind") EXCEPT !.wake = NextTry(c, elt(c), rnd)]

get_leasetime(c, m) ==
    LET lease == IF m.lease = 0 THEN DefaultLease
                 ELSE IF m.lease < MinLease THEN MinLease ELSE m.lease
    IN  [c EXCEPT !.lease = lease, !.age = 0, !.wake = renewTime(lease) * Ms]

-----------------------------------------------------------------------------
(* dhcp_handle, loop by loop: the new state, and COR_SUCCESS or COR_ERROR   *)

Ok(c) == [c |-> c, ok |-> TRUE]

Error(c) == [c |-> c, ok |-> FALSE]

\* skip_to_released: the signal is not a renewal.
Released(c) == Ok(print_release(c))

\* The loop that looks for a server; "goto reinit" with c and no packet.
Selecting(c, t) ==
    LET d == [c EXCEPT !.pc = "SELECTING"]
    IN  IF ~t.dhcp_due THEN Ok(d)
        ELSE IF ~t.ok.dhcp THEN Error(d)
        ELSE Ok(Requested(d, "discover", t.rnd))

\* requesting_timeout, in the loops that request and that probe.
requesting_timeout(c, t) ==
    IF ~t.dhcp_due THEN Ok(c)
    ELSE IF c.n >= MaxRequests THEN Selecting(reinit_selecting(c, 0), t)
    ELSE IF ~t.ok.dhcp THEN Error(c)
    ELSE Ok(Requested(c, "selecting", t.rnd))

IsOffer(m) == m.type = DHCPOFFER /\ m.sid # <<>>

selecting_packet(c, m) ==
    [c EXCEPT !.pc = "REQUESTING", !.addr = m.yiaddr, !.server = m.sid,
              !.wake = 0, !.n = 0]

\* After an offer, the loop that requests is entered with its timer as it was
\* when the turn began.
SelectingLoop(c, t) ==
    IF t.signal = "RELEASE" THEN Released(c)
    ELSE IF IsOffer(t.packet) THEN requesting_timeout(selecting_packet(c, t.packet), t)
    ELSE Selecting(c, t)

Grants(c, m) == m.type = DHCPACK /\ m.yiaddr = c.addr /\ m.sid # <<>>

RequestingLoop(c, t) ==
    LET granted == get_leasetime([c EXCEPT !.server = t.packet.sid], t.packet)
    IN  IF t.signal = "RELEASE" THEN Released(c)
        ELSE IF ~Grants(c, t.packet) THEN requesting_timeout(c, t)
        ELSE IF ~t.ok.arp THEN Selecting(reinit_selecting(c, NakDelay), t)
        ELSE Ok([arp_check(granted) EXCEPT !.pc = "COLLISION"])

\* Mutant: the next probe goes out before it is seen whether one is needed.
arp_collision_timeout_probes_first(c, t) ==
    LET d == IF c.probed < c.wait THEN c ELSE arp_reprobe(c, t.rnd)
    IN  IF Unclaimed(d)
        THEN Ok(arp_announce(arp_query_gateway(arp_bind(d), t.ok), t.ok))
        ELSE requesting_timeout(d, t)

arp_collision_timeout(c, t) ==
    IF Unclaimed(c)
    THEN Ok(arp_announce(arp_query_gateway(arp_bind(c), t.ok), t.ok))
    ELSE IF c.probed < c.wait
    THEN requesting_timeout([c EXCEPT !.timer["COLLISION"] = c.wait - c.probed], t)
    ELSE IF ~t.ok.arp THEN Error(c)
    ELSE requesting_timeout(arp_reprobe(c, t.rnd), t)

\* As written, only our own reply is a collision.
CollisionLoop(c, t) ==
    LET declined == [c EXCEPT !.timer["COLLISION"] = -1]
    IN  IF t.signal = "RELEASE" THEN Released(c)
        ELSE IF t.arp = "echo"
        THEN IF t.ok.dhcp
             THEN Selecting(reinit_selecting(Send(declined, "decline"), 0), t)
             ELSE Error(declined)
        ELSE IF t.arp_due THEN arp_collision_timeout(c, t)
        ELSE requesting_timeout(c, t)

\* The end of a turn of the loop that holds a lease.
BoundDhcpTimeout(c, t) ==
    LET d == [c EXCEPT !.listen = TRUE]
    IN  IF ~t.dhcp_due THEN Ok(c)
        ELSE IF ~is_renewing(c)
        THEN Ok([c EXCEPT !.wake = renewTime(c.lease) * Ms - c.age])
        ELSE IF is_rebinding(c) /\ Expired(c)
        THEN Selecting(reinit_selecting(c, 0), t)
        ELSE IF ~t.ok.dhcp THEN Error(d)
        ELSE Ok(IF is_rebinding(c) THEN rebinding_retry(d, t.rnd)
                                   ELSE renewing_retry(d, t.rnd))

BoundArpTimeout(c, t) ==
    LET d == IF c.announced = 2 THEN arp_defense_timeout(c, t.ok)
             ELSE arp_announce_timeout(c, t.ok)
    IN  IF ~t.arp_due THEN BoundDhcpTimeout(c, t)
        ELSE IF ~c.sent_gw_query
        THEN BoundDhcpTimeout(arp_query_gateway_timeout(d, t.ok), t)
        ELSE IF c.known THEN BoundDhcpTimeout(d, t)
        ELSE IF d.timer["GW_QUERY"] <= 0 /\ ~t.ok.arp THEN Error(d)
        ELSE BoundDhcpTimeout(arp_gw_query_timeout(d), t)

\* Reply to the query for the address of the DHCP agent.
arp_do_gw_query(c) == [c EXCEPT !.known = TRUE, !.timer["GW_QUERY"] = -1]

\* A conflict with a persistent peer: the lease is released.
ConflictLost(c, t) ==
    Selecting(reinit_selecting(IF t.ok.dhcp THEN Send(c, "release") ELSE c, 0), t)

BoundArp(c, t) ==
    LET d == [c EXCEPT !.timer["DEFENSE"] = -1]
    IN  CASE t.arp = "agent" /\ ~c.known /\ c.sent_gw_query ->
               BoundArpTimeout(arp_do_gw_query(c), t)
          [] t.arp = "peer" /\ DefendsAtOnce(c) ->
               IF t.ok.arp
               THEN BoundArpTimeout([arp_announcement(d) EXCEPT !.conflict_ts = 0], t)
               ELSE Error(d)
          [] t.arp = "peer" /\ ~DefendsAtOnce(c) /\ ~relentless ->
               ConflictLost(d, t)
          [] t.arp = "peer" /\ ~DefendsAtOnce(c) /\ relentless ->
               BoundArpTimeout(arp_do_defense_deferred(d), t)
          [] OTHER -> BoundArpTimeout(c, t)

\* extend_packet, for a reply by the server of the lease.
BoundPacket(c, t) ==
    LET m == t.packet
        fresh == get_leasetime(c, m)
    IN  CASE m.type = DHCPACK /\ m.yiaddr = c.addr ->
               BoundArp([fresh EXCEPT !.listen = FALSE], t)
          [] m.type = DHCPACK /\ m.yiaddr # c.addr ->
               IF t.ok.arp THEN BoundArp(arp_check(fresh), t)
               ELSE Selecting(reinit_selecting(c, NakDelay), t)
          [] m.type = DHCPNAK -> Selecting(reinit_selecting(c, NakDelay), t)
          [] OTHER -> BoundArp(c, t)

BoundLoop(c, t) ==
    LET renewal == Send([c EXCEPT !.listen = TRUE], "renew")
        d == IF t.signal = "RENEW" THEN renewal ELSE c
    IN  IF t.signal # "NONE" /\ ~t.ok.dhcp
        THEN Error(IF t.signal = "RENEW" THEN [c EXCEPT !.listen = TRUE] ELSE c)
        ELSE IF t.signal = "RELEASE" THEN Released(Send(c, "release"))
        ELSE IF t.packet # NoPacket /\ t.packet.sid = c.server /\ is_renewing(c)
        THEN BoundPacket(d, t)
        ELSE BoundArp(d, t)

ReleasedLoop(c, t) ==
    IF t.signal = "RENEW" THEN Selecting(reinit_selecting(c, 0), t) ELSE Ok(c)

dhcp_handle(c, t) ==
    CASE c.pc = "SELECTING" -> SelectingLoop(c, t)
      [] c.pc = "REQUESTING" -> RequestingLoop(c, t)
      [] c.pc = "COLLISION" -> CollisionLoop(c, t)
      [] c.pc = "BOUND" -> BoundLoop(c, t)
      [] c.pc = "RELEASED" -> ReleasedLoop(c, t)

-----------------------------------------------------------------------------
(* do_ndhc_work *)

Init ==
    /\ s = [pc |-> "SELECTING", addr |-> "none", server |-> <<>>, lease |-> 0,
            age |-> 0, wake |-> 0, n |-> 0, listen |-> TRUE, announced |-> 0,
            sent_gw_query |-> FALSE, known |-> FALSE,
            timer |-> [t \in Timers |-> -1], probes |-> 0, probed |-> MaxProbe,
            wait |-> 0, started |-> AnnounceWait, announce_ts |-> DefendInterval,
            conflict_ts |-> -1, out |-> {}]
    /\ loop = [left |-> 0, zero |-> TRUE]
    /\ relentless \in BOOLEAN
    /\ failures = MaxFailures
    /\ seen = [spins |-> 0, owed |-> -1, tried |-> {}, lapsed |-> FALSE,
               garbled |-> {}, misread |-> {}, unsound |-> {}]

\* Mutant: the failsafe is for turns with events only.
NextTimeoutSpins(c, event) ==
    LET armed == {arp_get_wake_ts(c), c.wake} \ {-1}
    IN  IF armed = {} THEN -1
        ELSE IF Min(armed) = 0 /\ loop.zero /\ event THEN Failsafe
        ELSE Min(armed)

\* How long to sleep; -1: until something happens.
NextTimeout(c, event) ==
    LET armed == {arp_get_wake_ts(c), c.wake} \ {-1}
    IN  IF armed = {} THEN -1
        ELSE IF Min(armed) = 0 /\ loop.zero /\ ~event THEN Failsafe
        ELSE Min(armed)

\* The messages that say what is meant under every setting, a decline but for
\* its server.
Readable ==
    {kind \in Requests : \A c \in Clients :
        SaysWhatIsMeant(kind, c) \/ (kind = "decline" /\ DeclineSays(c))}

\* The replies that are read as they were meant.
Understood ==
    {l \in Layouts :
        \A code \in {DCODE_MSGTYPE, DCODE_SERVER_ID, DCODE_LEASET, DCODE_CLIENT_ID} :
          get_dhcp_opt(Message[l], code) = Said(l, code)}

\* Defects of a frame that only the kernel's filter looks for.
Harmless == {"fragment", "source port"}

\* History: a conflict stays owed until the address is announced, the lease is
\* given up, or sending it fails.
Owed(c, t) ==
    IF c.pc # "BOUND" \/ "announce" \in c.out \/ ~t.ok.arp THEN -1
    ELSE IF s.pc = "BOUND" /\ t.arp = "peer" /\ seen.owed = -1 THEN 0
    ELSE seen.owed

\* History: what a turn that leads to c adds.
Noted(c, t, event, frames) ==
    [spins |-> IF event THEN 0 ELSE seen.spins + 1,
     owed |-> Owed(c, t),
     tried |-> IF c.pc # "BOUND" \/ c.age # s.age THEN {}
               ELSE seen.tried \cup (c.out \cap {"renew", "rebind"}),
     lapsed |-> ~event /\ s.pc = "BOUND" /\ c.pc # "BOUND",
     garbled |-> c.out \ (Readable \cup {"announce"}),
     misread |-> {f \in frames : f[1] \notin Understood},
     unsound |-> {f \in frames : ~(f[2] \subseteq Harmless)}]

\* Which kinds of frames can be sent in a turn.
Sending ==
    {[arp |-> TRUE, dhcp |-> TRUE]}
    \cup IF failures = 0 THEN {}
         ELSE {[arp |-> FALSE, dhcp |-> TRUE], [arp |-> TRUE, dhcp |-> FALSE]}

\* What dhcp_handle is called with.
Input(signal, packet, arp, ok, rnd) ==
    [signal |-> signal, packet |-> packet, arp |-> arp, ok |-> ok, rnd |-> rnd,
     dhcp_due |-> s.wake <= 0, arp_due |-> arp_get_wake_ts(s) <= 0]

\* What a turn may come to.
Outcomes(signal, packet, arp) ==
    {LET r == dhcp_handle(s, Input(signal, packet, arp, x[1], x[2]))
     IN  [c |-> r.c, t |-> Input(signal, packet, arp, x[1], 0),
          pause |-> IF r.ok THEN -1 ELSE Pick(ErrorDelays, x[2])]
        : x \in Sending \X {0, 1}}

Quiet(c) == [c EXCEPT !.out = {}]

Turn(event, signal, packet, arp, frames) ==
    \E o \in Outcomes(signal, packet, arp) :
      LET timeout == IF o.pause = -1 THEN NextTimeout(o.c, event) ELSE o.pause
      IN  /\ s' = Quiet(o.c)
          /\ loop' = [left |-> timeout, zero |-> timeout = 0]
          /\ failures' = IF o.t.ok.arp /\ o.t.ok.dhcp THEN failures
                         ELSE failures - 1
          /\ seen' = Noted(o.c, o.t, event, frames)
          /\ UNCHANGED relentless

TimeoutTurn == loop.left = 0 /\ Turn(FALSE, "NONE", NoPacket, "none", {})

SignalTurn ==
    \E signal \in {"RENEW", "RELEASE"} : Turn(TRUE, signal, NoPacket, "none", {})

PacketTurn ==
    \E a \in Arrivals :
      s.listen /\ Turn(TRUE, "NONE", a.packet, "none", a.frames)

\* "echo": our own reply; "peer": another host uses our address; "agent": the
\* DHCP agent answers.
ArpTurn ==
    \E arp \in {"echo", "peer", "agent"} :
      s.pc \in {"COLLISION", "BOUND"} /\ Turn(TRUE, "NONE", NoPacket, arp, {})

\* Time passes while the loop sleeps.
Tick ==
    /\ loop.left # 0
    /\ loop' = [loop EXCEPT !.left = Down(@)]
    /\ s' = [s EXCEPT
               !.wake = Down(@), !.timer = [t \in Timers |-> Down(@[t])],
               !.age = IF s.lease = 0 THEN 0 ELSE Up(@, MaxAge),
               !.probed = Up(@, MaxProbe), !.started = Up(@, AnnounceWait),
               !.announce_ts = Up(@, DefendInterval),
               !.conflict_ts = IF @ = -1 THEN -1 ELSE Up(@, DefendInterval)]
    /\ seen' = [spins |-> 0, owed |-> IF seen.owed = -1 THEN -1 ELSE seen.owed + 1,
                tried |-> seen.tried, lapsed |-> FALSE,
                garbled |-> {}, misread |-> {}, unsound |-> {}]
    /\ UNCHANGED <<relentless, failures>>

Next == TimeoutTurn \/ SignalTurn \/ PacketTurn \/ ArpTurn \/ Tick

Spec == Init /\ [][Next]_vars

-----------------------------------------------------------------------------
(* Properties *)

States == {"SELECTING", "REQUESTING", "COLLISION", "BOUND", "RELEASED"}

\* Types; a timer never asks for more ticks than the code gives it.
TypeOK ==
    /\ s.pc \in States
    /\ s.wake \in -1 .. MaxAge
    /\ s.age \in 0 .. MaxAge
    /\ s.n \in 0 .. MaxRequests
    /\ s.announced \in 0 .. 2
    /\ \A t \in Timers :
         s.timer[t] \in -1 .. Max({MaxProbe, RetransDelay, DefendInterval})
    /\ loop.left \in -1 .. MaxAge
    /\ failures \in 0 .. MaxFailures

\* Every message that is sent (send_discover .. send_release) holds, in order,
\* the options meant for it that have room, and ends in an end marker.  The one
\* exception is known: a DHCPDECLINE names the address it declines (arp.c:692)
\* as its server (dhcp.c:498), where the server of the lease belongs.
RequestsReadable == seen.garbled = {}

\* A reply that is acted on was read as the server meant it, whichever fields
\* its options were spread over (get_dhcp_opt).
RepliesUnderstood == seen.misread = {}

\* With or without the kernel's filter, a frame that is acted on is an IPv4
\* packet of UDP to our port whose lengths and checksums are right, and answers
\* this exchange of this client.
AcceptedIsSound == seen.unsound = {}

\* The loop that holds a lease lets go of it at the end of its time: late by no
\* more than the failsafe, and a pause for every turn that failed.
HeldNoLonger ==
    s.pc = "BOUND" =>
        s.age <= s.lease * Ms + Failsafe
                 + (MaxFailures - failures) * Max(ErrorDelays)

\* When nothing but a timer makes the client give up its lease, the lease is
\* over, and the client has tried to renew and to rebind it, sending permitting.
\* A lease whose end in milliseconds does not fit its type is no such lease.
GivenUpOnlyWhenOver ==
    [][seen'.lapsed /\ s.lease * Ms < UIntMod
       => /\ s.age >= s.lease * Ms
          /\ failures = MaxFailures => seen.tried = {"renew", "rebind"}]_vars

\* An address is used only after the last probe for it had the shortest wait
\* there is to be answered in (arp_collision_timeout), sending permitting.
AnswersHaveTime ==
    [][s.pc = "COLLISION" /\ s'.pc = "BOUND" /\ failures = MaxFailures
       => s'.probed >= Min(ProbeDelays \cup {ProbeWait})]_vars

\* A relentless client answers a conflict within the defence interval, or the
\* failsafe if that is longer, and a pause for every turn that failed; another
\* answers or gives up the lease.
DefendsInTime ==
    seen.owed <= Max({DefendInterval, Failsafe})
                 + (MaxFailures - failures) * Max(ErrorDelays)

\* However the timers stand, the loop does not spin: after two turns without
\* an event it sleeps.
NoSpin == seen.spins <= 2
=============================================================================
