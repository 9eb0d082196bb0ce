-------------------------- MODULE DhcpClientProofs --------------------------
(***************************************************************************)
(* Proofs about DhcpClient, for every choice of its constants:             *)
(*   - IInv is an inductive invariant, hence the safety properties hold;   *)
(*   - the client implements LeaseSpec.                                    *)
(* The lemmas first say what the building blocks of the actions do to the  *)
(* invariant (going on in a call, starting one, starting over, staying     *)
(* bound); then there is one lemma per group of actions.                   *)
(***************************************************************************)
EXTENDS DhcpClient, ArpProofs

-----------------------------------------------------------------------------
(* Constants and types *)

\* A check of the gateway allows for at least two pings.
LEMMA PingBoundHolds == PingBound
BY ConstantsAssumption DEF PingBound

\* Replacing a field of client_state_t by a value of its type keeps the type.
LEMMA ClientUpdateType ==
    ASSUME NEW c \in ClientState
    PROVE  /\ \A v \in Addrs \cup {NoAddr} :
                [c EXCEPT !.clientAddr = v] \in ClientState
           /\ \A v \in Hosts \cup {NoAddr} :
                /\ [c EXCEPT !.serverAddr = v] \in ClientState
                /\ [c EXCEPT !.srcAddr = v] \in ClientState
                /\ [c EXCEPT !.routerAddr = v] \in ClientState
           /\ \A v \in 0 .. MaxRequests :
                [c EXCEPT !.requests = v] \in ClientState
           /\ \A v \in 0 .. 3 : [c EXCEPT !.phase = v] \in ClientState
           /\ \A v \in Nets \cup {NoNet} :
                [c EXCEPT !.leaseNet = v] \in ClientState
<1>1. \A v \in Addrs \cup {NoAddr} :
        [c EXCEPT !.clientAddr = v] \in ClientState
  BY ZenonT(60) DEF ClientState
<1>2. \A v \in Hosts \cup {NoAddr} :
        /\ [c EXCEPT !.serverAddr = v] \in ClientState
        /\ [c EXCEPT !.srcAddr = v] \in ClientState
        /\ [c EXCEPT !.routerAddr = v] \in ClientState
  BY ZenonT(60) DEF ClientState
<1>3. \A v \in 0 .. MaxRequests : [c EXCEPT !.requests = v] \in ClientState
  BY ZenonT(60) DEF ClientState
<1>4. \A v \in 0 .. 3 : [c EXCEPT !.phase = v] \in ClientState
  BY ZenonT(60) DEF ClientState
<1>5. \A v \in Nets \cup {NoNet} : [c EXCEPT !.leaseNet = v] \in ClientState
  BY ZenonT(60) DEF ClientState
<1> QED BY <1>1, <1>2, <1>3, <1>4, <1>5

\* The same for its flags and for the reason to exit.
LEMMA ClientFlagType ==
    ASSUME NEW c \in ClientState
    PROVE  /\ \A v \in BOOLEAN :
                /\ [c EXCEPT !.wake = v] \in ClientState
                /\ [c EXCEPT !.listen = v] \in ClientState
                /\ [c EXCEPT !.program_init = v] \in ClientState
                /\ [c EXCEPT !.ifDeconfig = v] \in ClientState
           /\ \A v \in {"", "nolease", "bind", "fingerprint", "quit", "term",
                        "removed"} :
                [c EXCEPT !.exit = v] \in ClientState
<1>1. \A v \in BOOLEAN : /\ [c EXCEPT !.wake = v] \in ClientState
                         /\ [c EXCEPT !.listen = v] \in ClientState
  BY ZenonT(60) DEF ClientState
<1>2. \A v \in BOOLEAN : /\ [c EXCEPT !.program_init = v] \in ClientState
                         /\ [c EXCEPT !.ifDeconfig = v] \in ClientState
  BY ZenonT(60) DEF ClientState
<1>3. \A v \in {"", "nolease", "bind", "fingerprint", "quit", "term",
                "removed"} :
        [c EXCEPT !.exit = v] \in ClientState
  BY ZenonT(60) DEF ClientState
<1> QED BY <1>1, <1>2, <1>3, ZenonT(60)

\* What an event of each kind carries.
LEMMA EventFacts ==
    ASSUME NEW e \in Events
    PROVE  /\ e.kind \in {"none", "ifup", "signal", "dhcp", "arp"}
           /\ e.kind = "signal" => e.sig \in Signals
           /\ e.kind = "dhcp" => e.pkt \in Packets
           /\ e.kind = "arp" => e.msg \in ArpMsg
BY DEF Events, NoEvent

\* What the client keeps of a reply has the right type.
LEMMA PacketFacts ==
    ASSUME NEW p \in Packets
    PROVE  /\ p.yiaddr \in Addrs /\ p.sid \in Hosts \cup {NoAddr}
           /\ p.src \in Hosts /\ p.router \in Hosts \cup {NoAddr}
           /\ LeaseOf(p) \in Leases /\ LeaseOf(p).yiaddr = p.yiaddr
BY ConstantsAssumption DEF PacketType, LeaseOf, Leases

-----------------------------------------------------------------------------
(* Going on in a call, and starting one *)

\* Whatever sections a call goes on with, its event still matches them.
LEMMA GoFacts ==
    ASSUME TypeOK, EventMatches, NEW l \in Lines,
           NEW S \in SUBSET (todo \cup {"gwtimer", "dhcptimer"}), Go(l, S)
    PROVE  /\ line' = l /\ line' \in Lines /\ todo' = S
           /\ todo' \in SUBSET Sections /\ ev' \in Events /\ EventMatches'
<1>1. todo' \in SUBSET Sections
  BY DEF Go, TypeOK, Sections
<1>2. ev' \in Events
  BY DEF Go, TypeOK, Events
<1>3. CASE S = {}
  <2>1. ev'.kind = "none" /\ todo' = {}
    BY <1>3 DEF Go, NoEvent
  <2> QED BY <1>1, <1>2, <2>1 DEF EventMatches, Go
<1>4. CASE S # {}
  <2>1. ev' = ev /\ todo' \subseteq todo \cup {"gwtimer", "dhcptimer"}
    BY <1>4 DEF Go
  <2> QED BY <1>1, <1>2, <2>1 DEF EventMatches, Go
<1> QED BY <1>3, <1>4

\* A call runs sections that match its event.
LEMMA CallFacts ==
    ASSUME TypeOK, NEW e \in Events, NEW t \in TimersDue, Call(e, t),
           e.kind = "arp" /\ e.msg.sip \in Hosts => e.msg.smac \in Nets
    PROVE  /\ line' = line /\ todo' \in SUBSET Sections /\ ev' \in Events
           /\ EventMatches'
<1>1. t \subseteq {"arptimer", "dhcptimer"}
  BY DEF TimersDue
<1>2. todo' \subseteq {"arptimer", "dhcptimer", e.kind, "resume"}
  BY <1>1, ZenonT(60) DEF Call
<1>3. todo' \in SUBSET Sections
  <2>1. SectionsOf(line) \subseteq Sections
    BY DEF SectionsOf, Sections
  <2> QED BY <2>1 DEF Call
<1>4. ev' \in Events
  BY DEF Call, Events
<1>5. CASE todo' = {}
  <2>1. ev'.kind = "none"
    BY <1>5 DEF Call, NoEvent
  <2> QED BY <1>3, <1>4, <1>5, <2>1 DEF EventMatches, Call
<1>6. CASE todo' # {}
  <2>1. ev' = e
    BY <1>6 DEF Call
  <2> QED BY <1>2, <1>3, <1>4, <2>1 DEF EventMatches, Call
<1> QED BY <1>5, <1>6

-----------------------------------------------------------------------------
(* What happens to the client's state and to the network's *)

\* Forgetting the lease keeps the type, and the wake and listen flags are as
\* each way of forgetting sets them.
LEMMA ForgetLeaseFacts ==
    ASSUME NEW c \in ClientState
    PROVE  /\ reinit_selecting(c) \in ClientState
           /\ reinit_selecting(c).wake
           /\ print_release(c) \in ClientState
           /\ ~print_release(c).wake /\ ~print_release(c).listen
           /\ print_release(c).clientAddr = NoAddr
<1> DEFINE d == reinit_shared_deconfig(c)
<1>1. d \in ClientState
  <2>1. 0 \in 0 .. MaxRequests /\ 0 \in 0 .. 3
    BY ConstantsAssumption
  <2> QED BY <2>1, ClientUpdateType, ZenonT(60) DEF reinit_shared_deconfig
<1>2. d.clientAddr = NoAddr
  BY ZenonT(60) DEF reinit_shared_deconfig, ClientState
<1>3. /\ reinit_selecting(c) = [d EXCEPT !.wake = TRUE, !.listen = TRUE]
      /\ print_release(c) = [d EXCEPT !.wake = FALSE, !.listen = FALSE]
  BY DEF reinit_selecting, print_release
<1> HIDE DEF d
<1>4. /\ [d EXCEPT !.wake = TRUE, !.listen = TRUE] \in ClientState
      /\ [d EXCEPT !.wake = TRUE, !.listen = TRUE].wake
  BY <1>1, ZenonT(60) DEF ClientState
<1>5. LET r == [d EXCEPT !.wake = FALSE, !.listen = FALSE]
      IN  r \in ClientState /\ ~r.wake /\ ~r.listen /\ r.clientAddr = NoAddr
  BY <1>1, <1>2, ZenonT(60) DEF ClientState
<1> QED
  BY <1>3, <1>4, <1>5

\* reinit_shared_deconfig closes the ARP socket, stops the timers and forgets
\* the network.
LEMMA ForgetNetworkFacts ==
    ASSUME NEW a \in ArpState
    PROVE  /\ ForgetNetwork(a) \in ArpState
           /\ NetworkForgotten(ForgetNetwork(a))
           /\ ForgetNetwork(a).fd = "none" /\ ForgetNetwork(a).wake = {}
<1>1. 0 \in 0 .. GwPings /\ 0 \in 0 .. 2
  BY PingBoundHolds DEF PingBound
<1>2. arp_reset_state(a) \in ArpState
  BY <1>1, UpdateType, UpdateFlagType, ZenonT(60) DEF arp_reset_state
<1>3. ForgetNetwork(a) \in ArpState
  <2> DEFINE b == arp_reset_state(a)
             c == [b EXCEPT !.got_router_arp = FALSE, !.got_server_arp = FALSE]
             d == [c EXCEPT !.check_fingerprint = FALSE,
                            !.sent_gw_query = FALSE]
             e == [d EXCEPT !.announced = 0, !.init_fingerprint = FALSE]
  <2>1. ForgetNetwork(a) = [e EXCEPT !.routerArp = NoNet, !.serverArp = NoNet]
    BY DEF ForgetNetwork
  <2> b \in ArpState
    BY <1>2
  <2> HIDE DEF b
  <2>2. c \in ArpState
    BY ZenonT(60) DEF ArpState
  <2> HIDE DEF c
  <2>3. d \in ArpState
    BY <2>2, ZenonT(60) DEF ArpState
  <2> HIDE DEF d
  <2>4. e \in ArpState
    BY <1>1, <2>3, ZenonT(60) DEF ArpState
  <2> HIDE DEF e
  <2>5. [e EXCEPT !.routerArp = NoNet, !.serverArp = NoNet] \in ArpState
    BY <2>4, ZenonT(60) DEF ArpState
  <2> QED BY <2>1, <2>5
<1> QED
  BY <1>3, ZenonT(60)
     DEF ForgetNetwork, arp_reset_state, ArpState, NetworkForgotten

-----------------------------------------------------------------------------
(* Ways in which a step keeps the invariant *)

\* Types of the variables that dhcp_handle leaves alone.
OutsideType ==
    /\ link \in [carrier : BOOLEAN, net : Nets,
                 nl : {"none", "up", "down", "removed"},
                 rfkill_set : BOOLEAN, wentup : BOOLEAN]
    /\ sigs \in [pending : SUBSET Signals, last : Signals \cup {"none"}]

\* The control part of the invariant.
ControlOK ==
    /\ line \in Lines /\ todo \in SUBSET Sections /\ ev \in Events
    /\ EventMatches

\* Steps that only start a call, or only change the world around ndhc.
LEMMA ClientUntouched ==
    ASSUME IInv, UNCHANGED <<line, cs, arp, host>>, ControlOK', OutsideType'
    PROVE  IInv'
BY DEF IInv, TypeOK, Fresh, Probed, Configured, Awake, Scheduled,
       SocketMatchesLease, ControlOK, OutsideType

\* goto reinit: the lease and the network are forgotten.
LEMMA LandsInSelecting ==
    ASSUME IInv, NEW c \in ClientState, NEW a \in ArpState,
           cs' = c, c.wake, arp' = ForgetNetwork(a), line' = "SELECTING",
           host'.cfg \in {host.cfg, NoLease},
           host'.cfg = host.cfg => host' = host,
           host' \in HostState,
           ControlOK', OutsideType'
    PROVE  IInv'
BY ForgetNetworkFacts
   DEF IInv, TypeOK, Fresh, Probed, Configured, Awake, Scheduled,
       SocketMatchesLease, ControlOK, OutsideType

\* A release puts ndhc to sleep with nothing left of the network.
LEMMA LandsInReleased ==
    ASSUME IInv, Sleep, UNCHANGED <<host, link, sigs>>
    PROVE  IInv'
<1>1. cs \in ClientState /\ arp \in ArpState
  BY DEF IInv, TypeOK
<1>2. line' = "RELEASED" /\ ControlOK'
  BY GoFacts DEF Sleep, Return, ControlOK, IInv, Lines
<1>3. /\ cs' \in ClientState /\ ~cs'.wake /\ ~cs'.listen
      /\ cs'.clientAddr = NoAddr
  BY <1>1, ForgetLeaseFacts DEF Sleep
<1>4. /\ arp' \in ArpState /\ NetworkForgotten(arp')
      /\ arp'.fd = "none" /\ arp'.wake = {}
  BY <1>1, ForgetNetworkFacts DEF Sleep
<1> QED
  BY <1>2, <1>3, <1>4
     DEF IInv, TypeOK, Fresh, Probed, Configured, Awake, Scheduled,
         SocketMatchesLease, ControlOK

\* Starting over keeps the invariant.
LEMMA ReinitKeeps ==
    ASSUME IInv, Reinit, UNCHANGED <<host, link, sigs>>
    PROVE  IInv'
<1>1. cs \in ClientState /\ arp \in ArpState /\ OutsideType'
  BY DEF IInv, TypeOK, OutsideType
<1>2. line' = "SELECTING" /\ ControlOK'
  BY GoFacts DEF Reinit, GotoReinit, ControlOK, IInv, Lines
<1>3. /\ reinit_selecting(cs) \in ClientState
      /\ reinit_selecting(cs).wake
  BY <1>1, ForgetLeaseFacts
<1>4. host' = host
      /\ host \in HostState
  BY DEF IInv, TypeOK
<1> QED
  BY <1>1, <1>2, <1>3, <1>4, LandsInSelecting DEF Reinit

\* An exit keeps the invariant; what it has changed before does not matter.
LEMMA LandsInExited ==
    ASSUME IInv, line' = "EXITED", ControlOK', OutsideType',
           cs' \in ClientState, UNCHANGED arp,
           arp.fd = "defense" => cs'.clientAddr = cs.clientAddr,
           host' \in HostState,
           host'.cfg # NoLease =>
                /\ host'.cfg \in Leases
                /\ host'.iface = IF host'.refused THEN NoAddr
                                 ELSE host'.cfg.yiaddr
    PROVE  IInv'
BY DEF IInv, TypeOK, Fresh, Probed, Configured, Awake, Scheduled,
       SocketMatchesLease, ControlOK, OutsideType

\* An exit that changes nothing but the reason for it.
LEMMA ExitKeeps ==
    ASSUME IInv, NEW why \in {"nolease", "bind", "fingerprint", "quit", "term",
                              "removed"},
           Exit(why), UNCHANGED <<arp, host>>, OutsideType'
    PROVE  IInv'
<1>1. line' = "EXITED" /\ ControlOK'
  BY GoFacts DEF Exit, Return, ControlOK, IInv, Lines
<1>2. cs' \in ClientState /\ cs'.clientAddr = cs.clientAddr
  <2>1. cs \in ClientState
    BY DEF IInv, TypeOK
  <2>2. cs' \in ClientState
    BY <2>1, ClientFlagType, ZenonT(60) DEF Exit
  <2> QED BY <2>1, <2>2, ZenonT(60) DEF Exit, ClientState
<1> QED
  BY <1>1, <1>2, LandsInExited DEF IInv, TypeOK, Configured

\* A step in BOUND that keeps the lease: the address and the router stay, the
\* ARP work stays scheduled and a filtered socket filters for our address.
LEMMA StaysBound ==
    ASSUME IInv, line = "BOUND", line' = "BOUND", ControlOK', OutsideType',
           UNCHANGED host,
           cs' \in ClientState, cs'.wake, cs'.clientAddr = cs.clientAddr,
           cs'.routerAddr = cs.routerAddr, cs'.ifDeconfig = cs.ifDeconfig,
           arp' \in ArpState, WorkScheduled(arp'),
           arp'.fd = "defense" => arp'.filter = cs.clientAddr
    PROVE  IInv'
<1>1. cs.clientAddr # NoAddr
  BY ConstantsAssumption DEF IInv, Configured, Leases
<1> QED
  BY <1>1
     DEF IInv, TypeOK, Fresh, Probed, Configured, Awake, Scheduled,
         SocketMatchesLease, ControlOK, OutsideType

\* What the invariant says in BOUND.
LEMMA BoundFacts ==
    ASSUME IInv, line = "BOUND"
    PROVE  /\ cs \in ClientState /\ arp \in ArpState /\ cs.wake
           /\ cs.clientAddr \in Addrs /\ WorkScheduled(arp)
           /\ cs.routerAddr \in Hosts \cup {NoAddr}
           /\ cs.srcAddr \in Hosts \cup {NoAddr}
           /\ arp.fd = "defense" => arp.filter = cs.clientAddr
           /\ cs.phase \in 0 .. 3
<1>1. cs \in ClientState /\ arp \in ArpState
  BY DEF IInv, TypeOK
<1>2. cs.wake /\ WorkScheduled(arp)
      /\ (arp.fd = "defense" => arp.filter = cs.clientAddr)
  BY DEF IInv, Awake, Scheduled, SocketMatchesLease
<1>3. cs.clientAddr \in Addrs
  BY DEF IInv, Configured, Leases
<1> QED
  BY <1>1, <1>2, <1>3, ZenonT(60) DEF ClientState

\* scrReturn skips the rest of the call.
LEMMA ReturnFacts ==
    ASSUME IInv, NEW l \in Lines, Return(l)
    PROVE  line' = l /\ ControlOK'
BY GoFacts DEF Return, ControlOK, IInv

\* Falling through to the sections that follow.
LEMMA DoneFacts ==
    ASSUME IInv, NEW sec, Done(sec)
    PROVE  line' = line /\ ControlOK'
<1>1. line \in Lines
  BY DEF IInv, TypeOK
<1> QED BY <1>1, GoFacts DEF Done, ControlOK, IInv

\* The outcomes of sends are what the fault model says, at most all of them.
LEMMA SentFacts ==
    /\ Sent \subseteq BOOLEAN /\ IfchOk \subseteq BOOLEAN
    /\ \A n \in Nat : SentOf(n) \subseteq 0 .. n
<1>1. Sent \subseteq BOOLEAN
  BY ZenonT(60) DEF Sent
<1>2. IfchOk \subseteq BOOLEAN
  BY ZenonT(60) DEF IfchOk
<1>3. \A n \in Nat : SentOf(n) \subseteq 0 .. n
  BY DEF SentOf
<1> QED BY <1>1, <1>2, <1>3

-----------------------------------------------------------------------------
(* SELECTING and REQUESTING *)

\* Without a lease only client_state_t changes.
LEMMA StaysUnbound ==
    ASSUME IInv, line \in {"SELECTING", "REQUESTING"},
           line' \in {"SELECTING", "REQUESTING"},
           ControlOK', OutsideType', UNCHANGED <<arp, host>>,
           cs' \in ClientState,
           cs'.wake \/ (line' = "SELECTING" /\ cs'.requests = 0)
    PROVE  IInv'
BY DEF IInv, TypeOK, Fresh, Probed, Configured, Awake, Scheduled,
       SocketMatchesLease, ControlOK, OutsideType

\* A signal without a lease.
LEMMA UnboundSignalKeeps ==
    ASSUME IInv, UnboundSignal
    PROVE  IInv'
<1>1. OutsideType' /\ UNCHANGED host
  BY DEF UnboundSignal, IInv, TypeOK, OutsideType
<1>2. CASE ev.sig = "RELEASE" /\ Sleep
  BY <1>2, LandsInReleased DEF UnboundSignal
<1>3. CASE Done("signal") /\ UNCHANGED <<cs, arp>>
  <2>1. line' = line /\ ControlOK'
    BY <1>3, DoneFacts
  <2> QED BY <1>1, <1>3, <2>1, ClientUntouched
<1> QED BY <1>2, <1>3 DEF UnboundSignal

\* An offer, or a packet that is not one.
LEMMA SelectingPacketKeeps ==
    ASSUME IInv, SelectingPacket
    PROVE  IInv'
<1> DEFINE p == ev.pkt
<1>1. OutsideType' /\ UNCHANGED <<arp, host>> /\ line = "SELECTING"
  BY DEF SelectingPacket, IInv, TypeOK, OutsideType, At
<1>2. cs \in ClientState
  BY DEF IInv, TypeOK
<1>3. p \in Packets
  BY EventFacts DEF SelectingPacket, At, IInv, TypeOK, EventMatches
<1>4. CASE /\ cs' = [cs EXCEPT !.clientAddr = p.yiaddr,
                               !.serverAddr = p.sid, !.srcAddr = p.src,
                               !.wake = TRUE, !.requests = 0]
           /\ Go("REQUESTING", todo \cap {"dhcptimer"})
  <2>1. line' = "REQUESTING" /\ ControlOK'
    BY <1>4, GoFacts DEF IInv, ControlOK, Lines
  <2> DEFINE c == [cs EXCEPT !.clientAddr = p.yiaddr, !.serverAddr = p.sid,
                             !.srcAddr = p.src]
  <2>2. c \in ClientState
    <3>1. /\ p.yiaddr \in Addrs \cup {NoAddr} /\ p.sid \in Hosts \cup {NoAddr}
          /\ p.src \in Hosts \cup {NoAddr}
      BY <1>3, PacketFacts
    <3> HIDE DEF p
    <3> QED BY <1>2, <3>1, ClientUpdateType, ZenonT(60)
  <2>3. cs' = [c EXCEPT !.wake = TRUE, !.requests = 0]
    BY <1>4
  <2> HIDE DEF c
  <2>4. cs' \in ClientState /\ cs'.wake
    <3>1. 0 \in 0 .. MaxRequests
      BY ConstantsAssumption
    <3> QED BY <2>2, <2>3, <3>1, ZenonT(60) DEF ClientState
  <2> QED BY <1>1, <2>1, <2>4, StaysUnbound
<1>5. CASE Done("dhcp") /\ UNCHANGED cs
  <2>1. line' = line /\ ControlOK'
    BY <1>5, DoneFacts
  <2> QED BY <1>1, <1>5, <2>1, ClientUntouched
<1> QED BY <1>4, <1>5 DEF SelectingPacket

\* Counting and scheduling a request keeps the type.
LEMMA RequestedFacts ==
    ASSUME NEW c \in ClientState
    PROVE  /\ Requested(c) \in ClientState /\ Requested(c).wake
           /\ Requested(c).clientAddr = c.clientAddr
<1> DEFINE n == IF c.requests < MaxRequests THEN c.requests + 1 ELSE c.requests
<1>1. n \in 0 .. MaxRequests
  <2>1. c.requests \in 0 .. MaxRequests
    BY ZenonT(60) DEF ClientState
  <2>2. MaxRequests \in Nat
    BY ConstantsAssumption
  <2> QED BY <2>1, <2>2
<1>2. Requested(c) = [c EXCEPT !.wake = TRUE, !.requests = n]
  BY DEF Requested
<1> HIDE DEF n
<1> QED BY <1>1, <1>2, ZenonT(60) DEF ClientState

\* A DISCOVER is due.
LEMMA SelectingTimeoutKeeps ==
    ASSUME IInv, SelectingTimeout
    PROVE  IInv'
<1> DEFINE tired == cs.program_init /\ cs.requests >= MaxDiscovers
           i == cs.program_init /\ ~(tired /\ "background" \in cs.config)
           c == [cs EXCEPT !.program_init = i]
<1>1. OutsideType' /\ UNCHANGED <<arp, host>> /\ line = "SELECTING"
  BY DEF SelectingTimeout, IInv, TypeOK, OutsideType, At
<1>2. cs \in ClientState /\ (cs.wake \/ cs.requests = 0)
  BY <1>1 DEF IInv, TypeOK, Awake
<1>3. CASE Exit("nolease")
  BY <1>1, <1>3, ExitKeeps
<1>4. CASE /\ \E ok \in Sent : cs' = IF ok THEN Requested(c) ELSE c
           /\ Return(line)
  <2>1. line' = "SELECTING" /\ ControlOK'
    BY <1>1, <1>4, ReturnFacts DEF Lines
  <2>2. i \in BOOLEAN
    OBVIOUS
  <2> HIDE DEF i
  <2>3. c \in ClientState /\ c.wake = cs.wake /\ c.requests = cs.requests
    BY <1>2, <2>2, ZenonT(60) DEF ClientState
  <2> HIDE DEF c
  <2>4. cs' \in ClientState /\ (cs'.wake \/ cs'.requests = 0)
    BY <1>2, <1>4, <2>3, RequestedFacts
  <2> QED BY <1>1, <2>1, <2>4, StaysUnbound
<1> QED BY <1>3, <1>4 DEF SelectingTimeout

\* The probe of an acknowledged address starts from a clean ARP state.
LEMMA ProbeFacts ==
    ASSUME NEW a \in ArpState, NEW l \in Leases, NetworkForgotten(a),
           a.fd = "none", a.wake = {}
    PROVE  LET b == arp_check(a, l, TRUE)
           IN  /\ NetworkForgotten(b) /\ b.fd = "basic"
               /\ b.wake = {"COLLISION"} /\ b.offered = l
BY DEF NetworkForgotten, arp_check, arp_open_fd, Arm, ArpState

\* get_leasetime starts the lease anew.
LEMMA LeasetimeFacts ==
    ASSUME NEW c \in ClientState, link.net \in Nets
    PROVE  LET d == get_leasetime(c)
           IN  /\ d \in ClientState /\ d.wake
               /\ d.clientAddr = c.clientAddr /\ d.routerAddr = c.routerAddr
               /\ d.ifDeconfig = c.ifDeconfig
<1>1. 0 \in 0 .. 3 /\ link.net \in Nets \cup {NoNet}
  OBVIOUS
<1>2. get_leasetime(c) \in ClientState
  BY <1>1, ClientUpdateType, ClientFlagType, ZenonT(60) DEF get_leasetime
<1> QED BY <1>2, ZenonT(60) DEF get_leasetime, ClientState

\* An ACK of the requested address starts the probe.
LEMMA RequestingPacketKeeps ==
    ASSUME IInv, RequestingPacket
    PROVE  IInv'
<1> DEFINE p == ev.pkt
           s == IF cs.serverAddr = p.sid THEN cs.srcAddr ELSE p.src
           d == [cs EXCEPT !.serverAddr = p.sid, !.srcAddr = s]
           c == get_leasetime(d)
           a(ok) == arp_check(arp, LeaseOf(p), ok)
<1>1. /\ OutsideType' /\ UNCHANGED host /\ line = "REQUESTING"
      /\ link.net \in Nets
  BY DEF RequestingPacket, IInv, TypeOK, OutsideType, At
<1>2. cs \in ClientState /\ arp \in ArpState
  BY DEF IInv, TypeOK
<1>3. p \in Packets
  BY EventFacts DEF RequestingPacket, At, IInv, TypeOK, EventMatches
<1>4. /\ p.yiaddr \in Addrs /\ p.sid \in Hosts \cup {NoAddr}
      /\ p.src \in Hosts /\ LeaseOf(p) \in Leases
      /\ LeaseOf(p).yiaddr = p.yiaddr
  BY <1>3, PacketFacts
<1>5. s \in Hosts \cup {NoAddr}
  BY <1>2, <1>4, ZenonT(60) DEF ClientState
<1>6. d \in ClientState /\ d.clientAddr = cs.clientAddr
  <2> HIDE DEF s, p
  <2> QED BY <1>2, <1>4, <1>5, ZenonT(60) DEF ClientState
<1>7. c \in ClientState /\ c.wake /\ c.clientAddr = cs.clientAddr
  <2> HIDE DEF d
  <2> QED BY <1>1, <1>6, LeasetimeFacts
<1>8. a(TRUE) \in ArpState /\ a(FALSE) \in ArpState
  BY <1>2, <1>4, CheckFacts, ZenonT(60)
<1>9. CASE AcksOffer(p) /\ cs' = c /\ arp' = a(TRUE) /\ Return("COLLISION")
  <2>1. line' = "COLLISION" /\ ControlOK'
    BY <1>9, ReturnFacts DEF Lines
  <2>2. /\ NetworkForgotten(arp') /\ arp'.fd = "basic"
        /\ arp'.wake = {"COLLISION"} /\ arp'.offered = LeaseOf(p)
    BY <1>1, <1>2, <1>4, <1>9, ProbeFacts, ZenonT(60) DEF IInv, Fresh
  <2>3. arp'.offered \in Leases /\ arp'.offered.yiaddr = cs'.clientAddr
    BY <1>4, <1>7, <1>9, <2>2, ZenonT(60) DEF AcksOffer
  <2>4. cs' \in ClientState /\ cs'.wake /\ arp' \in ArpState
    BY <1>7, <1>8, <1>9, ZenonT(60)
  <2> HIDE DEF a, c
  <2> QED
    BY <1>1, <2>1, <2>2, <2>3, <2>4, SMTT(30)
       DEF IInv, TypeOK, Fresh, Probed, Configured, Awake, Scheduled,
           SocketMatchesLease, ControlOK, OutsideType
<1>10. CASE /\ cs' = reinit_selecting(c) /\ arp' = ForgetNetwork(a(FALSE))
            /\ GotoReinit
  <2>1. line' = "SELECTING" /\ ControlOK'
    BY <1>10, GoFacts DEF GotoReinit, ControlOK, IInv, Lines
  <2>2. cs' \in ClientState /\ cs'.wake
    BY <1>7, <1>10, ForgetLeaseFacts
  <2> HIDE DEF a, c
  <2> QED
    BY <1>1, <1>8, <1>10, <2>1, <2>2, LandsInSelecting, ZenonT(60)
       DEF IInv, TypeOK
<1>11. CASE Done("dhcp") /\ UNCHANGED <<cs, arp>>
  <2>1. line' = line /\ ControlOK'
    BY <1>11, DoneFacts
  <2> QED BY <1>1, <1>11, <2>1, ClientUntouched
<1>12. \/ AcksOffer(p) /\ cs' = c /\ arp' = a(TRUE) /\ Return("COLLISION")
       \/ /\ cs' = reinit_selecting(c) /\ arp' = ForgetNetwork(a(FALSE))
          /\ GotoReinit
       \/ Done("dhcp") /\ UNCHANGED <<cs, arp>>
  BY SentFacts, ZenonT(60) DEF RequestingPacket
<1> QED BY <1>9, <1>10, <1>11, <1>12, ZenonT(60)

-----------------------------------------------------------------------------
(* Probing the address *)

\* A step that goes on probing.
LEMMA StaysProbing ==
    ASSUME IInv, line = "COLLISION", line' = "COLLISION", ControlOK',
           OutsideType', UNCHANGED host, cs' \in ClientState, cs'.wake,
           cs'.clientAddr = cs.clientAddr, arp' \in ArpState,
           NetworkForgotten(arp'), arp'.fd = "basic",
           arp'.wake \subseteq {"COLLISION"}, arp'.offered = arp.offered
    PROVE  IInv'
BY DEF IInv, TypeOK, Fresh, Probed, Configured, Awake, Scheduled,
       SocketMatchesLease, ControlOK, OutsideType

\* What the invariant says while probing.
LEMMA ProbingFacts ==
    ASSUME IInv, line = "COLLISION"
    PROVE  /\ cs \in ClientState /\ cs.wake /\ arp \in ArpState
           /\ NetworkForgotten(arp) /\ arp.fd = "basic"
           /\ arp.wake \subseteq {"COLLISION"}
           /\ arp.offered \in Leases /\ arp.offered.yiaddr = cs.clientAddr
BY DEF IInv, TypeOK, Fresh, Probed, Awake

\* A REQUEST is due, before or during the probe.
LEMMA RequestingTimeoutKeeps ==
    ASSUME IInv, requesting_timeout
    PROVE  IInv'
<1>1. /\ OutsideType' /\ UNCHANGED host
      /\ line \in {"REQUESTING", "COLLISION"}
  BY DEF requesting_timeout, IInv, TypeOK, OutsideType, At
<1>2. cs \in ClientState /\ cs.wake
  BY <1>1 DEF IInv, TypeOK, Awake
<1>3. CASE Reinit
  BY <1>3, ReinitKeeps DEF requesting_timeout
<1>4. CASE /\ \E ok \in Sent : cs' = IF ok THEN Requested(cs) ELSE cs
           /\ Return(line) /\ UNCHANGED arp
  <2>1. line' = line /\ ControlOK'
    BY <1>1, <1>4, ReturnFacts DEF Lines
  <2>2. cs' \in ClientState /\ cs'.wake /\ cs'.clientAddr = cs.clientAddr
    BY <1>2, <1>4, RequestedFacts
  <2>3. CASE line = "REQUESTING"
    BY <1>1, <1>4, <2>1, <2>2, <2>3, StaysUnbound
  <2>4. CASE line = "COLLISION"
    BY <1>1, <1>4, <2>1, <2>2, <2>4, ProbingFacts, StaysProbing
  <2> QED BY <1>1, <2>3, <2>4
<1> QED BY <1>3, <1>4 DEF requesting_timeout

\* Arming and disarming the probe's timer goes on probing.
LEMMA ProbeTimerFacts ==
    ASSUME NEW a \in ArpState, NetworkForgotten(a),
           a.wake \subseteq {"COLLISION"}, a.fd = "basic",
           NEW b \in {Arm(a, "COLLISION"), Disarm(a, "COLLISION")}
    PROVE  /\ b \in ArpState /\ NetworkForgotten(b) /\ b.fd = "basic"
           /\ b.wake \subseteq {"COLLISION"} /\ b.offered = a.offered
<1>1. "COLLISION" \in Timers
  BY DEF Timers
<1>2. b \in ArpState
  BY <1>1, ArmFacts, DisarmFacts
<1> QED
  BY <1>1, <1>2 DEF Arm, Disarm, ArpState, NetworkForgotten

\* A reply to the probe.
LEMMA CollisionReplyKeeps ==
    ASSUME IInv, CollisionReply
    PROVE  IInv'
<1>1. OutsideType' /\ UNCHANGED host /\ line = "COLLISION"
  BY DEF CollisionReply, IInv, TypeOK, OutsideType, At
<1>2. CASE Reinit
  BY <1>2, ReinitKeeps DEF CollisionReply
<1>3. CASE /\ arp' = Disarm(arp, "COLLISION")
           /\ Return(line) /\ UNCHANGED cs
  <2>1. line' = "COLLISION" /\ ControlOK'
    BY <1>1, <1>3, ReturnFacts DEF Lines
  <2> QED
    BY <1>1, <1>3, <2>1, ProbingFacts, ProbeTimerFacts, StaysProbing
<1>4. CASE Done("arp") /\ UNCHANGED <<cs, arp>>
  <2>1. line' = line /\ ControlOK'
    BY <1>4, DoneFacts
  <2> QED BY <1>1, <1>4, <2>1, ClientUntouched
<1> QED BY <1>2, <1>3, <1>4 DEF CollisionReply

\* The probe is not over yet.
LEMMA CollisionWaitKeeps ==
    ASSUME IInv, CollisionWait
    PROVE  IInv'
<1>1. OutsideType' /\ UNCHANGED <<cs, host>> /\ line = "COLLISION"
  BY DEF CollisionWait, IInv, TypeOK, OutsideType, At
<1>2. CASE arp' = Arm(arp, "COLLISION") /\ Done("arptimer")
  <2>1. line' = "COLLISION" /\ ControlOK'
    BY <1>1, <1>2, DoneFacts
  <2> QED
    BY <1>1, <1>2, <2>1, ProbingFacts, ProbeTimerFacts, StaysProbing
<1>3. CASE Return(line) /\ UNCHANGED arp
  <2>1. line' = line /\ ControlOK'
    BY <1>1, <1>3, ReturnFacts DEF Lines
  <2> QED BY <1>1, <1>3, <2>1, ClientUntouched
<1> QED BY <1>2, <1>3, ZenonT(60) DEF CollisionWait

\* Binding leaves the interface with the new address, whether or not it had to
\* be sent to ifch, or bare after a refused deconfiguration.
LEMMA BindSetsAddress ==
    ASSUME IInv, NEW l \in Leases
    PROVE  /\ SetAddress(l) \in HostState
           /\ SetAddress(l).iface = IF SetAddress(l).refused THEN NoAddr
                                    ELSE l.yiaddr
           /\ SetAddress(l).refused => SetAddress(l) = host
<1>1. host \in HostState /\ l.yiaddr \in Addrs
  BY DEF IInv, TypeOK, Leases
<1>2. CASE "ip4" \in ChangedItems(l)
  <2> DEFINE h == [host EXCEPT !.iface = l.yiaddr, !.refused = FALSE]
  <2>1. h \in HostState /\ h.iface = l.yiaddr /\ ~h.refused
    BY <1>1, ZenonT(60) DEF HostState
  <2>2. SetAddress(l) = h
    BY <1>2 DEF SetAddress
  <2> HIDE DEF h
  <2> QED BY <2>1, <2>2
<1>3. CASE "ip4" \notin ChangedItems(l)
  <2>1. l.yiaddr = host.cfg.yiaddr
    BY <1>3 DEF ChangedItems
  <2>2. host.cfg # NoLease
    BY <1>1, <2>1, ConstantsAssumption DEF NoLease
  <2>3. host.iface = IF host.refused THEN NoAddr ELSE l.yiaddr
    BY <2>1, <2>2 DEF IInv, Configured
  <2>4. SetAddress(l) = host
    BY <1>3 DEF SetAddress
  <2> QED BY <1>1, <2>3, <2>4
<1> QED BY <1>2, <1>3

\* The ARP state right after binding: the gateway is queried and the address
\* announced, or both are scheduled.
LEMMA BindArpFacts ==
    ASSUME NEW a \in ArpState, NetworkForgotten(a), a.fd = "basic",
           NEW router \in Hosts \cup {NoAddr},
           NEW k \in 0 .. PingsToSend(router), NEW ok \in BOOLEAN
    PROVE  LET c == [Disarm(a, "COLLISION") EXCEPT !.conflict = FALSE]
               b == arp_announce(arp_query_gateway(c, router, k), ok)
           IN  b \in ArpState /\ b.fd = "basic" /\ WorkScheduled(b)
<1> DEFINE d == Disarm(a, "COLLISION")
           c == [d EXCEPT !.conflict = FALSE]
           q == arp_query_gateway(c, router, k)
           b == arp_announce(q, ok)
<1>1. d \in ArpState /\ ~d.sent_gw_query /\ d.fd = "basic"
  BY DisarmFacts DEF Timers, SameProgress, SameSocket, NetworkForgotten
<1> HIDE DEF d
<1>2. c \in ArpState /\ ~c.sent_gw_query
  BY <1>1, ZenonT(60) DEF ArpState
<1> HIDE DEF c
<1>3. /\ q \in ArpState /\ q.fd = "basic"
      /\ ~q.sent_gw_query => "QUERY_SEND" \in q.wake
      /\ q.sent_gw_query => "GW_QUERY" \in q.wake
  BY <1>2, PingBoundHolds, QueryGatewayFacts
<1> HIDE DEF q
<1>4. /\ b \in ArpState /\ SameSocket(q, b)
      /\ b.sent_gw_query = q.sent_gw_query
      /\ b.wake \ {"ANNOUNCE"} = q.wake \ {"ANNOUNCE"}
      /\ b.announced < 2 => "ANNOUNCE" \in b.wake
  BY <1>3, AnnounceFacts
<1> HIDE DEF b
<1>5. b \in ArpState /\ b.fd = "basic" /\ WorkScheduled(b)
  BY <1>3, <1>4 DEF WorkScheduled, SameSocket
<1> QED BY <1>5 DEF b, q, c, d

\* No conflict was seen: the address is bound, or ndhc ends.
LEMMA CollisionFreeKeeps ==
    ASSUME IInv, CollisionFree
    PROVE  IInv'
<1> DEFINE l == arp.offered
           d == [cs EXCEPT !.clientAddr = l.yiaddr, !.program_init = FALSE,
                           !.ifDeconfig = FALSE]
           c == [d EXCEPT !.routerAddr = l.router, !.listen = FALSE]
           x == [c EXCEPT !.exit = "quit"]
           g == SetAddress(l)
           h == [g EXCEPT !.cfg = l, !.leasefile = write_leasefile(l.yiaddr)]
           a == [Disarm(arp, "COLLISION") EXCEPT !.conflict = FALSE]
<1>1. OutsideType' /\ line = "COLLISION"
  BY DEF CollisionFree, IInv, TypeOK, OutsideType, At
<1>2. /\ cs \in ClientState /\ cs.wake /\ arp \in ArpState
      /\ NetworkForgotten(arp) /\ arp.fd = "basic"
      /\ l \in Leases /\ l.yiaddr = cs.clientAddr
  BY <1>1, ProbingFacts
<1>3. l.yiaddr \in Addrs /\ l.router \in Hosts \cup {NoAddr}
      /\ l = [yiaddr |-> l.yiaddr, router |-> l.router]
  BY <1>2 DEF Leases
<1>4. /\ h \in HostState
      /\ h.iface = (IF h.refused THEN NoAddr ELSE l.yiaddr) /\ h.cfg = l
      /\ l.yiaddr \in LongAddrs \/ h.leasefile = l.yiaddr
  <2>1. write_leasefile(l.yiaddr) \in Addrs \cup {NoAddr}
    BY <1>3 DEF write_leasefile, IInv, TypeOK, HostState
  <2>2. l.yiaddr \in LongAddrs \/ write_leasefile(l.yiaddr) = l.yiaddr
    BY DEF write_leasefile
  <2>3. g \in HostState /\ g.iface = IF g.refused THEN NoAddr ELSE l.yiaddr
    BY <1>2, BindSetsAddress
  <2> HIDE DEF g, l
  <2>4. /\ h \in HostState /\ h.iface = g.iface /\ h.refused = g.refused
        /\ h.cfg = l /\ h.leasefile = write_leasefile(l.yiaddr)
    BY <1>2, <2>1, <2>3, ZenonT(60) DEF HostState
  <2> QED BY <2>2, <2>3, <2>4
<1>5. l # NoLease
  BY <1>3, ConstantsAssumption DEF NoLease
<1>6. /\ c \in ClientState /\ c.wake /\ c.clientAddr = l.yiaddr
      /\ c.routerAddr = l.router /\ ~c.ifDeconfig
  <2> HIDE DEF l
  <2>1. d \in ClientState /\ d.wake /\ d.clientAddr = l.yiaddr
        /\ ~d.ifDeconfig
    BY <1>2, <1>3, ZenonT(60) DEF ClientState
  <2> HIDE DEF d
  <2> QED BY <1>3, <2>1, ZenonT(60) DEF ClientState
<1>7. x \in ClientState /\ x.clientAddr = cs.clientAddr
  <2> HIDE DEF c, l
  <2> QED BY <1>2, <1>6, ZenonT(60) DEF ClientState
<1>8. c = [cs EXCEPT !.clientAddr = l.yiaddr, !.program_init = FALSE,
                     !.ifDeconfig = FALSE, !.routerAddr = l.router,
                     !.listen = FALSE]
  OBVIOUS
<1>9. \/ Exit("bind") /\ UNCHANGED <<arp, host>>
      \/ host' = h /\ cs' = x /\ Return("EXITED") /\ UNCHANGED arp
      \/ /\ host' = h /\ cs' = c /\ Return("BOUND")
         /\ \E k \in SentOf(PingsToSend(l.router)), ok \in Sent :
              arp' = arp_announce(arp_query_gateway(a, l.router, k), ok)
  BY <1>8, ZenonT(60) DEF CollisionFree
<1>10. CASE Exit("bind") /\ UNCHANGED <<arp, host>>
  BY <1>1, <1>10, ExitKeeps
<1>11. CASE host' = h /\ cs' = x /\ Return("EXITED") /\ UNCHANGED arp
  <2>1. line' = "EXITED" /\ ControlOK'
    BY <1>11, ReturnFacts DEF Lines
  <2> HIDE DEF x, h, l
  <2> QED
    BY <1>1, <1>2, <1>4, <1>7, <1>11, <2>1, LandsInExited
<1>12. CASE /\ host' = h /\ cs' = c /\ Return("BOUND")
            /\ \E k \in SentOf(PingsToSend(l.router)), ok \in Sent :
                 arp' = arp_announce(arp_query_gateway(a, l.router, k), ok)
  <2>1. line' = "BOUND" /\ ControlOK'
    BY <1>12, ReturnFacts DEF Lines
  <2>2. arp' \in ArpState /\ arp'.fd = "basic" /\ WorkScheduled(arp')
    <3>1. PICK k \in SentOf(PingsToSend(l.router)), ok \in Sent :
            arp' = arp_announce(arp_query_gateway(a, l.router, k), ok)
      BY <1>12
    <3>2. k \in 0 .. PingsToSend(l.router) /\ ok \in BOOLEAN
      BY SentFacts DEF PingsToSend
    <3> QED BY <1>2, <1>3, <3>1, <3>2, BindArpFacts
  <2> HIDE DEF c, h, l
  <2>3. host'.cfg = [yiaddr |-> cs'.clientAddr, router |-> cs'.routerAddr]
    BY <1>3, <1>4, <1>6, <1>12
  <2> QED
    BY <1>1, <1>2, <1>4, <1>5, <1>6, <1>12, <2>1, <2>2, <2>3
       DEF IInv, TypeOK, Fresh, Probed, Configured, Awake, Scheduled,
           SocketMatchesLease, ControlOK, OutsideType
<1> QED BY <1>9, <1>10, <1>11, <1>12, ZenonT(60)

-----------------------------------------------------------------------------
(* BOUND, RENEWING and REBINDING *)

\* A step in BOUND that changes the ARP state only.
LEMMA ArpStepKeeps ==
    ASSUME IInv, line = "BOUND", line' = "BOUND", ControlOK', OutsideType',
           UNCHANGED <<cs, host>>, arp' \in ArpState, WorkScheduled(arp'),
           arp'.fd = "defense" => arp'.filter = cs.clientAddr
    PROVE  IInv'
BY BoundFacts, StaysBound

\* A step in BOUND that changes at most flags of client_state_t.
LEMMA FlagStepKeeps ==
    ASSUME IInv, line = "BOUND", line' = "BOUND", ControlOK', OutsideType',
           UNCHANGED <<arp, host>>,
           \/ cs' = [cs EXCEPT !.listen = TRUE]
           \/ cs' = [cs EXCEPT !.wake = TRUE]
           \/ \E ok \in BOOLEAN :
                cs' = [cs EXCEPT !.listen = TRUE, !.wake = @ \/ ok]
    PROVE  IInv'
<1>1. cs \in ClientState /\ cs.wake
  BY BoundFacts, ZenonT(60)
<1> DEFINE Kept(c) ==
             /\ c \in ClientState /\ c.wake /\ c.clientAddr = cs.clientAddr
             /\ c.routerAddr = cs.routerAddr /\ c.ifDeconfig = cs.ifDeconfig
<1>2. Kept([cs EXCEPT !.listen = TRUE])
  BY <1>1, ZenonT(60) DEF ClientState
<1>3. Kept([cs EXCEPT !.wake = TRUE])
  BY <1>1, ZenonT(60) DEF ClientState
<1>4. \A ok \in BOOLEAN : Kept([cs EXCEPT !.listen = TRUE, !.wake = @ \/ ok])
  <2> SUFFICES ASSUME NEW ok \in BOOLEAN
               PROVE  Kept([cs EXCEPT !.listen = TRUE, !.wake = @ \/ ok])
    BY ZenonT(60)
  <2> DEFINE w == cs.wake \/ ok
  <2>1. w = TRUE
    BY <1>1
  <2> HIDE DEF w
  <2>2. Kept([cs EXCEPT !.listen = TRUE, !.wake = w])
    BY <1>1, <2>1, ZenonT(60) DEF ClientState
  <2> QED BY <2>2, ZenonT(60) DEF w
<1>5. Kept(cs')
  <2> HIDE DEF Kept
  <2> QED BY <1>2, <1>3, <1>4, ZenonT(60)
<1> QED
  BY <1>5, BoundFacts, StaysBound, ZenonT(60)

\* SIGUSR1 or SIGUSR2 with a lease.
LEMMA BoundSignalKeeps ==
    ASSUME IInv, BoundSignal
    PROVE  IInv'
<1>1. OutsideType' /\ UNCHANGED host /\ line = "BOUND"
  BY DEF BoundSignal, IInv, TypeOK, OutsideType, At
<1>2. CASE Sleep
  BY <1>2, LandsInReleased DEF BoundSignal
<1>3. CASE Return(line) /\ UNCHANGED <<cs, arp>>
  <2>1. line' = line /\ ControlOK'
    BY <1>1, <1>3, ReturnFacts DEF Lines
  <2> QED BY <1>1, <1>3, <2>1, ClientUntouched
<1>4. CASE /\ cs' = [cs EXCEPT !.listen = TRUE] /\ UNCHANGED arp
           /\ Done("signal") \/ Return(line)
  <2>1. line' = line /\ ControlOK'
    BY <1>1, <1>4, ReturnFacts, DoneFacts DEF Lines
  <2> QED BY <1>1, <1>4, <2>1, FlagStepKeeps
<1> QED BY <1>2, <1>3, <1>4 DEF BoundSignal

\* An ACK for another address, received in BOUND, starts a probe.
LEMMA ProbeInBoundFacts ==
    ASSUME NEW a \in ArpState, NEW l \in Leases, WorkScheduled(a)
    PROVE  /\ WorkScheduled(arp_check(a, l, TRUE))
           /\ arp_check(a, l, TRUE).fd = "basic"
<1> DEFINE o == arp_open_fd(a, "basic", NoAddr)
           b == [o EXCEPT !.offered = l]
<1>1. o \in ArpState /\ WorkScheduled(o) /\ o.fd = "basic"
  BY OpenFacts DEF WorkScheduled, SameProgress, Fingerprinted
<1> HIDE DEF o
<1>2. b \in ArpState /\ WorkScheduled(b) /\ b.fd = "basic"
  BY <1>1 DEF ArpState, WorkScheduled, Fingerprinted
<1> HIDE DEF b
<1>3. WorkScheduled(Arm(b, "COLLISION")) /\ Arm(b, "COLLISION").fd = "basic"
  BY <1>2, ArmFacts DEF Timers, WorkScheduled, SameProgress, SameSocket,
                        Fingerprinted
<1> QED BY <1>3 DEF arp_check, o, b

\* A reply of the server in BOUND.
LEMMA ExtendPacketKeeps ==
    ASSUME IInv, extend_packet
    PROVE  IInv'
<1> DEFINE p == ev.pkt
           c == get_leasetime(cs)
           a(ok) == arp_check(arp, LeaseOf(p), ok)
<1>1. /\ OutsideType' /\ UNCHANGED host /\ line = "BOUND" /\ link.net \in Nets
  BY DEF extend_packet, IInv, TypeOK, OutsideType, At
<1>2. /\ cs \in ClientState /\ arp \in ArpState /\ WorkScheduled(arp)
      /\ cs.clientAddr \in Addrs
      /\ arp.fd = "defense" => arp.filter = cs.clientAddr
  BY <1>1, BoundFacts
<1>3. LeaseOf(p) \in Leases
  <2>1. p \in Packets
    BY EventFacts DEF extend_packet, At, IInv, TypeOK, EventMatches
  <2> QED BY <2>1, PacketFacts
<1>4. /\ c \in ClientState /\ c.wake /\ c.clientAddr = cs.clientAddr
      /\ c.routerAddr = cs.routerAddr /\ c.ifDeconfig = cs.ifDeconfig
  BY <1>1, <1>2, LeasetimeFacts
<1>5. a(TRUE) \in ArpState /\ a(FALSE) \in ArpState
  BY <1>2, <1>3, CheckFacts, ZenonT(60)
<1>6. CASE /\ cs' = [c EXCEPT !.listen = FALSE]
           /\ arp' = arp_open_fd(arp, "defense", cs.clientAddr)
           /\ Done("dhcp")
  <2>1. line' = "BOUND" /\ ControlOK'
    BY <1>1, <1>6, DoneFacts
  <2>2. arp' \in ArpState /\ WorkScheduled(arp')
        /\ (arp'.fd = "defense" => arp'.filter = cs.clientAddr)
    BY <1>2, <1>6, OpenFacts DEF WorkScheduled, SameProgress, Fingerprinted
  <2> HIDE DEF c
  <2>3. /\ cs' \in ClientState /\ cs'.wake /\ cs'.clientAddr = cs.clientAddr
        /\ cs'.routerAddr = cs.routerAddr /\ cs'.ifDeconfig = cs.ifDeconfig
    BY <1>4, <1>6, ZenonT(60) DEF ClientState
  <2> QED BY <1>1, <2>1, <2>2, <2>3, StaysBound
<1>7. CASE cs' = c /\ arp' = a(TRUE) /\ Done("dhcp")
  <2>1. line' = "BOUND" /\ ControlOK'
    BY <1>1, <1>7, DoneFacts
  <2>2. WorkScheduled(arp') /\ arp'.fd = "basic"
    BY <1>2, <1>3, <1>7, ProbeInBoundFacts, ZenonT(60)
  <2> HIDE DEF a, c
  <2> QED BY <1>1, <1>4, <1>5, <1>7, <2>1, <2>2, StaysBound, ZenonT(60)
<1>8. CASE /\ cs' = reinit_selecting(c) /\ arp' = ForgetNetwork(a(FALSE))
           /\ GotoReinit
  <2>1. line' = "SELECTING" /\ ControlOK'
    BY <1>8, GoFacts DEF GotoReinit, ControlOK, IInv, Lines
  <2>2. cs' \in ClientState /\ cs'.wake
    BY <1>4, <1>8, ForgetLeaseFacts
  <2> HIDE DEF a, c
  <2> QED
    BY <1>1, <1>5, <1>8, <2>1, <2>2, LandsInSelecting, ZenonT(60)
       DEF IInv, TypeOK
<1>9. CASE Reinit
  BY <1>9, ReinitKeeps DEF extend_packet
<1>10. CASE Done("dhcp") /\ UNCHANGED <<cs, arp>>
  <2>1. line' = line /\ ControlOK'
    BY <1>10, DoneFacts
  <2> QED BY <1>1, <1>10, <2>1, ClientUntouched
<1>11. \/ /\ cs' = [c EXCEPT !.listen = FALSE]
          /\ arp' = arp_open_fd(arp, "defense", cs.clientAddr)
          /\ Done("dhcp")
       \/ cs' = c /\ arp' = a(TRUE) /\ Done("dhcp")
       \/ /\ cs' = reinit_selecting(c) /\ arp' = ForgetNetwork(a(FALSE))
          /\ GotoReinit
       \/ Reinit
       \/ Done("dhcp") /\ UNCHANGED <<cs, arp>>
  BY SentFacts, ZenonT(60) DEF extend_packet
<1> QED BY <1>6, <1>7, <1>8, <1>9, <1>10, <1>11, ZenonT(60)

\* Changing the DEFENSE timer and the conflict time leaves the other work be.
LEMMA DefenseFacts ==
    ASSUME NEW a \in ArpState, WorkScheduled(a),
           NEW d \in {Disarm(a, "DEFENSE"),
                      Arm(Disarm(a, "DEFENSE"), "DEFENSE")}
    PROVE  /\ d \in ArpState /\ WorkScheduled(d) /\ SameSocket(a, d)
           /\ LET b == [d EXCEPT !.conflict = TRUE]
              IN  b \in ArpState /\ WorkScheduled(b) /\ SameSocket(a, b)
<1>1. "DEFENSE" \in Timers
  BY DEF Timers
<1> DEFINE c == Disarm(a, "DEFENSE")
<1>2. c \in ArpState /\ WorkScheduled(c) /\ SameSocket(a, c)
  BY <1>1, DisarmFacts DEF WorkScheduled, SameProgress, Fingerprinted
<1> HIDE DEF c
<1>3. LET e == Arm(c, "DEFENSE")
      IN  e \in ArpState /\ WorkScheduled(e) /\ SameSocket(a, e)
  BY <1>1, <1>2, ArmFacts
     DEF WorkScheduled, SameProgress, SameSocket, Fingerprinted
<1>4. d \in ArpState /\ WorkScheduled(d) /\ SameSocket(a, d)
  BY <1>2, <1>3 DEF c
<1> DEFINE b == [d EXCEPT !.conflict = TRUE]
<1>5. b \in ArpState
  BY <1>4, UpdateFlagType, ZenonT(60)
<1>6. /\ b.fd = d.fd /\ b.filter = d.filter /\ b.wake = d.wake
      /\ SameProgress(d, b)
  BY <1>4 DEF ArpState, SameProgress
<1> HIDE DEF b
<1>7. WorkScheduled(b) /\ SameSocket(a, b)
  BY <1>4, <1>6 DEF WorkScheduled, SameSocket, SameProgress, Fingerprinted
<1> QED BY <1>4, <1>5, <1>7 DEF b

\* Another host uses our address.
LEMMA DefenseKeeps ==
    ASSUME IInv, arp_do_defense
    PROVE  IInv'
<1> DEFINE a == Disarm(arp, "DEFENSE")
<1>1. OutsideType' /\ UNCHANGED host /\ line = "BOUND"
  BY DEF arp_do_defense, IInv, TypeOK, OutsideType, At
<1>2. CASE Reinit
  BY <1>2, ReinitKeeps DEF arp_do_defense
<1>3. CASE /\ \/ arp' = [a EXCEPT !.conflict = TRUE] /\ Done("arp")
              \/ arp' = a /\ Return(line)
              \/ /\ arp' = [Arm(a, "DEFENSE") EXCEPT !.conflict = TRUE]
                 /\ Done("arp")
           /\ UNCHANGED cs
  <2>1. line' = line /\ ControlOK'
    BY <1>1, <1>3, ReturnFacts, DoneFacts DEF Lines
  <2>2. arp' \in ArpState /\ WorkScheduled(arp') /\ SameSocket(arp, arp')
    BY <1>1, <1>3, BoundFacts, DefenseFacts, ZenonT(60)
  <2> QED
    BY <1>1, <1>3, <2>1, <2>2, BoundFacts, ArpStepKeeps DEF SameSocket
<1> QED BY <1>2, <1>3 DEF arp_do_defense

\* The message of an ARP event, from a host that is no client.
LEMMA ArpEventFacts ==
    ASSUME IInv, "arp" \in todo
    PROVE  /\ ev.msg \in ArpMsg
           /\ \A h \in Hosts \cup {NoAddr} : ev.msg.sip = h => ev.msg.smac \in Nets
<1>1. ev \in Events /\ ev.kind = "arp"
  BY DEF IInv, TypeOK, EventMatches
<1>2. ev.msg \in ArpMsg
  BY <1>1, EventFacts
<1>3. ev.msg.sip # NoAddr
  BY <1>2, ConstantsAssumption DEF ArpMsg
<1> QED BY <1>1, <1>2, <1>3 DEF IInv, EventMatches

\* A reply to the query of the gateway.
LEMMA GwQueryReplyKeeps ==
    ASSUME IInv, GwQueryReply
    PROVE  IInv'
<1>1. /\ OutsideType' /\ UNCHANGED <<cs, host>> /\ line = "BOUND"
      /\ "arp" \in todo
  BY DEF GwQueryReply, IInv, TypeOK, OutsideType, At
<1>2. line' = line /\ ControlOK'
  BY DoneFacts DEF GwQueryReply
<1>3. ev.msg.sip \in {cs.routerAddr, cs.srcAddr} => ev.msg.smac \in Nets
  BY <1>1, ArpEventFacts, BoundFacts
<1>4. /\ arp' \in ArpState /\ WorkScheduled(arp')
      /\ arp'.fd = "defense" => arp'.filter = cs.clientAddr
  <2>1. /\ arp \in ArpState /\ cs.routerAddr \in Hosts \cup {NoAddr}
        /\ cs.srcAddr \in Hosts \cup {NoAddr} /\ cs.clientAddr \in Addrs
        /\ WorkScheduled(arp)
        /\ arp.fd = "defense" => arp.filter = cs.clientAddr
    BY <1>1, BoundFacts
  <2>2. PICK m : m = ev.msg
    OBVIOUS
  <2>3. PICK r \in Hosts \cup {NoAddr} : r = cs.routerAddr
    BY <2>1
  <2>4. PICK s \in Hosts \cup {NoAddr} : s = cs.srcAddr
    BY <2>1
  <2>5. PICK d \in Addrs : d = cs.clientAddr
    BY <2>1
  <2>6. m.sip \in {r, s} => m.smac \in Nets
    BY <1>3, <2>2, <2>3, <2>4
  <2>7. arp' = arp_do_gw_query(arp, m, r, s, d)
    BY <2>2, <2>3, <2>4, <2>5 DEF GwQueryReply
  <2>8. arp \in ArpState /\ WorkScheduled(arp)
    BY <2>1
  <2>9. LET b == arp_do_gw_query(arp, m, r, s, d)
        IN  /\ b \in ArpState /\ WorkScheduled(b)
            /\ b.fd = "defense" =>
                 b.filter = IF arp.fd = "defense" THEN arp.filter ELSE d
    BY <2>6, <2>8, DoGwQueryFacts, ZenonT(60)
  <2> QED BY <2>1, <2>5, <2>7, <2>9
<1> QED BY <1>1, <1>2, <1>4, ArpStepKeeps

\* A reply to the check of the gateway.
LEMMA GwCheckReplyKeeps ==
    ASSUME IInv, arp_do_gw_check
    PROVE  IInv'
<1> DEFINE a == GwReplied(arp, ev.msg, cs.routerAddr, cs.srcAddr)
<1>1. /\ OutsideType' /\ UNCHANGED host /\ line = "BOUND"
  BY DEF arp_do_gw_check, IInv, TypeOK, OutsideType, At
<1>2. a \in ArpState /\ WorkScheduled(a) /\ SameSocket(arp, a)
  <2>1. arp \in ArpState /\ WorkScheduled(arp)
    BY <1>1, BoundFacts, ZenonT(60)
  <2>2. /\ a \in ArpState /\ SameProgress(arp, a) /\ SameSocket(arp, a)
        /\ a.wake = arp.wake
    BY <2>1, GwRepliedFacts
  <2> HIDE DEF a
  <2>3. WorkScheduled(a)
    BY <2>1, <2>2 DEF WorkScheduled, SameProgress, Fingerprinted
  <2> QED BY <2>2, <2>3
<1>3. CASE Done("arp") /\ UNCHANGED <<cs, arp>>
  <2>1. line' = line /\ ControlOK'
    BY <1>3, DoneFacts
  <2> QED BY <1>1, <1>3, <2>1, ClientUntouched
<1>4. CASE Reinit
  BY <1>4, ReinitKeeps, ZenonT(60) DEF arp_do_gw_check
<1>5. CASE arp' = a /\ Done("arp") /\ UNCHANGED cs
  <2>1. line' = line /\ ControlOK'
    BY <1>5, DoneFacts
  <2> QED
    BY <1>1, <1>2, <1>5, <2>1, BoundFacts, ArpStepKeeps DEF SameSocket
<1>6. CASE /\ \E ok \in Sent : /\ arp' = arp_gw_success(a, cs.clientAddr, ok)
                               /\ IF ok THEN Done("arp") ELSE Return(line)
           /\ UNCHANGED cs
  <2>1. line' = line /\ ControlOK'
    BY <1>1, <1>6, ReturnFacts, DoneFacts DEF Lines
  <2> HIDE DEF a
  <2>2. arp' \in ArpState /\ WorkScheduled(arp') /\ arp'.filter = cs.clientAddr
    BY <1>1, <1>2, <1>6, BoundFacts, SentFacts, GwSuccessFacts DEF SameSocket
  <2> QED
    BY <1>1, <1>6, <2>1, <2>2, ArpStepKeeps
<1>7. \/ Done("arp") /\ UNCHANGED <<cs, arp>>
      \/ Reinit
      \/ arp' = a /\ Done("arp") /\ UNCHANGED cs
      \/ /\ \E ok \in Sent : /\ arp' = arp_gw_success(a, cs.clientAddr, ok)
                             /\ IF ok THEN Done("arp") ELSE Return(line)
         /\ UNCHANGED cs
  BY DEF arp_do_gw_check
<1> QED BY <1>3, <1>4, <1>5, <1>6, <1>7, SMTT(30)

\* The announcement's or the defense's timer.
LEMMA AnnounceTimeoutKeeps ==
    ASSUME IInv, AnnounceTimeout
    PROVE  IInv'
<1>1. /\ OutsideType' /\ UNCHANGED <<cs, host>> /\ line = "BOUND"
  BY DEF AnnounceTimeout, IInv, TypeOK, OutsideType, At
<1>2. line' = line /\ ControlOK'
  <2>1. (todo \ {"arptimer"}) \cup {"gwtimer"}
          \in SUBSET (todo \cup {"gwtimer", "dhcptimer"})
    OBVIOUS
  <2> QED
    BY <1>1, <2>1, GoFacts DEF AnnounceTimeout, ControlOK, IInv, Lines
<1>3. arp' \in ArpState /\ WorkScheduled(arp') /\ SameSocket(arp, arp')
  BY <1>1, BoundFacts, SentFacts, AnnounceTimeoutFacts DEF AnnounceTimeout
<1> QED
  BY <1>1, <1>2, <1>3, BoundFacts, ArpStepKeeps DEF SameSocket

\* The timers of the query of the gateway.
LEMMA GwQueryTimeoutKeeps ==
    ASSUME IInv, GwQueryTimeout
    PROVE  IInv'
<1>1. /\ OutsideType' /\ UNCHANGED <<cs, host>> /\ line = "BOUND"
  BY DEF GwQueryTimeout, IInv, TypeOK, OutsideType, At
<1>2. line' = line /\ ControlOK'
  BY <1>1, ReturnFacts, DoneFacts DEF GwQueryTimeout, Lines
<1>3. /\ cs.routerAddr \in Hosts \cup {NoAddr} /\ arp \in ArpState
      /\ WorkScheduled(arp)
      /\ arp.fd = "defense" => arp.filter = cs.clientAddr
  BY <1>1, BoundFacts
<1>4. CASE ~arp.sent_gw_query
           /\ \E k \in SentOf(PingsToSend(cs.routerAddr)) :
                arp' = arp_query_gateway(arp, cs.routerAddr, k)
  <2>1. PICK k \in SentOf(PingsToSend(cs.routerAddr)) :
               arp' = arp_query_gateway(arp, cs.routerAddr, k)
    BY <1>4
  <2>2. k \in 0 .. PingsToSend(cs.routerAddr)
    BY SentFacts DEF PingsToSend
  <2>3. /\ arp' \in ArpState /\ arp'.fd = "basic"
        /\ arp'.announced = arp.announced
        /\ arp.wake \ {"QUERY_SEND"} \subseteq arp'.wake
        /\ ~arp'.sent_gw_query => "QUERY_SEND" \in arp'.wake
        /\ arp'.sent_gw_query => "GW_QUERY" \in arp'.wake
    BY <1>3, <1>4, <2>1, <2>2, PingBoundHolds, QueryGatewayFacts
  <2>4. WorkScheduled(arp')
    BY <1>3, <2>3 DEF WorkScheduled
  <2> QED BY <1>1, <1>2, <2>3, <2>4, ArpStepKeeps
<1>5. CASE UNCHANGED arp
  BY <1>1, <1>2, <1>5, ClientUntouched
<1>6. CASE \E late \in BOOLEAN, k \in SentOf(QueryMissing(arp)) :
             arp' = arp_gw_query_timeout(arp, late, k)
  <2>1. \A k \in SentOf(QueryMissing(arp)) : k \in Nat
    <3>1. QueryMissing(arp) \in Nat
      BY DEF QueryMissing
    <3> QED BY <3>1, SentFacts
  <2>2. arp' \in ArpState /\ WorkScheduled(arp') /\ SameSocket(arp, arp')
    BY <1>3, <1>6, <2>1, PingBoundHolds, GwQueryTimeoutFacts
  <2> QED BY <1>1, <1>2, <1>3, <2>2, ArpStepKeeps DEF SameSocket
<1> QED BY <1>4, <1>5, <1>6 DEF GwQueryTimeout

\* The timer of the check of the gateway.
LEMMA GwCheckTimeoutKeeps ==
    ASSUME IInv, GwCheckTimeout
    PROVE  IInv'
<1>1. OutsideType' /\ UNCHANGED host /\ line = "BOUND"
  BY DEF GwCheckTimeout, IInv, TypeOK, OutsideType, At
<1>2. CASE Done("gwtimer") /\ UNCHANGED <<cs, arp>>
  <2>1. line' = line /\ ControlOK'
    BY <1>2, DoneFacts
  <2> QED BY <1>1, <1>2, <2>1, ClientUntouched
<1>3. CASE Reinit
  BY <1>3, ReinitKeeps DEF GwCheckTimeout
<1>4. CASE \E late \in BOOLEAN, k \in SentOf(CheckMissing(arp)) :
              /\ arp' = arp_gw_check_timeout(arp, late, k)
              /\ IF late /\ k < CheckMissing(arp)
                 THEN Return(line) ELSE Done("gwtimer")
              /\ UNCHANGED cs
  <2>1. line' = line /\ ControlOK' /\ UNCHANGED cs
    BY <1>1, <1>4, ReturnFacts, DoneFacts DEF Lines
  <2>2. \A k \in SentOf(CheckMissing(arp)) : k \in Nat
    <3>1. CheckMissing(arp) \in Nat
      BY DEF CheckMissing
    <3> QED BY <3>1, SentFacts
  <2>3. arp' \in ArpState /\ WorkScheduled(arp') /\ SameSocket(arp, arp')
    BY <1>1, <1>4, <2>2, BoundFacts, PingBoundHolds, GwCheckTimeoutFacts
  <2> QED
    BY <1>1, <2>1, <2>3, BoundFacts, ArpStepKeeps DEF SameSocket
<1> QED BY <1>2, <1>3, <1>4 DEF GwCheckTimeout

\* The carrier came back.
LEMMA IfupKeeps ==
    ASSUME IInv, ifup_action
    PROVE  IInv'
<1>1. OutsideType' /\ UNCHANGED host /\ line = "BOUND"
  BY DEF ifup_action, IInv, TypeOK, OutsideType, At
<1>2. CASE Exit("fingerprint") /\ UNCHANGED arp
  BY <1>1, <1>2, ExitKeeps
<1>3. CASE \E k \in SentOf(PingsToSend(cs.routerAddr)) :
              /\ arp' = arp_gw_check(arp, cs.routerAddr, k)
              /\ IF k = PingsToSend(cs.routerAddr)
                 THEN Done("ifup") ELSE Return(line)
              /\ UNCHANGED cs
  <2>1. line' = line /\ ControlOK' /\ UNCHANGED cs
    BY <1>1, <1>3, ReturnFacts, DoneFacts DEF Lines
  <2>2. \A k \in SentOf(PingsToSend(cs.routerAddr)) :
          k \in 0 .. PingsToSend(cs.routerAddr)
    BY SentFacts DEF PingsToSend
  <2>3. arp' \in ArpState /\ WorkScheduled(arp') /\ arp'.fd = "basic"
    BY <1>1, <1>3, <2>2, BoundFacts, PingBoundHolds, GwCheckFacts
  <2> QED BY <1>1, <2>1, <2>3, ArpStepKeeps
<1> QED BY <1>2, <1>3 DEF ifup_action

\* The interface is deconfigured, or that fails.
LEMMA DeconfigKeeps ==
    ASSUME IInv, ifchange_deconfig
    PROVE  IInv'
<1> DEFINE r == reinit_selecting(cs)
<1>1. OutsideType' /\ line = "BOUND"
  BY DEF ifchange_deconfig, IInv, TypeOK, OutsideType, At
<1>2. cs \in ClientState /\ arp \in ArpState
  BY DEF IInv, TypeOK
<1>3. CASE /\ cs' = [r EXCEPT !.ifDeconfig = TRUE]
           /\ arp' = ForgetNetwork(arp)
           /\ host' \in {host, [host EXCEPT !.iface = NoAddr, !.cfg = NoLease,
                                           !.refused = FALSE]}
           /\ GotoReinit
  <2>1. line' = "SELECTING" /\ ControlOK'
    BY <1>3, GoFacts DEF GotoReinit, ControlOK, IInv, Lines
  <2>2. r \in ClientState /\ r.wake
    BY <1>2, ForgetLeaseFacts
  <2> HIDE DEF r
  <2>3. cs' \in ClientState /\ cs'.wake
    BY <1>3, <2>2, ZenonT(60) DEF ClientState
  <2>4. /\ host'.cfg \in {host.cfg, NoLease}
        /\ host'.cfg = host.cfg => host' = host
        /\ host' \in HostState
    BY <1>1, <1>3, ZenonT(60) DEF IInv, TypeOK, HostState, Configured
  <2> QED
    BY <1>1, <1>2, <1>3, <2>1, <2>3, <2>4, LandsInSelecting, ZenonT(60)
<1>4. CASE /\ host' = [host EXCEPT !.iface = NoAddr, !.refused = TRUE]
           /\ Return("DECONFIG") /\ UNCHANGED <<cs, arp>>
  <2>1. line' = "DECONFIG" /\ ControlOK'
    BY <1>4, ReturnFacts, SMTT(30) DEF Lines
  <2>2. /\ host' \in HostState /\ host'.iface = NoAddr /\ host'.refused
        /\ host'.cfg = host.cfg /\ host'.leasefile = host.leasefile
    BY <1>4, ZenonT(60) DEF IInv, TypeOK, HostState
  <2> QED
    BY <1>1, <1>4, <2>1, <2>2, ZenonT(60)
       DEF IInv, TypeOK, Fresh, Probed, Configured, Awake, Scheduled,
           SocketMatchesLease, ControlOK, OutsideType
<1> QED BY <1>3, <1>4 DEF ifchange_deconfig

\* The call after a failed deconfiguration.
LEMMA DeconfigResumeKeeps ==
    ASSUME IInv, DeconfigResume
    PROVE  IInv'
<1>1. OutsideType' /\ cs \in ClientState /\ arp \in ArpState
  BY DEF DeconfigResume, IInv, TypeOK, OutsideType
<1>2. line' = "SELECTING" /\ ControlOK'
  BY GoFacts DEF DeconfigResume, ControlOK, IInv, Lines
<1>3. cs' \in ClientState /\ cs'.wake
  BY <1>1, ForgetLeaseFacts DEF DeconfigResume
<1> QED
  BY <1>1, <1>2, <1>3, LandsInSelecting, SMTT(30)
     DEF DeconfigResume, IInv, TypeOK

\* The lease's own timer.
LEMMA BoundTimeoutKeeps ==
    ASSUME IInv, BoundTimeout
    PROVE  IInv'
<1>1. OutsideType' /\ UNCHANGED host /\ line = "BOUND"
  BY ZenonT(60) DEF BoundTimeout, IInv, TypeOK, OutsideType, At
<1>2. CASE Reinit
  BY <1>2, ReinitKeeps, ZenonT(60) DEF BoundTimeout
<1>3. CASE /\ Return(line) /\ UNCHANGED arp
           /\ \/ cs' = [cs EXCEPT !.wake = TRUE]
              \/ \E ok \in BOOLEAN :
                   cs' = [cs EXCEPT !.listen = TRUE, !.wake = @ \/ ok]
  <2>1. line' = line /\ ControlOK'
    BY <1>1, <1>3, ReturnFacts, ZenonT(60) DEF Lines
  <2> QED BY <1>1, <1>3, <2>1, FlagStepKeeps, ZenonT(60)
<1> QED BY <1>2, <1>3, SentFacts, ZenonT(60) DEF BoundTimeout

\* SIGUSR1 wakes ndhc up; other signals do not.
LEMMA ReleasedSignalKeeps ==
    ASSUME IInv, ReleasedSignal
    PROVE  IInv'
<1>1. /\ OutsideType' /\ UNCHANGED host /\ cs \in ClientState
      /\ arp \in ArpState
  BY SMTT(30) DEF ReleasedSignal, IInv, TypeOK, OutsideType
<1>2. CASE /\ cs' = reinit_selecting(cs) /\ arp' = ForgetNetwork(arp)
           /\ Go("SELECTING", IF cs.wake THEN {} ELSE {"dhcptimer"})
  <2>1. line' = "SELECTING" /\ ControlOK'
    <3>1. (IF cs.wake THEN {} ELSE {"dhcptimer"})
            \in SUBSET (todo \cup {"gwtimer", "dhcptimer"})
      OBVIOUS
    <3> QED BY <1>2, <3>1, GoFacts DEF ControlOK, IInv, Lines
  <2>2. cs' \in ClientState /\ cs'.wake
    BY <1>1, <1>2, ForgetLeaseFacts
  <2> QED
    BY <1>1, <1>2, <2>1, <2>2, LandsInSelecting, SMTT(30) DEF IInv, TypeOK
<1>3. CASE Done("signal") /\ UNCHANGED <<cs, arp>>
  <2>1. line' = line /\ ControlOK'
    BY <1>3, DoneFacts
  <2> QED BY <1>1, <1>3, <2>1, ClientUntouched
<1> QED BY <1>2, <1>3 DEF ReleasedSignal

-----------------------------------------------------------------------------
(* The event loop *)

\* A step that only starts a call, for a suitable event.
LEMMA CallKeeps ==
    ASSUME IInv, NEW e \in Events, NEW t \in TimersDue, Call(e, t),
           e.kind = "arp" /\ e.msg.sip \in Hosts => e.msg.smac \in Nets,
           UNCHANGED <<cs, arp, host>>, OutsideType'
    PROVE  IInv'
<1>1. UNCHANGED line /\ ControlOK'
  BY CallFacts DEF ControlOK, IInv, TypeOK
<1> QED BY <1>1, ClientUntouched

\* A step that does not even start a call.
LEMMA WorldKeeps ==
    ASSUME IInv, UNCHANGED <<line, todo, ev, cs, arp, host>>, OutsideType'
    PROVE  IInv'
<1>1. ControlOK'
  BY DEF ControlOK, IInv, TypeOK, EventMatches
<1> QED BY <1>1, ClientUntouched

\* A timer expires.
LEMMA TimeoutKeeps ==
    ASSUME IInv, Timeout
    PROVE  IInv'
<1>1. UNCHANGED <<cs, arp, host>> /\ OutsideType'
  BY DEF Timeout, IInv, TypeOK, OutsideType
<1>2. NoEvent \in Events /\ NoEvent.kind # "arp"
  BY DEF Events, NoEvent
<1> QED BY <1>1, <1>2, CallKeeps DEF Timeout

\* A DHCP packet arrives.
LEMMA DhcpPacketKeeps ==
    ASSUME IInv, NEW p \in Packets, DhcpPacket(p)
    PROVE  IInv'
<1> DEFINE e == [kind |-> "dhcp", pkt |-> p]
<1>1. UNCHANGED <<cs, arp, host>> /\ OutsideType'
  BY DEF DhcpPacket, IInv, TypeOK, OutsideType
<1>2. e \in Events /\ e.kind # "arp"
  BY DEF Events
<1>3. \E t \in TimersDue : Call(e, t)
  BY DEF DhcpPacket
<1> HIDE DEF e
<1> QED BY <1>1, <1>2, <1>3, CallKeeps

\* An ARP frame arrives.
LEMMA ArpPacketKeeps ==
    ASSUME IInv, ArpPacket
    PROVE  IInv'
<1>1. UNCHANGED <<cs, arp, host>> /\ OutsideType' /\ link.net \in Nets
  BY DEF ArpPacket, IInv, TypeOK, OutsideType
<1>2. PICK m \in ArpTraffic, t \in TimersDue :
        Call([kind |-> "arp", msg |-> m], t)
  BY DEF ArpPacket
<1> DEFINE e == [kind |-> "arp", msg |-> m]
<1>3. m \in ArpMsg /\ (m.sip \in Hosts => m.smac \in Nets)
  BY <1>1, ConstantsAssumption, ZenonT(60) DEF ArpTraffic, ArpMsg
<1>4. e \in Events /\ e.msg = m
  BY <1>3 DEF Events
<1> HIDE DEF e
<1>5. Call(e, t)
  BY <1>2 DEF e
<1> QED BY <1>1, <1>3, <1>4, <1>5, CallKeeps, SMTT(30)

\* A signal is read.
LEMMA SignalKeeps ==
    ASSUME IInv, signal_dispatch
    PROVE  IInv'
<1> DEFINE s == FirstSignal(sigs.pending)
           e == [kind |-> "signal", sig |-> s]
<1>1. UNCHANGED <<arp, host, link>> /\ OutsideType'
  BY DEF signal_dispatch, IInv, TypeOK, OutsideType
<1>2. s # "TERM" => s \in Signals
  BY DEF signal_dispatch, FirstSignal, IInv, TypeOK
<1>3. CASE Exit("term")
  BY <1>1, <1>3, ExitKeeps
<1>4. CASE UNCHANGED <<line, todo, ev, cs>>
  BY <1>1, <1>4, WorldKeeps
<1>5. CASE /\ s # "TERM" /\ UNCHANGED cs
           /\ \E t \in TimersDue : Call(e, t)
  <2>1. e \in Events /\ e.kind # "arp"
    BY <1>2, <1>5 DEF Events
  <2> HIDE DEF e
  <2> QED BY <1>1, <1>5, <2>1, CallKeeps
<1> QED BY <1>3, <1>4, <1>5 DEF signal_dispatch

\* Link messages are read.
LEMMA LinkMessageKeeps ==
    ASSUME IInv, nl_event_get
    PROVE  IInv'
<1> DEFINE e == [kind |-> "ifup"]
<1>1. UNCHANGED <<arp, host>> /\ OutsideType'
  BY ZenonT(60) DEF nl_event_get, IInv, TypeOK, OutsideType
<1>2. e \in Events /\ e.kind # "arp"
  BY DEF Events
<1>3. \/ Exit("removed")
      \/ UNCHANGED <<line, todo, ev, cs>>
      \/ UNCHANGED cs /\ \E t \in TimersDue : Call(e, t)
  BY DEF nl_event_get
<1> HIDE DEF e
<1> QED BY <1>1, <1>2, <1>3, ExitKeeps, WorldKeeps, CallKeeps

\* The radio is blocked or unblocked.
LEMMA RfkillKeeps ==
    ASSUME IInv, rfkill_get
    PROVE  IInv'
<1> DEFINE e == IF link.wentup THEN [kind |-> "ifup"] ELSE NoEvent
<1>1. UNCHANGED <<cs, arp, host>> /\ OutsideType'
  BY ZenonT(60) DEF rfkill_get, IInv, TypeOK, OutsideType
<1>2. e \in Events /\ e.kind # "arp"
  BY DEF Events, NoEvent
<1>3. \/ UNCHANGED <<line, todo, ev>>
      \/ \E t \in TimersDue : Call(e, t)
  BY DEF rfkill_get
<1> HIDE DEF e
<1> QED BY <1>1, <1>2, <1>3, WorldKeeps, CallKeeps

\* A failed read of the ARP socket leaves an unfiltered one.
LEMMA ReopenFacts ==
    ASSUME NEW a \in ArpState
    PROVE  LET b == arp_open_fd([a EXCEPT !.fd = "none"], "basic", NoAddr)
           IN  /\ b \in ArpState /\ b.fd = "basic" /\ b.wake = a.wake
               /\ SameProgress(a, b) /\ b.offered = a.offered
               /\ NetworkForgotten(a) => NetworkForgotten(b)
<1> DEFINE c == [a EXCEPT !.fd = "none"]
           b == [c EXCEPT !.fd = "basic", !.filter = NoAddr]
<1>1. /\ c \in ArpState /\ c.wake = a.wake /\ SameProgress(a, c)
      /\ c.offered = a.offered /\ c.fd = "none"
      /\ NetworkForgotten(a) => NetworkForgotten(c)
  BY DEF ArpState, SameProgress, NetworkForgotten
<1>2. arp_open_fd(c, "basic", NoAddr) = b
  BY <1>1 DEF arp_open_fd
<1> HIDE DEF c
<1>3. /\ b \in ArpState /\ b.fd = "basic" /\ b.wake = c.wake
      /\ SameProgress(c, b) /\ b.offered = c.offered
  BY <1>1, ZenonT(60) DEF ArpState, SameProgress
<1>4. NetworkForgotten(c) => NetworkForgotten(b)
  BY <1>1 DEF ArpState, NetworkForgotten
<1> HIDE DEF b
<1> QED BY <1>1, <1>2, <1>3, <1>4 DEF SameProgress, c

\* A failed read of the ARP socket.
LEMMA ArpReadErrorKeeps ==
    ASSUME IInv, ArpReadError
    PROVE  IInv'
<1>1. UNCHANGED <<cs, host>> /\ OutsideType' /\ arp \in ArpState
  BY DEF ArpReadError, IInv, TypeOK, OutsideType
<1>2. UNCHANGED line /\ ControlOK'
  <2>1. NoEvent \in Events /\ NoEvent.kind # "arp"
    BY DEF Events, NoEvent
  <2>2. CASE \E t \in TimersDue : Call(NoEvent, t)
    BY <2>1, <2>2, CallFacts, SMTT(30) DEF ControlOK, IInv, TypeOK
  <2>3. CASE UNCHANGED <<line, todo, ev>>
    BY <2>3 DEF ControlOK, IInv, TypeOK, EventMatches
  <2> QED BY <2>2, <2>3, SMTT(30) DEF ArpReadError
<1>3. /\ arp' \in ArpState /\ arp'.fd = "basic" /\ arp'.wake = arp.wake
      /\ SameProgress(arp, arp') /\ arp'.offered = arp.offered
      /\ NetworkForgotten(arp) => NetworkForgotten(arp')
  BY <1>1, ReopenFacts, ZenonT(60) DEF ArpReadError
<1>4. line \in {"COLLISION", "BOUND", "DECONFIG"}
  BY DEF ArpReadError, Idle, IInv, TypeOK, Lines, Fresh
<1>5. WorkScheduled(arp) => WorkScheduled(arp')
  BY <1>3 DEF WorkScheduled, SameProgress, Fingerprinted
<1> QED
  BY <1>1, <1>2, <1>3, <1>4, <1>5, ZenonT(60)
     DEF IInv, TypeOK, Fresh, Probed, Configured, Awake, Scheduled,
         SocketMatchesLease, ControlOK, OutsideType

\* The lease grows older.
LEMMA TickKeeps ==
    ASSUME IInv, Tick
    PROVE  IInv'
<1>1. /\ UNCHANGED <<line, todo, ev, arp, host>> /\ OutsideType'
      /\ line \in {"COLLISION", "BOUND"} /\ cs \in ClientState
  BY DEF Tick, IInv, TypeOK, OutsideType
<1>2. ControlOK'
  BY <1>1 DEF ControlOK, IInv, TypeOK, EventMatches
<1> DEFINE n == cs.phase + 1
<1>3. n \in 0 .. 3
  <2>1. cs.phase \in 0 .. 3
    BY <1>1, ZenonT(60) DEF ClientState
  <2>2. cs.phase < 3
    BY DEF Tick
  <2> QED BY <2>1, <2>2
<1>4. cs' = [cs EXCEPT !.phase = n]
  BY DEF Tick
<1> HIDE DEF n
<1>5. /\ cs' \in ClientState /\ cs'.clientAddr = cs.clientAddr
      /\ cs'.routerAddr = cs.routerAddr /\ cs'.ifDeconfig = cs.ifDeconfig
      /\ cs'.wake = cs.wake
  BY <1>1, <1>3, <1>4, ZenonT(60) DEF ClientState
<1>6. CASE line = "COLLISION"
  BY <1>1, <1>2, <1>5, <1>6, ProbingFacts, StaysProbing, SMTT(30)
<1>7. CASE line = "BOUND"
  BY <1>1, <1>2, <1>5, <1>7, BoundFacts, StaysBound
<1> QED BY <1>1, <1>6, <1>7

\* The link changes, or a signal is sent.
LEMMA EnvironmentKeeps ==
    ASSUME IInv,
           CarrierLost \/ CarrierBack \/ LinkNotice \/ \E s \in Signals : Kill(s)
    PROVE  IInv'
<1>1. link \in [carrier : BOOLEAN, net : Nets,
                nl : {"none", "up", "down", "removed"},
                rfkill_set : BOOLEAN, wentup : BOOLEAN]
      /\ sigs \in [pending : SUBSET Signals, last : Signals \cup {"none"}]
  BY DEF IInv, TypeOK
<1>2. CASE CarrierLost
  BY <1>1, <1>2, WorldKeeps, ZenonT(60) DEF CarrierLost, OutsideType
<1>3. CASE CarrierBack
  BY <1>1, <1>3, WorldKeeps, ZenonT(60) DEF CarrierBack, OutsideType
<1>4. CASE LinkNotice
  BY <1>1, <1>4, WorldKeeps, ZenonT(60) DEF LinkNotice, OutsideType
<1>5. CASE \E s \in Signals : Kill(s)
  BY <1>1, <1>5, WorldKeeps, SMTT(30) DEF Kill, OutsideType
<1> QED BY <1>2, <1>3, <1>4, <1>5, SMTT(30)

-----------------------------------------------------------------------------
(* The invariant *)

\* Whatever ndhc_main found at the start, the invariant holds then.
LEMMA InitKeeps == Init => IInv
<1> SUFFICES ASSUME Init PROVE IInv
  OBVIOUS
<1>1. cs \in ClientState
  <2>1. 0 \in 0 .. MaxRequests /\ 0 \in 0 .. 3
    BY ConstantsAssumption
  <2> QED BY <2>1, ZenonT(60) DEF Init, ClientState
<1>2. arp \in ArpState /\ arp = InitArp
  BY PingBoundHolds, InitArpType, ZenonT(60) DEF Init
<1>3. /\ NetworkForgotten(arp) /\ arp.fd = "none" /\ arp.wake = {}
  BY <1>2 DEF InitArp, NetworkForgotten
<1>4. /\ line = "SELECTING" /\ todo = {} /\ ev = NoEvent
      /\ host.cfg = NoLease /\ cs.requests = 0
  BY ZenonT(60) DEF Init
<1>5. /\ host \in HostState
      /\ OutsideType
  BY ZenonT(60) DEF Init, OutsideType, HostState
<1>6. TypeOK
  BY <1>1, <1>2, <1>4, <1>5 DEF TypeOK, OutsideType, Lines, Events
<1> QED
  BY <1>3, <1>4, <1>6, SMTT(30)
     DEF IInv, EventMatches, Fresh, Probed, Configured, Awake, Scheduled,
         SocketMatchesLease, NoEvent

\* Every step of the client, of the loop and of the world keeps the invariant.
LEMMA StepKeeps == IInv /\ [Next]_vars => IInv'
<1> SUFFICES ASSUME IInv, [Next]_vars PROVE IInv'
  OBVIOUS
<1>1. CASE dhcp_handle
  BY <1>1, UnboundSignalKeeps, SelectingPacketKeeps, SelectingTimeoutKeeps,
     RequestingPacketKeeps, RequestingTimeoutKeeps, CollisionReplyKeeps,
     CollisionWaitKeeps, CollisionFreeKeeps, BoundSignalKeeps,
     ExtendPacketKeeps, DefenseKeeps, GwQueryReplyKeeps, GwCheckReplyKeeps,
     AnnounceTimeoutKeeps, GwQueryTimeoutKeeps, GwCheckTimeoutKeeps,
     IfupKeeps, DeconfigKeeps, DeconfigResumeKeeps, BoundTimeoutKeeps,
     ReleasedSignalKeeps, SMTT(30)
     DEF dhcp_handle
<1>2. CASE Loop
  BY <1>2, TimeoutKeeps, DhcpPacketKeeps, ArpPacketKeeps, ArpReadErrorKeeps,
     SignalKeeps, LinkMessageKeeps, RfkillKeeps
     DEF Loop
<1>3. CASE World
  BY <1>3, EnvironmentKeeps, TickKeeps DEF World
<1>4. CASE UNCHANGED vars
  <2>1. OutsideType' /\ UNCHANGED <<line, todo, ev, cs, arp, host>>
    BY <1>4 DEF vars, IInv, TypeOK, OutsideType
  <2> QED BY <2>1, WorldKeeps
<1> QED BY <1>1, <1>2, <1>3, <1>4 DEF Next, Exited

\* The inductive invariant holds in every reachable state of ndhc-master.
THEOREM Invariance == Spec => []IInv
BY InitKeeps, StepKeeps, PTL DEF Spec

\* Every variable of ndhc-master keeps its type; in particular the counts of
\* announcements, pings and requests stay within their bounds.
THEOREM TypeCorrect == Spec => []TypeOK
<1>1. IInv => TypeOK
  BY DEF IInv
<1> QED BY <1>1, Invariance, PTL

\* In BOUND cfg_packet, the lease file and the client agree, and so does the
\* interface unless a deconfiguration was refused: it is bare then.
THEOREM BoundConfigured == Spec => []BoundIsConfigured
<1>1. IInv => BoundIsConfigured
  <2> SUFFICES ASSUME IInv, line = "BOUND"
               PROVE  /\ cs.clientAddr \in Addrs
                      /\ host.iface = IF host.refused THEN NoAddr
                                      ELSE cs.clientAddr
                      /\ host.cfg.yiaddr = cs.clientAddr
                      /\ cs.clientAddr \in LongAddrs
                           \/ host.leasefile = cs.clientAddr
                      /\ host.cfg.router = cs.routerAddr
                      /\ ~cs.ifDeconfig
    BY DEF BoundIsConfigured
  <2>1. Configured /\ cs.clientAddr \in Addrs
    BY BoundFacts, ZenonT(60) DEF IInv
  <2>2. /\ host.cfg # NoLease
        /\ host.cfg = [yiaddr |-> cs.clientAddr, router |-> cs.routerAddr]
        /\ cs.clientAddr \in LongAddrs \/ host.leasefile = cs.clientAddr
        /\ ~cs.ifDeconfig
    BY <2>1, ZenonT(60) DEF Configured
  <2>3. host.iface = IF host.refused THEN NoAddr ELSE host.cfg.yiaddr
    BY <2>1, <2>2, ZenonT(60) DEF Configured
  <2>4. host.cfg.yiaddr = cs.clientAddr /\ host.cfg.router = cs.routerAddr
    BY <2>2
  <2> QED BY <2>1, <2>2, <2>3, <2>4, ZenonT(60)
<1> QED BY <1>1, Invariance, PTL

\* The loop never sleeps without a time limit while there is work to do.
THEOREM NeverSleepsAtWork == Spec => []SleepsOnlyWhenReleased
<1>1. IInv => SleepsOnlyWhenReleased
  BY SMTT(30) DEF IInv, Awake, SleepsOnlyWhenReleased, Idle
<1> QED BY <1>1, Invariance, PTL

\* After a release nothing is open, nothing runs, nothing is remembered.
THEOREM QuietWhenReleased == Spec => []ReleasedIsQuiet
<1>1. IInv => ReleasedIsQuiet
  BY DEF IInv, Awake, Fresh, ReleasedIsQuiet
<1> QED BY <1>1, Invariance, PTL

\* Announcements and gateway queries that could not be sent are retried.
THEOREM WorkStaysScheduled == Spec => []WorkIsScheduled
<1>1. IInv => WorkIsScheduled
  BY DEF IInv, Scheduled, WorkIsScheduled
<1> QED BY <1>1, Invariance, PTL

\* The defense filter is always for the address that is ours now.
THEOREM FilterMatchesLease == Spec => []SocketMatchesLease
<1>1. IInv => SocketMatchesLease
  BY DEF IInv
<1> QED BY <1>1, Invariance, PTL

-----------------------------------------------------------------------------
(* Refinement of LeaseSpec *)

Holding == {"COLLISION", "BOUND", "DECONFIG"}

Using == {"BOUND", "DECONFIG"}

\* A step that neither takes an address into use nor touches the interface:
\* it does not change the address that it holds.
KeepsAddress ==
    /\ line \notin Using => line' \notin Using
    /\ line \in Using => line' # "COLLISION"
    /\ line \in Holding /\ line' \in Holding => cs'.clientAddr = cs.clientAddr
    /\ host' = host

\* What the invariant says of the address that is held.
LEMMA HoldingFacts ==
    ASSUME IInv, line \in Holding
    PROVE  cs.clientAddr \in Addrs /\ cs.clientAddr # NoAddr
<1>1. line = "COLLISION" => cs.clientAddr \in Addrs
  BY DEF IInv, Probed, Leases
<1>2. line \in {"BOUND", "DECONFIG"} => cs.clientAddr \in Addrs
  BY DEF IInv, Configured, Leases
<1> QED BY <1>1, <1>2, ConstantsAssumption DEF Holding

\* The variables of LeaseSpec.
LeaseVars ==
    <<IF line \in {"COLLISION", "BOUND", "DECONFIG"}
      THEN cs.clientAddr ELSE NoAddr,
      line \in {"BOUND", "DECONFIG"}, host.iface, host.refused>>

\* Every such move is a step of LeaseSpec, or leaves its variables alone.
LEMMA MoveRefines ==
    ASSUME IInv, KeepsAddress, line' \in Holding => cs'.clientAddr \in Addrs
    PROVE  [Lease!Next]_LeaseVars
<1>1. line \in Holding => cs.clientAddr # NoAddr
  BY HoldingFacts
<1>2. host'.iface = host.iface /\ host'.refused = host.refused
  BY DEF KeepsAddress
<1>3. CASE line \in Holding /\ line' \notin Holding
  <2>1. Lease!GiveUp
    BY <1>1, <1>2, <1>3 DEF Holding, Lease!GiveUp
  <2> QED BY <2>1 DEF Lease!Next
<1>4. CASE line \notin Holding /\ line' \notin Holding
  BY <1>2, <1>4 DEF Holding, LeaseVars
<1>5. CASE line \notin Holding /\ line' \in Holding
  <2>1. line \notin Using /\ line' = "COLLISION"
    BY <1>5 DEF KeepsAddress, Holding, Using
  <2>2. Lease!Grant
    BY <1>2, <1>5, <2>1 DEF Holding, Using, Lease!Grant
  <2> QED BY <2>2 DEF Lease!Next
<1>6. CASE line \in Holding /\ line' \in Holding
  <2>1. (line' \in Using) = (line \in Using) /\ cs'.clientAddr = cs.clientAddr
    BY <1>6 DEF KeepsAddress, Holding, Using
  <2> QED BY <1>2, <1>6, <2>1 DEF Holding, Using, LeaseVars
<1> QED BY <1>3, <1>4, <1>5, <1>6

\* Where a step may lead without touching the address.
LEMMA SimpleMoves ==
    ASSUME \/ line' \in {"SELECTING", "REQUESTING", "RELEASED", "EXITED"}
           \/ line' = line /\ cs'.clientAddr = cs.clientAddr,
           UNCHANGED host
    PROVE  KeepsAddress
BY DEF KeepsAddress, Holding, Using

\* Before and while probing, only the probe of the address that was requested
\* leads on.
LEMMA UnboundMoves ==
    ASSUME IInv,
           \/ UnboundSignal \/ SelectingPacket \/ SelectingTimeout
           \/ RequestingPacket \/ requesting_timeout
           \/ CollisionReply \/ CollisionWait
    PROVE  KeepsAddress
<1>1. cs \in ClientState /\ UNCHANGED host
  BY DEF IInv, TypeOK, UnboundSignal, SelectingPacket, SelectingTimeout,
         RequestingPacket, requesting_timeout, CollisionReply, CollisionWait
<1>2. CASE UnboundSignal
  BY <1>2, <1>1, SimpleMoves DEF UnboundSignal, Sleep, Return, Done, Go
<1>3. CASE SelectingPacket
  BY <1>3, <1>1, SimpleMoves DEF SelectingPacket, Done, Go
<1>4. CASE SelectingTimeout
  <2>1. line' \in {"SELECTING", "EXITED"}
    BY <1>4 DEF SelectingTimeout, Exit, Return, Go, At
  <2> QED BY <2>1, <1>1, SimpleMoves
<1>5. CASE RequestingPacket
  <2>1. line = "REQUESTING" /\ line' \in {"REQUESTING", "SELECTING", "COLLISION"}
    BY <1>5, SentFacts
       DEF RequestingPacket, At, GotoReinit, Return, Done, Go
  <2> QED BY <1>1, <2>1 DEF KeepsAddress, Holding, Using
<1>6. CASE requesting_timeout
  <2>1. CASE Reinit
    BY <2>1, <1>1, SimpleMoves DEF Reinit, GotoReinit, Go
  <2>2. CASE /\ \E ok \in Sent : cs' = IF ok THEN Requested(cs) ELSE cs
             /\ Return(line)
    BY <1>1, <2>2, RequestedFacts, SimpleMoves, SMTT(30) DEF Return, Go
  <2> QED BY <1>6, <2>1, <2>2 DEF requesting_timeout
<1>7. CASE CollisionReply
  BY <1>7, <1>1, SimpleMoves
     DEF CollisionReply, Reinit, GotoReinit, Return, Done, Go
<1>8. CASE CollisionWait
  BY <1>8, <1>1, SimpleMoves, ZenonT(60) DEF CollisionWait, Return, Done, Go
<1> QED BY <1>2, <1>3, <1>4, <1>5, <1>6, <1>7, <1>8, SMTT(30)

\* The end of the probe takes the probed address into use, or ends ndhc.
LEMMA BindRefines ==
    ASSUME IInv, CollisionFree
    PROVE  Lease!Next
<1> DEFINE l == arp.offered
           c == [cs EXCEPT !.clientAddr = l.yiaddr, !.program_init = FALSE,
                           !.ifDeconfig = FALSE, !.routerAddr = l.router,
                           !.listen = FALSE]
           g == SetAddress(l)
           h == [g EXCEPT !.cfg = l, !.leasefile = write_leasefile(l.yiaddr)]
<1>1. line = "COLLISION" /\ line \in Holding
  BY DEF CollisionFree, At, Holding
<1>2. /\ cs \in ClientState /\ l \in Leases /\ l.yiaddr = cs.clientAddr
      /\ cs.clientAddr # NoAddr
  BY <1>1, ProbingFacts, HoldingFacts
<1>3. \/ line' = "EXITED" /\ UNCHANGED host
      \/ line' = "EXITED" /\ host' = h
      \/ line' = "BOUND" /\ cs' = c /\ host' = h
  BY DEF CollisionFree, Exit, Return, Go
<1>4. c.clientAddr = cs.clientAddr
  BY <1>2, ZenonT(60) DEF ClientState
<1>5. CASE line' = "EXITED" /\ UNCHANGED host
  <2>1. Lease!GiveUp
    BY <1>1, <1>2, <1>5 DEF Lease!GiveUp
  <2> QED BY <2>1 DEF Lease!Next
<1>6. CASE host' = h /\ (line' = "EXITED" \/ (line' = "BOUND" /\ cs' = c))
  <2>1. /\ g \in HostState
        /\ g.iface = IF g.refused THEN NoAddr ELSE cs.clientAddr
        /\ g.refused => g = host
    BY <1>2, BindSetsAddress
  <2> HIDE DEF g, l
  <2>2. host'.iface = g.iface /\ host'.refused = g.refused
    BY <1>6, <2>1, ZenonT(60) DEF HostState
  <2>3. g.refused \in BOOLEAN
    BY <2>1 DEF HostState
  <2>4. \/ host'.iface = cs.clientAddr /\ host'.refused = FALSE
        \/ host.refused /\ host'.iface = host.iface
             /\ host'.refused = host.refused
    BY <2>1, <2>2, <2>3
  <2> HIDE DEF c
  <2>5. Lease!Take
    BY <1>1, <1>2, <1>4, <1>6, <2>4 DEF Lease!Take
  <2> QED BY <2>5 DEF Lease!Next
<1> QED BY <1>3, <1>5, <1>6

\* A deconfiguration removes the address, also when it is refused.
LEMMA DeconfigRefines ==
    ASSUME IInv, ifchange_deconfig
    PROVE  Lease!Next
<1>1. line = "BOUND" /\ ~cs.ifDeconfig /\ host \in HostState
  BY DEF ifchange_deconfig, At, IInv, TypeOK, Configured
<1>2. \/ /\ line' = "SELECTING"
         /\ host' = [host EXCEPT !.iface = NoAddr, !.cfg = NoLease,
                                 !.refused = FALSE]
      \/ /\ line' = "DECONFIG" /\ cs' = cs
         /\ host' = [host EXCEPT !.iface = NoAddr, !.refused = TRUE]
  BY <1>1 DEF ifchange_deconfig, GotoReinit, Return, Go
<1>3. /\ host'.iface = NoAddr
      /\ \/ line' = "SELECTING" /\ host'.refused = FALSE
         \/ line' = "DECONFIG" /\ cs' = cs /\ host'.refused = TRUE
  BY <1>1, <1>2, ZenonT(60) DEF HostState
<1>4. Lease!Clear
  BY <1>1, <1>3 DEF Lease!Clear
<1> QED BY <1>4 DEF Lease!Next

\* In BOUND the address stays, or the lease is lost.
LEMMA BoundMoves ==
    ASSUME IInv,
           \/ BoundSignal \/ extend_packet \/ arp_do_defense \/ GwQueryReply
           \/ arp_do_gw_check \/ AnnounceTimeout \/ GwQueryTimeout
           \/ GwCheckTimeout \/ ifup_action \/ BoundTimeout
    PROVE  KeepsAddress
<1>1. cs \in ClientState /\ UNCHANGED host
  BY DEF IInv, TypeOK, BoundSignal, extend_packet, arp_do_defense,
         GwQueryReply, arp_do_gw_check, AnnounceTimeout, GwQueryTimeout,
         GwCheckTimeout, ifup_action, BoundTimeout
<1>2. CASE BoundSignal
  <2>1. \/ line' = "RELEASED"
        \/ line' = line /\ cs' \in {cs, [cs EXCEPT !.listen = TRUE]}
    BY <1>2 DEF BoundSignal, Sleep, Return, Done, Go
  <2> QED BY <1>1, <2>1, SimpleMoves, ZenonT(60) DEF ClientState
<1>3. CASE extend_packet
  <2> DEFINE c == get_leasetime(cs)
  <2>1. \/ line' = "SELECTING"
        \/ line' = line /\ cs' \in {cs, c, [c EXCEPT !.listen = FALSE]}
    BY <1>3, SentFacts DEF extend_packet, Reinit, GotoReinit, Done, Go
  <2>2. c \in ClientState /\ c.clientAddr = cs.clientAddr
    BY <1>1, LeasetimeFacts DEF IInv, TypeOK
  <2> HIDE DEF c
  <2>3. [c EXCEPT !.listen = FALSE].clientAddr = cs.clientAddr
    BY <2>2, ZenonT(60) DEF ClientState
  <2> QED BY <2>1, <2>2, <2>3, <1>1, SimpleMoves, ZenonT(60)
<1>4. CASE arp_do_defense
  BY <1>4, <1>1, SimpleMoves
     DEF arp_do_defense, Reinit, GotoReinit, Return, Done, Go
<1>5. CASE GwQueryReply
  BY <1>5, <1>1, SimpleMoves DEF GwQueryReply, Done, Go
<1>6. CASE arp_do_gw_check
  BY <1>6, <1>1, SimpleMoves, ZenonT(60)
     DEF arp_do_gw_check, Reinit, GotoReinit, Return, Done, Go
<1>7. CASE AnnounceTimeout
  BY <1>7, <1>1, SimpleMoves DEF AnnounceTimeout, Go
<1>8. CASE GwQueryTimeout
  BY <1>8, <1>1, SimpleMoves, ZenonT(60) DEF GwQueryTimeout, Return, Done, Go
<1>9. CASE GwCheckTimeout
  BY <1>9, <1>1, SimpleMoves
     DEF GwCheckTimeout, Reinit, GotoReinit, Return, Done, Go
<1>10. CASE ifup_action
  BY <1>10, <1>1, SimpleMoves DEF ifup_action, Exit, Return, Done, Go
<1>11. CASE BoundTimeout
  <2>1. \/ line' = "SELECTING"
        \/ line' = line /\ cs' = [cs EXCEPT !.wake = TRUE]
        \/ /\ line' = line
           /\ \E ok \in BOOLEAN :
                cs' = [cs EXCEPT !.listen = TRUE, !.wake = @ \/ ok]
    BY <1>11, SentFacts, ZenonT(60)
       DEF BoundTimeout, Reinit, GotoReinit, Return, Go
  <2> QED BY <1>1, <2>1, SimpleMoves, ZenonT(60) DEF ClientState
<1> QED
  BY <1>2, <1>3, <1>4, <1>5, <1>6, <1>7, <1>8, <1>9, <1>10, <1>11, SMTT(30)

\* Sleep, and everything outside dhcp_handle.
LEMMA OtherMoves ==
    ASSUME IInv,
           \/ DeconfigResume \/ ReleasedSignal
           \/ Loop \/ World \/ Exited
    PROVE  KeepsAddress
<1>1. cs \in ClientState
  BY DEF IInv, TypeOK
<1>2. UNCHANGED host
  BY DEF DeconfigResume, ReleasedSignal, Exited, vars,
         Loop, Timeout, DhcpPacket, ArpPacket, ArpReadError, signal_dispatch,
         nl_event_get, rfkill_get,
         World, CarrierLost, CarrierBack, LinkNotice, Kill, Tick
<1>3. CASE DeconfigResume
  BY <1>3, <1>2, SimpleMoves DEF DeconfigResume, Go
<1>4. CASE ReleasedSignal
  BY <1>4, <1>2, SimpleMoves DEF ReleasedSignal, Done, Go
<1>5. CASE Loop
  <2>1. \/ line' = line /\ cs' = cs
        \/ line' = "EXITED"
    BY <1>5
       DEF Loop, Timeout, DhcpPacket, ArpPacket, ArpReadError, signal_dispatch,
           nl_event_get, rfkill_get, Call, Exit, Return, Go
  <2> QED BY <2>1, <1>2, SimpleMoves, SMTT(30)
<1>6. CASE World
  <2>1. line' = line /\ cs' \in {cs, [cs EXCEPT !.phase = @ + 1]}
    BY <1>6, ZenonT(60)
       DEF World, CarrierLost, CarrierBack, LinkNotice, Kill, Tick
  <2> QED BY <1>1, <2>1, <1>2, SimpleMoves, ZenonT(60) DEF ClientState
<1>7. CASE Exited
  BY <1>7, <1>2, SimpleMoves DEF Exited, vars
<1> QED BY <1>3, <1>4, <1>5, <1>6, <1>7

\* ndhc-master implements LeaseSpec: the interface gets an address only by a
\* bind of one that a server acknowledged and that was probed, keeps it while
\* the lease is held and after it is given up, and loses it only by a
\* deconfiguration.
THEOREM Refinement == Spec => ImplementsLease
<1>1. Init => Lease!Init
  BY ZenonT(60) DEF Init, Lease!Init
<1>2. IInv /\ IInv' /\ [Next]_vars => [Lease!Next]_LeaseVars
  <2> SUFFICES ASSUME IInv, IInv', [Next]_vars
               PROVE  [Lease!Next]_LeaseVars
    OBVIOUS
  <2>1. line' \in Holding => cs'.clientAddr \in Addrs
    <3>1. line' = "COLLISION" => cs'.clientAddr \in Addrs
      BY SMTT(30) DEF IInv, Probed, Leases
    <3>2. line' \in {"BOUND", "DECONFIG"} => cs'.clientAddr \in Addrs
      BY DEF IInv, Configured, Leases
    <3> QED BY <3>1, <3>2 DEF Holding
  <2>2. CASE UNCHANGED vars
    <3>1. KeepsAddress
      BY <2>2, SimpleMoves DEF vars
    <3> QED BY <2>1, <3>1, MoveRefines
  <2>3. CASE CollisionFree
    BY <2>3, BindRefines
  <2>4. CASE ifchange_deconfig
    BY <2>4, DeconfigRefines
  <2>5. CASE Next /\ ~CollisionFree /\ ~ifchange_deconfig
    <3>1. KeepsAddress
      BY <2>5, UnboundMoves, BoundMoves, OtherMoves DEF Next, dhcp_handle
    <3> QED BY <2>1, <3>1, MoveRefines
  <2> QED BY <2>2, <2>3, <2>4, <2>5
<1> QED
  BY <1>1, <1>2, Invariance, PTL DEF Spec, ImplementsLease, Lease!Spec, LeaseVars
=============================================================================
