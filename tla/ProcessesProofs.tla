-------------------------- MODULE ProcessesProofs --------------------------
(***************************************************************************)
(* The calls between the processes are in step: every request has one      *)
(* answer, of its own kind, and without a disturbance no process ends.     *)
(***************************************************************************)
EXTENDS IdentifierProofs, SequenceTheorems

MasterState ==
    [pc : {"off", "ifup", "rfkill_open", "rfkill", "spawn_ifch",
           "spawn_sockd", "ndhc_main", "deconfig", "work", "loop",
           "turn", "wait_ifch", "wait_sockd", "refused"},
     call : {"none", "first_carrier", "first_deconfig", "carrier",
             "bind", "deconfig"} \cup Commands,
     listen : Sockets, sigs : SUBSET {"CHLD", "TERM"},
     ready : BOOLEAN, daemon : BOOLEAN, decided : BOOLEAN]

IfchState ==
    [st : {"none", "starting", "ready", "dead"},
     q : {"empty", "request", "yes", "no"}]

SockdState ==
    [st : {"none", "starting", "ready", "dead"},
     req : {<<>>} \cup {<<Request(c)>> : c \in Commands},
     rep : {<<>>} \cup {<<r>> : r \in Replies},
     buf : {<<>>}]

Events == Seq({"blocked", "unblocked"})

RadioState == [blocked : BOOLEAN, open : BOOLEAN, q : Events]

Shape ==
    /\ left \in 0 .. Disturbances
    /\ master \in MasterState /\ ifch \in IfchState
    /\ sockd \in SockdState /\ radio \in RadioState

\* The master calls once it has its identifier, and signals wait from the
\* first request to sockd on; what dhcp_handle decided ended it.
Settled ==
    /\ master.decided => master.pc = "off"
    /\ master.pc \notin {"off", "ifup"} => boot[Me].pc = "done"
    /\ master.pc = "wait_sockd" => master.ready /\ master.call \in Commands

\* What is under way is the request of the master, or the answer to it.
RequestInStep ==
    sockd.req # <<>> => /\ master.pc = "wait_sockd" /\ sockd.rep = <<>>
                        /\ sockd.req = <<Request(master.call)>>

\* An answer is of the kind that was asked for, and tells of a filter only
\* when it is attached and locked.
AnswerInStep ==
    sockd.rep # <<>> =>
        /\ master.pc = "wait_sockd"
        /\ sockd.rep[1].resp \in Expected(master.call)
        /\ sockd.rep[1].resp = "L" =>
              sockd.rep[1].sock.attached /\ sockd.rep[1].sock.locked

BeforeIfch == {"off", "ifup", "rfkill_open", "rfkill", "spawn_ifch"}

\* As long as nothing was disturbed, and dhcp_handle did not decide to end, the
\* children live from their fork on, no signal is pending, and ifch says no only
\* to say that there is no carrier.
Undisturbed ==
    left = Disturbances /\ ~master.decided =>
        /\ master.sigs = {} /\ master.pc # "refused"
        /\ IF master.pc \in BeforeIfch THEN ifch.st = "none" ELSE Alive(ifch)
        /\ IF master.pc \in BeforeIfch \cup {"spawn_sockd"} THEN sockd.st = "none"
           ELSE Alive(sockd)
        /\ ifch.q # "empty" => master.pc = "wait_ifch"
        /\ ifch.q = "no" => AsksForCarrier

LifeInv ==
    /\ Shape /\ Settled /\ RequestInStep /\ AnswerInStep
    /\ TrustedFilterIsLocked /\ Undisturbed

-----------------------------------------------------------------------------

LEMMA NoEvents == <<>> \in Events
    BY DEF Events

LEMMA LifeInit == Init => LifeInv
<1> SUFFICES ASSUME Init PROVE LifeInv
    OBVIOUS
<1>1. Gone \in MasterState /\ NoIfch \in IfchState /\ NoSockd \in SockdState
    BY DEF Gone, NoIfch, NoSockd, MasterState, IfchState, SockdState, NoSocket, Sockets
<1>2. radio \in RadioState
    BY NoEvents DEF Init, RadioState
<1>3. left \in 0 .. Disturbances
    BY ClientIdAssumption DEF Init, ClientIdInit
<1>4. Shape
    BY <1>1, <1>2, <1>3 DEF Shape, Init
<1>5. Settled /\ RequestInStep /\ AnswerInStep /\ TrustedFilterIsLocked /\ Undisturbed
    BY DEF Init, Gone, NoIfch, NoSockd, NoSocket, Settled, RequestInStep,
           AnswerInStep, TrustedFilterIsLocked, Undisturbed, BeforeIfch
<1> QED
    BY <1>4, <1>5 DEF LifeInv

LEMMA DisturbedLeft ==
    ASSUME left \in 0 .. Disturbances, Disturbed
    PROVE  left' \in 0 .. Disturbances /\ left' # Disturbances
    BY ClientIdAssumption DEF Disturbed

\* The master ends: after a disturbance or by decision, and never in a call to
\* sockd.
LEMMA EndKept ==
    ASSUME LifeInv, NEW d \in BOOLEAN, MasterEnds(d), UNCHANGED sockd,
           ifch' \in IfchState, master.pc # "wait_sockd",
           left' \in 0 .. Disturbances, d \/ left' # Disturbances
    PROVE  LifeInv'
<1>1. /\ master' \in MasterState /\ master'.pc = "off"
      /\ ~master'.listen.using_bpf /\ master'.decided = d
    BY DEF MasterEnds, Gone, MasterState, NoSocket, Sockets
<1>2. radio' \in RadioState
    BY NoEvents, ZenonT(60) DEF LifeInv, Shape, RadioState, MasterEnds
<1>3. Shape'
    BY <1>1, <1>2 DEF LifeInv, Shape
<1>4. (Settled /\ RequestInStep /\ AnswerInStep)'
    BY <1>1 DEF LifeInv, Settled, RequestInStep, AnswerInStep
<1>5. (TrustedFilterIsLocked /\ Undisturbed)'
    BY <1>1 DEF TrustedFilterIsLocked, Undisturbed
<1> QED
    BY <1>3, <1>4, <1>5 DEF LifeInv

LEMMA ExitKept ==
    ASSUME LifeInv, MasterExits, UNCHANGED sockd, ifch' \in IfchState,
           master.pc # "wait_sockd",
           left' \in 0 .. Disturbances, left' # Disturbances
    PROVE  LifeInv'
    BY EndKept DEF MasterExits

\* The master goes on by itself, with both children as they are.
LEMMA GoesKept ==
    ASSUME LifeInv, UNCHANGED <<ifch, sockd, left>>, boot' = boot,
           radio' \in RadioState, NEW pc, MasterGoes(pc),
           master.pc \notin {"off", "wait_sockd", "wait_ifch"},
           pc \in {"rfkill_open", "rfkill", "spawn_ifch", "loop"},
           master.pc # "ifup" \/ boot[Me].pc = "done",
           pc # "loop" => master.pc \in BeforeIfch,
           pc = "loop" => master.pc \notin BeforeIfch \cup {"spawn_sockd"}
    PROVE  LifeInv'
<1>1. master \in MasterState
    BY DEF LifeInv, Shape
<1>2. master' \in MasterState
    BY <1>1, ZenonT(60) DEF MasterGoes, MasterState
<1>3. /\ master'.pc = pc /\ master'.sigs = master.sigs
      /\ master'.decided = master.decided
      /\ master'.listen = master.listen
    BY <1>1 DEF MasterGoes, MasterState
<1>4. Shape'
    BY <1>2 DEF LifeInv, Shape
<1>5. (Settled /\ RequestInStep /\ AnswerInStep)'
    BY <1>3 DEF LifeInv, Settled, RequestInStep, AnswerInStep
<1>6. TrustedFilterIsLocked'
    BY <1>3 DEF LifeInv, TrustedFilterIsLocked
<1>7. Undisturbed'
    BY <1>3 DEF LifeInv, Undisturbed, BeforeIfch, Alive, AsksForCarrier
<1> QED
    BY <1>4, <1>5, <1>6, <1>7 DEF LifeInv

LEMMA StartUpKept ==
    ASSUME LifeInv, perform_ifup \/ rfkill_open \/ wait_for_rfkill \/ TurnEnds
    PROVE  LifeInv'
<1>1. radio \in RadioState /\ left \in 0 .. Disturbances /\ ifch \in IfchState
    BY DEF LifeInv, Shape
<1>2. CASE perform_ifup
  <2>1. CASE MasterExits /\ Disturbed /\ UNCHANGED <<ifch, sockd>>
    BY <1>1, <1>2, <2>1, ExitKept, DisturbedLeft DEF perform_ifup
  <2>2. CASE /\ MasterGoes(IF radio.blocked THEN "rfkill_open" ELSE "spawn_ifch")
             /\ UNCHANGED <<clientIdVars, left, radio, ifch, sockd>>
    BY <1>1, <1>2, <2>2, GoesKept DEF perform_ifup, clientIdVars, BeforeIfch
  <2> QED
    BY <1>2, <2>1, <2>2 DEF perform_ifup
<1>3. CASE rfkill_open
  <2>1. CASE MasterExits /\ Disturbed /\ UNCHANGED <<ifch, sockd>>
    BY <1>1, <1>3, <2>1, ExitKept, DisturbedLeft DEF rfkill_open
  <2>2. CASE /\ MasterGoes("rfkill") /\ radio' = [radio EXCEPT !.open = TRUE]
             /\ UNCHANGED <<clientIdVars, left, ifch, sockd>>
    <3>1. radio' \in RadioState
      BY <1>1, <2>2, ZenonT(60) DEF RadioState
    <3> QED
      BY <1>3, <2>2, <3>1, GoesKept DEF rfkill_open, clientIdVars, BeforeIfch
  <2> QED
    BY <1>3, <2>1, <2>2 DEF rfkill_open
<1>4. CASE wait_for_rfkill /\ MasterExits /\ Disturbed
    BY <1>1, <1>4, ExitKept, DisturbedLeft DEF wait_for_rfkill
<1>5. CASE wait_for_rfkill /\ ~(MasterExits /\ Disturbed)
  <2>1. radio' \in RadioState
    <3>1. Tail(radio.q) \in Events
      BY <1>1, <1>5 DEF wait_for_rfkill, RadioState, Events
    <3> QED
      BY <1>1, <1>5, <3>1, NoEvents, ZenonT(60) DEF wait_for_rfkill, RadioState
  <2>2. CASE MasterGoes("spawn_ifch")
    BY <1>5, <2>1, <2>2, GoesKept DEF wait_for_rfkill, clientIdVars, BeforeIfch
  <2>3. CASE UNCHANGED master
    <3>1. Shape'
      BY <1>5, <2>1, <2>3 DEF LifeInv, Shape, wait_for_rfkill
    <3>2. UNCHANGED <<boot, master, ifch, sockd, left>>
      BY <1>5, <2>3 DEF wait_for_rfkill, clientIdVars
    <3> QED
      BY <3>1, <3>2 DEF LifeInv, Settled, RequestInStep, AnswerInStep,
         TrustedFilterIsLocked, Undisturbed, Alive, AsksForCarrier
  <2> QED
    BY <1>5, <2>2, <2>3 DEF wait_for_rfkill
<1>6. CASE TurnEnds
    BY <1>1, <1>6, GoesKept DEF TurnEnds, clientIdVars, BeforeIfch
<1> QED
    BY <1>2, <1>3, <1>4, <1>5, <1>6

-----------------------------------------------------------------------------
(* Identifiers, other instances, and forks *)

LEMMA HaveGoesOn ==
    ASSUME boot \in [Instances -> BootState], NEW i \in Instances, NEW data,
           Have(i, data)
    PROVE  boot'[i].pc \in {"read", "done"} /\ \A j \in Instances \ {i} : boot'[j] = boot[j]
<1> DEFINE next == [boot[i] EXCEPT !.pc = "read", !.key = "duid", !.iaid = data]
<1>1. boot[i] \in BootState
    OBVIOUS
<1>2. next.pc = "read" /\ Booted.pc = "done"
    BY <1>1 DEF BootState, Booted, Off
<1>3. boot' = [boot EXCEPT ![i] = next] \/ boot' = [boot EXCEPT ![i] = Booted]
    BY DEF Have
<1> HIDE DEF next
<1> QED
    BY <1>2, <1>3

LEMMA StoringSteps ==
    ASSUME boot \in [Instances -> BootState], NEW i \in Instances,
           ClientIdStep(i) \/ Killed(i)
    PROVE  /\ boot[i].pc \in {"read", "create", "write"}
           /\ \A j \in Instances \ {i} : boot'[j] = boot[j]
           /\ left' = left \/ Disturbed
           /\ boot'[i].pc = "off" => Disturbed
<1>1. ASSUME Dies(i) PROVE \A j \in Instances \ {i} : boot'[j] = boot[j]
    BY <1>1 DEF Dies
<1>2. CASE Killed(i)
    BY <1>1, <1>2 DEF Killed
<1>3. CASE OpenForReading(i)
  <2>1. CASE \E g \in Contents(boot[i].key) \ {<<>>} : boot' = [boot EXCEPT ![i] = Keep(@, g)] /\ left' = left
    <3> PICK g \in Contents(boot[i].key) \ {<<>>} : boot' = [boot EXCEPT ![i] = Keep(@, g)]
      BY <2>1, ZenonT(60)
    <3>1. boot[i] \in BootState
      OBVIOUS
    <3>2. Keep(boot[i], g).pc = "create"
      BY <3>1 DEF Keep, BootState
    <3> QED
      BY <1>3, <2>1, <3>2 DEF OpenForReading
  <2> QED
    BY <1>1, <1>3, <2>1, HaveGoesOn DEF OpenForReading
<1>4. CASE OpenForWriting(i)
  <2>1. CASE boot' = [boot EXCEPT ![i].pc = "write"] /\ left' = left
    <3> DEFINE next == [boot[i] EXCEPT !.pc = "write"]
    <3>1. boot[i] \in BootState
      OBVIOUS
    <3>2. next.pc = "write" /\ boot' = [boot EXCEPT ![i] = next]
      BY <2>1, <3>1 DEF BootState
    <3> HIDE DEF next
    <3> QED
      BY <1>4, <2>1, <3>2 DEF OpenForWriting
  <2> QED
    BY <1>1, <1>4, <2>1 DEF OpenForWriting
<1>5. CASE Write(i)
    BY <1>1, <1>5, HaveGoesOn DEF Write
<1> QED
    BY <1>2, <1>3, <1>4, <1>5 DEF ClientIdStep

\* Nothing happens to the processes of this instance.
LEMMA OthersKept ==
    ASSUME LifeInv, UNCHANGED processVars, boot'[Me].pc = boot[Me].pc,
           left' = left \/ Disturbed
    PROVE  LifeInv'
<1>1. UNCHANGED <<master, ifch, sockd, radio>>
    BY DEF processVars
<1>2. left \in 0 .. Disturbances
    BY DEF LifeInv, Shape
<1>3. left' \in 0 .. Disturbances /\ (left' = Disturbances => left' = left)
    BY <1>2, DisturbedLeft
<1>4. Shape'
    BY <1>1, <1>3 DEF LifeInv, Shape
<1> QED
    BY <1>1, <1>3, <1>4 DEF LifeInv, Settled, RequestInStep, AnswerInStep,
       TrustedFilterIsLocked, Undisturbed, Alive, AsksForCarrier

LEMMA StoringKept ==
    ASSUME LifeInv, boot \in [Instances -> BootState], NEW i \in Instances,
           StoringIdentifier(i)
    PROVE  LifeInv'
<1>1. /\ boot[i].pc \in {"read", "create", "write"}
      /\ \A j \in Instances \ {i} : boot'[j] = boot[j]
      /\ left' = left \/ Disturbed
      /\ boot'[i].pc = "off" => Disturbed
    BY StoringSteps DEF StoringIdentifier
<1>2. UNCHANGED <<ifch, sockd, radio>>
    BY DEF StoringIdentifier
<1>3. CASE i # Me
    BY <1>1, <1>2, <1>3, MeAssumption, OthersKept DEF StoringIdentifier, processVars
<1>4. CASE i = Me
  <2>1. master.pc \in {"off", "ifup"}
    BY <1>1, <1>4 DEF LifeInv, Settled
  <2>2. left' \in 0 .. Disturbances /\ (left' = Disturbances => left' = left)
    BY <1>1, DisturbedLeft DEF LifeInv, Shape
  <2>3. master' = master \/ (master' = Gone /\ left' # Disturbances)
    BY <1>1, <1>4, DisturbedLeft DEF StoringIdentifier, LifeInv, Shape
  <2>4. Gone \in MasterState /\ Gone.pc = "off" /\ ~Gone.listen.using_bpf
    BY DEF Gone, MasterState, NoSocket, Sockets
  <2>5. Shape'
    BY <1>2, <2>2, <2>3, <2>4 DEF LifeInv, Shape
  <2>6. (Settled /\ RequestInStep /\ AnswerInStep)'
    BY <1>2, <2>1, <2>3, <2>4 DEF LifeInv, Settled, RequestInStep, AnswerInStep
  <2>7. TrustedFilterIsLocked'
    BY <2>3, <2>4 DEF LifeInv, TrustedFilterIsLocked
  <2>8. Undisturbed'
    BY <1>2, <2>2, <2>3 DEF LifeInv, Undisturbed, Alive, AsksForCarrier
  <2> QED
    BY <2>5, <2>6, <2>7, <2>8 DEF LifeInv
<1> QED
    BY <1>3, <1>4

LEMMA MainKept ==
    ASSUME LifeInv, boot \in [Instances -> BootState], NEW configured \in BOOLEAN,
           main(configured)
    PROVE  LifeInv'
<1>1. master' = [Gone EXCEPT !.pc = "ifup"] /\ ifch' = NoIfch /\ sockd' = NoSockd
    BY DEF main
<1>2. /\ master' \in MasterState /\ master'.pc = "ifup" /\ master'.sigs = {}
      /\ ~master'.listen.using_bpf /\ ~master'.decided
    BY <1>1, ZenonT(60) DEF Gone, MasterState, NoSocket, Sockets
<1>3. /\ ifch' \in IfchState /\ ifch'.st = "none" /\ ifch'.q = "empty"
      /\ sockd' \in SockdState /\ sockd'.st = "none"
      /\ sockd'.req = <<>> /\ sockd'.rep = <<>>
    BY <1>1 DEF NoIfch, NoSockd, IfchState, SockdState
<1>4. Shape'
    BY <1>2, <1>3 DEF LifeInv, Shape, main
<1> QED
    BY <1>2, <1>3, <1>4 DEF LifeInv, Settled, RequestInStep, AnswerInStep,
       TrustedFilterIsLocked, Undisturbed, BeforeIfch

LEMMA SpawnKept ==
    ASSUME LifeInv, spawn_ifch \/ spawn_sockd
    PROVE  LifeInv'
<1>1. /\ master \in MasterState /\ left \in 0 .. Disturbances
      /\ ifch \in IfchState /\ sockd \in SockdState /\ radio \in RadioState
    BY DEF LifeInv, Shape
<1>2. CASE MasterExits /\ Disturbed /\ UNCHANGED <<ifch, sockd>>
    BY <1>1, <1>2, ExitKept, DisturbedLeft DEF spawn_ifch, spawn_sockd
<1>3. CASE /\ master.pc = "spawn_ifch" /\ ifch' = [NoIfch EXCEPT !.st = "starting"]
           /\ MasterGoes("spawn_sockd")
           /\ UNCHANGED <<clientIdVars, left, radio, sockd>>
  <2>1. /\ master' \in MasterState /\ master'.pc = "spawn_sockd"
        /\ master'.sigs = master.sigs
        /\ master'.decided = master.decided /\ master'.listen = master.listen
    BY <1>1, <1>3, ZenonT(60) DEF MasterGoes, MasterState
  <2>2. ifch' \in IfchState /\ ifch'.st = "starting" /\ ifch'.q = "empty"
    BY <1>3 DEF NoIfch, IfchState
  <2>3. Shape'
    BY <1>1, <1>3, <2>1, <2>2 DEF Shape
  <2>4. (Settled /\ RequestInStep /\ AnswerInStep /\ TrustedFilterIsLocked)'
    BY <1>3, <2>1 DEF LifeInv, Settled, RequestInStep, AnswerInStep,
       TrustedFilterIsLocked, clientIdVars
  <2>5. Undisturbed'
    BY <1>3, <2>1, <2>2 DEF LifeInv, Undisturbed, BeforeIfch, Alive
  <2> QED
    BY <2>3, <2>4, <2>5 DEF LifeInv
<1>4. CASE /\ master.pc = "spawn_sockd" /\ sockd' = [NoSockd EXCEPT !.st = "starting"]
           /\ MasterGoes("ndhc_main")
           /\ UNCHANGED <<clientIdVars, left, radio, ifch>>
  <2>1. /\ master' \in MasterState /\ master'.pc = "ndhc_main"
        /\ master'.sigs = master.sigs
        /\ master'.decided = master.decided /\ master'.listen = master.listen
    BY <1>1, <1>4, ZenonT(60) DEF MasterGoes, MasterState
  <2>2. /\ sockd' \in SockdState /\ sockd'.st = "starting"
        /\ sockd'.req = <<>> /\ sockd'.rep = <<>>
    BY <1>4 DEF NoSockd, SockdState
  <2>3. Shape'
    BY <1>1, <1>4, <2>1, <2>2 DEF Shape
  <2>4. (Settled /\ RequestInStep /\ AnswerInStep /\ TrustedFilterIsLocked)'
    BY <1>4, <2>1, <2>2 DEF LifeInv, Settled, RequestInStep, AnswerInStep,
       TrustedFilterIsLocked, clientIdVars
  <2>5. Undisturbed'
    BY <1>4, <2>1, <2>2 DEF LifeInv, Undisturbed, BeforeIfch, Alive
  <2> QED
    BY <2>3, <2>4, <2>5 DEF LifeInv
<1> QED
    BY <1>2, <1>3, <1>4 DEF spawn_ifch, spawn_sockd

-----------------------------------------------------------------------------
(* Calls *)

LEMMA CallIfchKept ==
    ASSUME LifeInv, NEW what \in {"first_carrier", "first_deconfig", "carrier",
                                  "bind", "deconfig"},
           ifchwrite(what), UNCHANGED <<boot, left, sockd, radio>>,
           master.pc \in {"ndhc_main", "deconfig", "loop", "turn"}
    PROVE  LifeInv'
<1>1. master \in MasterState /\ ifch \in IfchState
    BY DEF LifeInv, Shape
<1>2. /\ master' \in MasterState /\ master'.pc \in {"wait_ifch", "refused"}
      /\ master'.sigs = master.sigs
      /\ master'.decided = master.decided /\ master'.listen = master.listen
      /\ Alive(ifch) => master'.pc = "wait_ifch"
    BY <1>1, ZenonT(60) DEF ifchwrite, MasterState
<1>3. /\ ifch' \in IfchState /\ ifch'.st = ifch.st
      /\ Alive(ifch) => ifch'.q = "request"
    BY <1>1 DEF ifchwrite, IfchState
<1>4. Shape'
    BY <1>2, <1>3 DEF LifeInv, Shape
<1>5. (Settled /\ RequestInStep /\ AnswerInStep /\ TrustedFilterIsLocked)'
    BY <1>2 DEF LifeInv, Settled, RequestInStep, AnswerInStep, TrustedFilterIsLocked
<1>6. Undisturbed'
    BY <1>2, <1>3 DEF LifeInv, Undisturbed, BeforeIfch, Alive
<1> QED
    BY <1>4, <1>5, <1>6 DEF LifeInv

LEMMA CallSockdKept ==
    ASSUME LifeInv, NEW c \in Commands, request_sockd_fd(c),
           UNCHANGED <<left, ifch>>, master.pc \in {"work", "turn"}
    PROVE  LifeInv'
<1>1. /\ master \in MasterState /\ sockd \in SockdState /\ left \in 0 .. Disturbances
      /\ ifch \in IfchState /\ radio \in RadioState
    BY DEF LifeInv, Shape
<1>2. CASE ~Alive(sockd)
  <2>1. left # Disturbances
    BY <1>2 DEF LifeInv, Settled, Undisturbed, BeforeIfch
  <2> QED
    BY <1>1, <1>2, <2>1, ExitKept DEF request_sockd_fd
<1>3. CASE Alive(sockd)
  <2>1. /\ master' = [master EXCEPT !.pc = "wait_sockd", !.call = c, !.ready = TRUE]
        /\ sockd' = [sockd EXCEPT !.req = Append(@, Request(c))]
        /\ UNCHANGED <<boot, radio>>
    BY <1>3 DEF request_sockd_fd, clientIdVars
  <2>2. /\ master' \in MasterState /\ master'.pc = "wait_sockd" /\ master'.call = c
        /\ master'.ready /\ master'.sigs = master.sigs
        /\ master'.decided = master.decided
        /\ master'.listen = master.listen
    BY <1>1, <2>1, ZenonT(60) DEF MasterState
  <2>3. sockd.req = <<>> /\ sockd.rep = <<>>
    BY DEF LifeInv, RequestInStep, AnswerInStep
  <2>4. /\ sockd' \in SockdState /\ sockd'.req = <<Request(c)>> /\ sockd'.rep = <<>>
        /\ sockd'.st = sockd.st
    <3> DEFINE r == Request(c)
               reqs == {<<>>} \cup {<<Request(d)>> : d \in Commands}
    <3>1. Append(<<>>, r) = <<r>> /\ <<r>> \in reqs
      OBVIOUS
    <3>2. sockd' = [sockd EXCEPT !.req = <<r>>]
      BY <2>1, <2>3, <3>1
    <3>3. sockd \in [st : {"none", "starting", "ready", "dead"}, req : reqs,
                     rep : {<<>>} \cup {<<x>> : x \in Replies}, buf : {<<>>}]
      BY <1>1 DEF SockdState
    <3> HIDE DEF r, reqs
    <3>4. /\ sockd' \in [st : {"none", "starting", "ready", "dead"}, req : reqs,
                          rep : {<<>>} \cup {<<x>> : x \in Replies}, buf : {<<>>}]
          /\ sockd'.req = <<r>> /\ sockd'.rep = sockd.rep /\ sockd'.st = sockd.st
      BY <3>1, <3>2, <3>3
    <3> QED
      BY <2>3, <3>4 DEF r, reqs, SockdState
  <2>5. Shape'
    BY <1>1, <2>1, <2>2, <2>4 DEF Shape
  <2>6. (Settled /\ RequestInStep /\ AnswerInStep /\ TrustedFilterIsLocked)'
    <3>1. Settled'
      BY <2>1, <2>2 DEF LifeInv, Settled
    <3>2. RequestInStep'
      BY <2>2, <2>4 DEF RequestInStep
    <3>3. AnswerInStep'
      BY <2>4 DEF AnswerInStep
    <3>4. TrustedFilterIsLocked'
      BY <2>2 DEF LifeInv, TrustedFilterIsLocked
    <3> QED
      BY <3>1, <3>2, <3>3, <3>4
  <2>7. Undisturbed'
    BY <2>2, <2>4 DEF LifeInv, Undisturbed, BeforeIfch, Alive
  <2> QED
    BY <2>5, <2>6, <2>7 DEF LifeInv
<1> QED
    BY <1>2, <1>3

LEMMA IfchAnsweredKept ==
    ASSUME LifeInv, IfchAnswered
    PROVE  LifeInv'
<1>1. /\ master \in MasterState /\ ifch \in IfchState /\ left \in 0 .. Disturbances
      /\ master.pc \in {"wait_ifch", "refused"} /\ UNCHANGED <<left, sockd>>
    BY DEF LifeInv, Shape, IfchAnswered
<1>2. ifch' \in IfchState /\ ifch'.st = ifch.st /\ ifch'.q = "empty"
    BY <1>1 DEF IfchAnswered, IfchState
<1>3. CASE MasterExits
  <2>1. master'.pc = "off"
    BY <1>3 DEF MasterExits, MasterEnds, Gone
  <2>2. /\ master.call \in {"first_deconfig", "bind"}
        /\ ~(master.pc = "wait_ifch" /\ ifch.q = "yes")
    <3>1. ASSUME NEW pc \in {"work", "deconfig", "turn", "loop"}, MasterGoes(pc)
          PROVE  FALSE
      <4>1. master'.pc = pc
        BY <1>1, <3>1 DEF MasterGoes, MasterState
      <4> QED
        BY <2>1, <4>1
    <3> QED
      BY <1>3, <3>1 DEF IfchAnswered
  <2>3. left # Disturbances
    BY <1>1, <2>2 DEF LifeInv, Settled, Undisturbed, AsksForCarrier,
       IfchAnswered
  <2> QED
    BY <1>1, <1>2, <1>3, <2>3, ExitKept
<1>4. CASE /\ \E pc \in {"work", "deconfig", "turn", "loop"} : MasterGoes(pc)
           /\ UNCHANGED <<clientIdVars, radio>>
  <2> PICK pc \in {"work", "deconfig", "turn", "loop"} : MasterGoes(pc)
    BY <1>4
  <2>1. /\ master' \in MasterState /\ master'.pc = pc
        /\ master'.sigs = master.sigs
        /\ master'.decided = master.decided /\ master'.listen = master.listen
    BY <1>1, ZenonT(60) DEF MasterGoes, MasterState
  <2>2. Shape'
    BY <1>1, <1>2, <1>4, <2>1 DEF LifeInv, Shape
  <2>3. (Settled /\ RequestInStep /\ AnswerInStep /\ TrustedFilterIsLocked)'
    BY <1>1, <1>4, <2>1 DEF LifeInv, Settled, RequestInStep, AnswerInStep,
       TrustedFilterIsLocked, clientIdVars
  <2>4. Undisturbed'
    BY <1>1, <1>2, <2>1 DEF LifeInv, Undisturbed, BeforeIfch, Alive
  <2> QED
    BY <2>2, <2>3, <2>4 DEF LifeInv
<1> QED
    BY <1>3, <1>4 DEF IfchAnswered

LEMMA SockdAnsweredKept ==
    ASSUME LifeInv, SockdAnswered
    PROVE  LifeInv'
<1>1. /\ master \in MasterState /\ sockd \in SockdState
      /\ master.pc = "wait_sockd" /\ sockd.rep # <<>> /\ UNCHANGED <<left, ifch>>
    BY DEF LifeInv, Shape, SockdAnswered
<1>2. PICK r \in Replies : sockd.rep = <<r>>
    BY <1>1 DEF SockdState
<1>3. Head(<<r>>) = r /\ Tail(<<r>>) = <<>> /\ <<r>>[1] = r
    OBVIOUS
<1>4. r.resp \in Expected(master.call) /\ sockd.req = <<>>
    BY <1>1, <1>2, <1>3 DEF LifeInv, AnswerInStep, RequestInStep
<1>5. r.resp = "L" => r.sock.attached /\ r.sock.locked
    BY <1>1, <1>2, <1>3 DEF LifeInv, AnswerInStep
<1>6. sockd' = [sockd EXCEPT !.rep = <<>>]
    BY <1>2, <1>3 DEF SockdAnswered
<1>7. /\ sockd' \in SockdState /\ sockd'.rep = <<>> /\ sockd'.req = <<>>
      /\ sockd'.st = sockd.st
  <2> DEFINE reqs == {<<>>} \cup {<<Request(d)>> : d \in Commands}
             reps == {<<>>} \cup {<<x>> : x \in Replies}
  <2>1. sockd \in [st : {"none", "starting", "ready", "dead"}, req : reqs,
                   rep : reps, buf : {<<>>}]
    BY <1>1 DEF SockdState
  <2>2. <<>> \in reps
    OBVIOUS
  <2> HIDE DEF reqs, reps
  <2>3. /\ sockd' \in [st : {"none", "starting", "ready", "dead"}, req : reqs,
                        rep : reps, buf : {<<>>}]
        /\ sockd'.rep = <<>> /\ sockd'.req = sockd.req /\ sockd'.st = sockd.st
    BY <1>6, <2>1, <2>2
  <2> QED
    BY <1>4, <2>3 DEF reqs, reps, SockdState
<1> DEFINE socket == [r.sock EXCEPT !.using_bpf = (r.resp = "L")]
           listen == IF master.call = "L" THEN socket ELSE master.listen
           pc == IF master.call = "L" THEN "loop" ELSE "turn"
<1>8. /\ master' = [master EXCEPT !.pc = pc, !.call = "none", !.listen = listen]
      /\ UNCHANGED <<boot, radio>>
    BY <1>2, <1>3, <1>4 DEF SockdAnswered, clientIdVars
<1>9. listen \in Sockets /\ (listen.using_bpf => listen.attached /\ listen.locked)
  <2>1. r.sock \in Sockets
    BY DEF Replies
  <2>2. socket \in Sockets /\ (socket.using_bpf => socket.attached /\ socket.locked)
    BY <1>5, <2>1, ZenonT(60) DEF Sockets
  <2>3. master.listen \in Sockets
    BY <1>1 DEF MasterState
  <2> QED
    BY <2>2, <2>3 DEF LifeInv, TrustedFilterIsLocked
<1> HIDE DEF listen
<1>10. /\ master' \in MasterState /\ master'.pc \in {"loop", "turn"}
       /\ master'.sigs = master.sigs
       /\ master'.decided = master.decided /\ master'.listen = listen
    BY <1>1, <1>8, <1>9, ZenonT(60) DEF MasterState
<1>11. Shape'
    BY <1>1, <1>7, <1>8, <1>10 DEF LifeInv, Shape
<1>12. (Settled /\ RequestInStep /\ AnswerInStep)'
    BY <1>1, <1>7, <1>8, <1>10 DEF LifeInv, Settled, RequestInStep, AnswerInStep
<1>13. TrustedFilterIsLocked'
    BY <1>9, <1>10 DEF TrustedFilterIsLocked
<1>14. Undisturbed'
    BY <1>1, <1>7, <1>10 DEF LifeInv, Undisturbed, BeforeIfch, Alive
<1> QED
    BY <1>11, <1>12, <1>13, <1>14 DEF LifeInv

LEMMA LoopKept ==
    ASSUME LifeInv, \/ signal_dispatch \/ StreamClosed \/ background
                    \/ Terminate \/ BindNothing \/ TurnExits
    PROVE  LifeInv'
<1>1. /\ master \in MasterState /\ left \in 0 .. Disturbances /\ ifch \in IfchState
      /\ radio \in RadioState
    BY DEF LifeInv, Shape
<1>2. CASE signal_dispatch \/ StreamClosed
  <2>1. left # Disturbances
    BY <1>2 DEF LifeInv, Settled, Undisturbed, BeforeIfch, signal_dispatch,
       StreamClosed
  <2> QED
    BY <1>1, <1>2, <2>1, ExitKept DEF signal_dispatch, StreamClosed
<1>3. CASE Terminate /\ ~master.ready
  <2>1. master.pc # "wait_sockd"
    BY <1>3 DEF LifeInv, Settled
  <2> QED
    BY <1>1, <1>3, <2>1, ExitKept, DisturbedLeft DEF Terminate
<1>4. CASE background \/ (Terminate /\ master.ready)
  <2>1. /\ master' \in MasterState /\ master'.pc = master.pc /\ master'.call = master.call
        /\ master'.listen = master.listen /\ master'.ready = master.ready
        /\ master'.decided = master.decided
        /\ background => master'.sigs = {}
    <3>1. CASE background
      BY <1>1, <3>1, ZenonT(60) DEF background, MasterState
    <3>2. CASE Terminate /\ master.ready /\ ~background
      <4> DEFINE s == master.sigs \cup {"TERM"}
      <4>1. s \in SUBSET {"CHLD", "TERM"}
        BY <1>1 DEF MasterState
      <4>2. master' = [master EXCEPT !.sigs = s]
        BY <3>2 DEF Terminate
      <4> HIDE DEF s
      <4> QED
        BY <1>1, <3>2, <4>1, <4>2, ZenonT(60) DEF MasterState
    <3> QED
      BY <1>4, <3>1, <3>2
  <2>2. UNCHANGED <<boot, ifch, sockd, radio>>
    BY <1>4 DEF background, Terminate, clientIdVars
  <2>3. /\ left' \in 0 .. Disturbances
        /\ left' = Disturbances => left' = left /\ background
    BY <1>1, <1>4, DisturbedLeft DEF background, Terminate
  <2>4. Shape'
    BY <2>1, <2>2, <2>3 DEF LifeInv, Shape
  <2>5. (Settled /\ RequestInStep /\ AnswerInStep /\ TrustedFilterIsLocked)'
    BY <2>1, <2>2 DEF LifeInv, Settled, RequestInStep, AnswerInStep,
       TrustedFilterIsLocked
  <2>6. Undisturbed'
    BY <2>1, <2>2, <2>3 DEF LifeInv, Undisturbed, Alive, AsksForCarrier
  <2> QED
    BY <2>4, <2>5, <2>6 DEF LifeInv
<1>5. CASE BindNothing \/ TurnExits
    BY <1>1, <1>5, EndKept DEF BindNothing, TurnExits
<1> QED
    BY <1>2, <1>3, <1>4, <1>5

-----------------------------------------------------------------------------
(* The children *)

\* The master after the end of a child: at most one signal more.
LEMMA Told ==
    ASSUME master \in MasterState,
           master' = IF master.pc = "off" THEN master ELSE SigChld
    PROVE  /\ master' \in MasterState /\ master'.pc = master.pc
           /\ master'.call = master.call /\ master'.ready = master.ready
           /\ master'.listen = master.listen
           /\ master'.decided = master.decided
<1> DEFINE s == IF master.ready /\ ~master.daemon THEN master.sigs \cup {"CHLD"}
                ELSE master.sigs
<1>1. s \in SUBSET {"CHLD", "TERM"}
    BY DEF MasterState
<1>2. SigChld = [master EXCEPT !.sigs = s]
    BY DEF SigChld
<1> HIDE DEF s
<1> QED
    BY <1>1, <1>2 DEF MasterState

LEMMA IfchEndsKept ==
    ASSUME LifeInv, IfchEnds, UNCHANGED <<boot, sockd, radio>>,
           left' \in 0 .. Disturbances, left' # Disturbances \/ master.decided
    PROVE  LifeInv'
<1>1. master \in MasterState /\ ifch \in IfchState
    BY DEF LifeInv, Shape
<1>2. /\ master' \in MasterState /\ master'.pc = master.pc
      /\ master'.call = master.call /\ master'.ready = master.ready
      /\ master'.listen = master.listen
      /\ master'.decided = master.decided
    BY <1>1, Told DEF IfchEnds
<1>3. ifch' \in IfchState
    BY <1>1 DEF IfchEnds, IfchState
<1>4. Shape'
    BY <1>2, <1>3 DEF LifeInv, Shape
<1> QED
    BY <1>2, <1>4 DEF LifeInv, Settled, RequestInStep, AnswerInStep,
       TrustedFilterIsLocked, Undisturbed

\* Answers that sockd sent before it ended can still be read.
LEMMA SockdEndsKept ==
    ASSUME LifeInv, SockdEnds, UNCHANGED <<boot, ifch, radio>>,
           left' \in 0 .. Disturbances, left' # Disturbances \/ master.decided
    PROVE  LifeInv'
<1>1. master \in MasterState /\ sockd \in SockdState
    BY DEF LifeInv, Shape
<1>2. /\ master' \in MasterState /\ master'.pc = master.pc
      /\ master'.call = master.call /\ master'.ready = master.ready
      /\ master'.listen = master.listen
      /\ master'.decided = master.decided
    BY <1>1, Told DEF SockdEnds
<1>3. /\ sockd' \in SockdState /\ sockd'.req = <<>> /\ sockd'.rep = sockd.rep
  <2>1. sockd' = [st |-> "dead", req |-> <<>>, rep |-> sockd.rep, buf |-> <<>>]
    BY ZenonT(60) DEF SockdEnds, NoSockd
  <2> QED
    BY <1>1, <2>1 DEF SockdState
<1>4. Shape'
    BY <1>2, <1>3 DEF LifeInv, Shape
<1> QED
    BY <1>2, <1>3, <1>4 DEF LifeInv, Settled, RequestInStep, AnswerInStep,
       TrustedFilterIsLocked, Undisturbed

LEMMA IfchKept ==
    ASSUME LifeInv, ifch_main \/ ifch_process_client_socket \/ IfchHungup
    PROVE  LifeInv'
<1>1. /\ left \in 0 .. Disturbances /\ ifch \in IfchState
      /\ UNCHANGED <<boot, sockd, radio>>
    BY DEF LifeInv, Shape, ifch_main, ifch_process_client_socket, IfchHungup,
       clientIdVars
<1>2. CASE IfchEnds /\ (Disturbed \/ (UNCHANGED left /\ master.pc = "off" /\ ifch.st = "ready"))
  <2>1. CASE Disturbed
    BY <1>1, <1>2, <2>1, DisturbedLeft, IfchEndsKept
  <2>2. CASE UNCHANGED left /\ master.pc = "off" /\ ifch.st = "ready"
    <3>1. left # Disturbances \/ master.decided
      BY <2>2 DEF LifeInv, Undisturbed, BeforeIfch
    <3> QED
      BY <1>1, <1>2, <2>2, <3>1, IfchEndsKept
  <2> QED
    BY <1>2, <2>1, <2>2
<1>3. CASE /\ UNCHANGED master
           /\ \/ /\ ifch.st = "starting" /\ ifch' = [ifch EXCEPT !.st = "ready"]
                 /\ UNCHANGED left
              \/ /\ ifch.st = "ready" /\ ifch.q = "request"
                 /\ ifch' = [ifch EXCEPT !.q = "yes"] /\ UNCHANGED left
              \/ /\ ifch.st = "ready" /\ ifch.q = "request"
                 /\ ifch' = [ifch EXCEPT !.q = "no"]
                 /\ (AsksForCarrier /\ UNCHANGED left) \/ Disturbed
  <2>1. /\ ifch' \in IfchState /\ ifch'.st \in {"starting", "ready"}
        /\ ifch.st \in {"starting", "ready"}
        /\ ifch'.q # "empty" => ifch.q # "empty"
        /\ ifch'.q = "no" => ifch.q = "no" \/ AsksForCarrier \/ Disturbed
    BY <1>1, <1>3 DEF IfchState
  <2>2. left' \in 0 .. Disturbances /\ (left' = Disturbances => left' = left /\ ~Disturbed)
    BY <1>1, <1>3, DisturbedLeft
  <2>3. Shape'
    BY <1>1, <1>3, <2>1, <2>2 DEF LifeInv, Shape
  <2>4. (Settled /\ RequestInStep /\ AnswerInStep /\ TrustedFilterIsLocked)'
    BY <1>1, <1>3 DEF LifeInv, Settled, RequestInStep, AnswerInStep,
       TrustedFilterIsLocked
  <2>5. Undisturbed'
    BY <1>1, <1>3, <2>1, <2>2 DEF LifeInv, Undisturbed, Alive, AsksForCarrier
  <2> QED
    BY <2>3, <2>4, <2>5 DEF LifeInv
<1>4. Hungup("ifch") => master.pc = "off"
    BY DEF Hungup, Holders, Running
<1> QED
    BY <1>2, <1>3, <1>4 DEF ifch_main, ifch_process_client_socket, IfchHungup

\* A request, read into an empty buffer, is understood and used up.
LEMMA RequestUsedUp ==
    ASSUME NEW c \in Commands
    PROVE  /\ (<<>> \o Request(c))[1] = c
           /\ Understood(<<>> \o Request(c))
           /\ Remaining(<<>> \o Request(c)) = <<>>
<1> DEFINE Bytes == Commands \cup {"ip", "mac"}
           args == CASE c = "u" -> [k \in 1 .. 4 |-> "ip"]
                     [] c = "d" -> [k \in 1 .. 10 |-> IF k <= 4 THEN "ip" ELSE "mac"]
                     [] OTHER -> <<>>
           n == CASE c = "u" -> 4 [] c = "d" -> 10 [] OTHER -> 0
<1>1. args \in Seq(Bytes) /\ Len(args) = n
  <2>1. n \in Nat
    OBVIOUS
  <2>2. args \in [1 .. n -> Bytes]
    OBVIOUS
  <2> HIDE DEF args, n, Bytes
  <2> QED
    BY <2>1, <2>2
<1>2. Request(c) = <<c>> \o args
    BY DEF Request
<1>3. Consumed(c) = 1 + n /\ n \in Nat
    BY DEF Consumed, Commands
<1> HIDE DEF args, n, Bytes
<1>4. <<c>> \in Seq(Bytes) /\ Len(<<c>>) = 1 /\ <<c>>[1] = c
    BY DEF Bytes
<1>5. /\ Request(c) \in Seq(Bytes) /\ Len(Request(c)) = 1 + n
      /\ Request(c)[1] = c
  <2>1. /\ <<c>> \o args \in Seq(Bytes)
        /\ Len(<<c>> \o args) = Len(<<c>>) + Len(args)
        /\ \A i \in 1 .. Len(<<c>>) + Len(args) : (<<c>> \o args)[i] =
                IF i <= Len(<<c>>) THEN <<c>>[i] ELSE args[i - Len(<<c>>)]
    BY <1>1, <1>4, ConcatProperties
  <2>2. 1 \in 1 .. Len(<<c>>) + Len(args)
    BY <1>1, <1>3, <1>4
  <2> QED
    BY <1>1, <1>2, <1>4, <2>1, <2>2
<1>6. <<>> \o Request(c) = Request(c)
    BY <1>5, ConcatEmptySeq
<1>7. Understood(Request(c))
    BY <1>3, <1>5 DEF Understood
<1>8. Remaining(Request(c)) = <<>>
  <2>1. Len(Request(c)) - Consumed(Request(c)[1]) = 0
    BY <1>3, <1>5
  <2>2. SubSeq(Request(c), 1, 0) = <<>>
    BY SubSeqEmpty
  <2> QED
    BY <2>1, <2>2 DEF Remaining
<1> QED
    BY <1>5, <1>6, <1>7, <1>8

\* What sockd reports of a socket is an answer to the request.
LEMMA ResponseFits ==
    ASSUME NEW c \in Commands, NEW s \in Created(c)
    PROVE  /\ s \in Sockets
           /\ Response(c, s.using_bpf) \in Expected(c)
           /\ Response(c, s.using_bpf) \in {"L", "l", "A", "a", "D", "d", "s", "u"}
           /\ Response(c, s.using_bpf) = "L" => s.attached /\ s.locked
<1>1. s \in Sockets
    BY DEF Commands, Created, create_raw_listen_socket, create_raw_broadcast_socket,
       create_raw_socket, create_udp_socket, create_arp_basic_socket,
       create_arp_defense_socket, arp_set_bpf
<1>2. /\ Response(c, s.using_bpf) \in Expected(c)
      /\ Response(c, s.using_bpf) \in {"L", "l", "A", "a", "D", "d", "s", "u"}
      /\ Response(c, s.using_bpf) = "L" => c = "L" /\ s.using_bpf
    BY DEF Commands, Response, Expected
<1>3. ASSUME c = "L", s.using_bpf PROVE s.attached /\ s.locked
    BY <1>1, <1>3 DEF Created, create_raw_listen_socket, create_raw_socket, Sockets
<1> QED
    BY <1>1, <1>2, <1>3

\* sockd serves a request: one answer takes its place, or sockd ends.
LEMMA ServedKept ==
    ASSUME LifeInv, sockd_process_client_socket
    PROVE  LifeInv'
<1>1. /\ left \in 0 .. Disturbances /\ sockd \in SockdState /\ master \in MasterState
      /\ sockd.st = "ready" /\ sockd.req # <<>> /\ UNCHANGED <<boot, ifch, radio>>
    BY DEF LifeInv, Shape, sockd_process_client_socket, clientIdVars
<1> DEFINE c == master.call
           buf == <<>> \o Request(c)
<1>2. /\ master.pc = "wait_sockd" /\ sockd.rep = <<>> /\ sockd.req = <<Request(c)>>
      /\ c \in Commands /\ sockd.buf = <<>>
    BY <1>1 DEF LifeInv, RequestInStep, Settled, SockdState
<1>3. buf[1] = c /\ Understood(buf) /\ Remaining(buf) = <<>>
    BY <1>2, RequestUsedUp
<1>4. execute_sockd(buf)
  <2>1. Head(<<Request(c)>>) = Request(c)
    OBVIOUS
  <2>2. sockd.buf \o Head(sockd.req) = buf
    BY <1>2, <2>1
  <2> QED
    BY <1>3, <2>2, ZenonT(60) DEF sockd_process_client_socket
<1> HIDE DEF buf
<1>5. PICK s \in Created(c) :
        /\ IF s = Sound(c) THEN UNCHANGED left ELSE Disturbed
        /\ IF s.fd /\ master.pc # "off"
           THEN /\ sockd' = [sockd EXCEPT
                               !.req = Tail(@), !.buf = Remaining(buf),
                               !.rep = xfer_fd(@, [resp |-> Response(c, s.using_bpf),
                                                   sock |-> s])]
                /\ UNCHANGED master
           ELSE SockdEnds
    BY <1>3, <1>4, ZenonT(60) DEF execute_sockd
<1>6. /\ s \in Sockets /\ Response(c, s.using_bpf) \in Expected(c)
      /\ Response(c, s.using_bpf) \in {"L", "l", "A", "a", "D", "d", "s", "u"}
      /\ Response(c, s.using_bpf) = "L" => s.attached /\ s.locked
    BY <1>2, ResponseFits
<1>7. Sound(c).fd
    BY DEF Sound
<1>8. CASE ~s.fd
  <2>1. Disturbed
    BY <1>5, <1>7, <1>8
  <2> QED
    BY <1>1, <1>5, <1>8, <2>1, DisturbedLeft, SockdEndsKept
<1>9. CASE s.fd
  <2> DEFINE r == [resp |-> Response(c, s.using_bpf), sock |-> s]
  <2>1. /\ r \in Replies /\ r.resp \in Expected(c)
        /\ r.resp = "L" => r.sock.attached /\ r.sock.locked
    BY <1>6 DEF Replies
  <2> HIDE DEF r
  <2>2. Tail(<<Request(c)>>) = <<>> /\ Append(<<>>, r) = <<r>> /\ <<r>>[1] = r
    OBVIOUS
  <2>3. sockd' = [sockd EXCEPT !.req = <<>>, !.buf = <<>>, !.rep = <<r>>] /\ UNCHANGED master
    BY <1>2, <1>3, <1>5, <1>9, <2>2 DEF xfer_fd, r
  <2>4. /\ sockd' \in SockdState /\ sockd'.req = <<>> /\ sockd'.rep = <<r>>
        /\ sockd'.st = "ready"
    <3> DEFINE reqs == {<<>>} \cup {<<Request(d)>> : d \in Commands}
               reps == {<<>>} \cup {<<x>> : x \in Replies}
    <3>1. sockd \in [st : {"none", "starting", "ready", "dead"}, req : reqs,
                     rep : reps, buf : {<<>>}]
      BY <1>1 DEF SockdState
    <3>2. <<>> \in reqs /\ <<r>> \in reps
      BY <2>1
    <3> HIDE DEF reqs, reps
    <3>3. /\ sockd' \in [st : {"none", "starting", "ready", "dead"}, req : reqs,
                          rep : reps, buf : {<<>>}]
          /\ sockd'.req = <<>> /\ sockd'.rep = <<r>> /\ sockd'.st = "ready"
      BY <1>1, <2>3, <3>1, <3>2, ZenonT(60)
    <3> QED
      BY <3>3 DEF reqs, reps, SockdState
  <2>5. left' \in 0 .. Disturbances /\ (left' = Disturbances => left' = left)
    BY <1>1, <1>5, DisturbedLeft
  <2>6. Shape'
    BY <1>1, <2>3, <2>4, <2>5 DEF LifeInv, Shape
  <2>7. (Settled /\ RequestInStep /\ TrustedFilterIsLocked)'
    BY <1>1, <2>3, <2>4 DEF LifeInv, Settled, RequestInStep, TrustedFilterIsLocked
  <2>8. AnswerInStep'
    BY <1>2, <2>1, <2>2, <2>3, <2>4 DEF AnswerInStep
  <2>9. Undisturbed'
    BY <1>1, <2>3, <2>4, <2>5 DEF LifeInv, Undisturbed, Alive, AsksForCarrier
  <2> QED
    BY <2>6, <2>7, <2>8, <2>9 DEF LifeInv
<1> QED
    BY <1>8, <1>9

LEMMA SockdKept ==
    ASSUME LifeInv, sockd_main \/ SockdHungup
    PROVE  LifeInv'
<1>1. /\ left \in 0 .. Disturbances /\ sockd \in SockdState
      /\ UNCHANGED <<boot, ifch, radio>>
    BY DEF LifeInv, Shape, sockd_main, SockdHungup, clientIdVars
<1>2. CASE SockdEnds /\ Disturbed
    BY <1>1, <1>2, DisturbedLeft, SockdEndsKept
<1>3. CASE SockdHungup
  <2>1. master.pc = "off"
    BY <1>3 DEF SockdHungup, Hungup, Holders, Running
  <2>2. left # Disturbances \/ master.decided
    BY <1>3, <2>1 DEF LifeInv, Undisturbed, BeforeIfch, SockdHungup
  <2> QED
    BY <1>1, <1>3, <2>2, SockdEndsKept DEF SockdHungup
<1>4. CASE /\ sockd.st = "starting" /\ sockd' = [sockd EXCEPT !.st = "ready"]
           /\ UNCHANGED <<master, left>>
  <2>1. /\ sockd' \in SockdState /\ sockd'.st = "ready"
        /\ sockd'.req = sockd.req /\ sockd'.rep = sockd.rep
    BY <1>1, <1>4 DEF SockdState
  <2>2. Shape'
    BY <1>1, <1>4, <2>1 DEF LifeInv, Shape
  <2>3. (Settled /\ RequestInStep /\ AnswerInStep /\ TrustedFilterIsLocked)'
    BY <1>1, <1>4, <2>1 DEF LifeInv, Settled, RequestInStep, AnswerInStep,
       TrustedFilterIsLocked
  <2>4. Undisturbed'
    BY <1>1, <1>4, <2>1 DEF LifeInv, Undisturbed, Alive, AsksForCarrier
  <2> QED
    BY <2>2, <2>3, <2>4 DEF LifeInv
<1> QED
    BY <1>2, <1>3, <1>4 DEF sockd_main

LEMMA OutsideKept ==
    ASSUME LifeInv, RadioSwitched \/ ChildKilled
    PROVE  LifeInv'
<1>1. /\ left \in 0 .. Disturbances /\ radio \in RadioState /\ boot' = boot
      /\ Disturbed
    BY DEF LifeInv, Shape, RadioSwitched, ChildKilled, clientIdVars
<1>2. left' \in 0 .. Disturbances /\ left' # Disturbances
    BY <1>1, DisturbedLeft
<1>3. CASE ChildKilled
    BY <1>1, <1>2, <1>3, IfchEndsKept, SockdEndsKept, SMTT(30) DEF ChildKilled
<1>4. CASE RadioSwitched
  <2> DEFINE e == IF radio.blocked THEN "unblocked" ELSE "blocked"
             q == IF radio.open THEN Append(radio.q, e) ELSE radio.q
  <2>1. radio.q \in Events
    BY <1>1 DEF RadioState
  <2>2. q \in Events
    BY <2>1 DEF Events
  <2>3. radio' = [radio EXCEPT !.blocked = ~@, !.q = q]
    BY <1>4 DEF RadioSwitched
  <2> HIDE DEF q
  <2>4. radio' \in RadioState
    BY <1>1, <2>2, <2>3, ZenonT(60) DEF RadioState
  <2>5. UNCHANGED <<master, ifch, sockd>>
    BY <1>4 DEF RadioSwitched
  <2>6. Shape'
    BY <1>2, <2>4, <2>5 DEF LifeInv, Shape
  <2> QED
    BY <1>1, <1>2, <2>5, <2>6 DEF LifeInv, Settled, RequestInStep, AnswerInStep,
       TrustedFilterIsLocked, Undisturbed
<1> QED
    BY <1>3, <1>4

-----------------------------------------------------------------------------
(* Theorems *)

LEMMA LifeNext == ASSUME LifeInv, StableInv, [Next]_vars PROVE LifeInv'
<1>1. boot \in [Instances -> BootState]
    BY DEF StableInv, ClientIdShape
<1>2. CASE UNCHANGED vars
    BY <1>2, OthersKept DEF vars, processVars, clientIdVars
<1>3. CASE \E configured \in BOOLEAN : main(configured)
    BY <1>1, <1>3, MainKept
<1>4. CASE StoringIdentifier(Me)
    BY <1>1, <1>4, MeAssumption, StoringKept
<1>5. CASE perform_ifup \/ rfkill_open \/ wait_for_rfkill \/ TurnEnds
    BY <1>5, StartUpKept
<1>6. CASE spawn_ifch \/ spawn_sockd
    BY <1>6, SpawnKept
<1>7. CASE \/ ndhc_main \/ FirstDeconfig \/ Turn
           \/ \E what \in {"bind", "deconfig"} : CallIfch(what)
    BY <1>7, CallIfchKept DEF ndhc_main, FirstDeconfig, Turn, CallIfch, clientIdVars
<1>8. CASE SetUpWork \/ \E c \in Commands : CallSockd(c)
  <2>1. "L" \in Commands
    BY DEF Commands
  <2> QED
    BY <1>8, <2>1, CallSockdKept DEF SetUpWork, CallSockd
<1>9. CASE IfchAnswered \/ SockdAnswered
    BY <1>9, IfchAnsweredKept, SockdAnsweredKept
<1>10. CASE \/ signal_dispatch \/ StreamClosed \/ background \/ Terminate
            \/ BindNothing \/ TurnExits
    BY <1>10, LoopKept
<1>11. CASE ifch_main \/ ifch_process_client_socket \/ IfchHungup
    BY <1>11, IfchKept
<1>12. CASE sockd_main \/ sockd_process_client_socket \/ SockdHungup
    BY <1>12, SockdKept, ServedKept
<1>13. ASSUME NEW i \in Instances \ {Me},
              OtherStarts(i) \/ OtherStops(i) \/ StoringIdentifier(i)
       PROVE  LifeInv'
  <2>1. CASE OtherStarts(i)
    BY <1>1, <1>13, <2>1, MeAssumption, OthersKept DEF OtherStarts, get_clientid
  <2>2. CASE OtherStops(i)
    BY <1>1, <1>13, <2>2, MeAssumption, OthersKept DEF OtherStops, Dies
  <2> QED
    BY <1>1, <1>13, <2>1, <2>2, StoringKept
<1>14. CASE RadioSwitched \/ ChildKilled
    BY <1>14, OutsideKept
<1> QED
    BY <1>2, <1>3, <1>4, <1>5, <1>6, <1>7, <1>8, <1>9, <1>10, <1>11, <1>12, <1>13,
       <1>14 DEF Next, MasterStep

\* In every reachable state the calls are in step with their answers
\* (request_sockd_fd, ifchwrite and the handlers of the children).
THEOREM CallsInStep == Spec => [](LifeInv /\ StableInv)
<1>1. Init => LifeInv /\ StableInv
    BY LifeInit, StableInit
<1>2. LifeInv /\ StableInv /\ [Next]_vars => (LifeInv /\ StableInv)'
    BY LifeNext, StableNext
<1> QED
    BY <1>1, <1>2, PTL DEF Spec

\* The variables keep their types; in particular no queue between the master
\* and sockd ever holds a second datagram (request_sockd_fd).
THEOREM QueuesHoldOne == Spec => []TypeOK
<1>1. ASSUME LifeInv, StableInv PROVE TypeOK
  <2>1. ClientIdTypeOK
    <3>1. ClientIdShape /\ left \in 0 .. Disturbances
      BY <1>1 DEF LifeInv, Shape, StableInv
    <3> QED
      BY <3>1 DEF ClientIdShape, ClientIdTypeOK, BootState
  <2>2. master \in MasterState /\ ifch \in IfchState /\ sockd \in SockdState /\ radio \in RadioState
    BY <1>1 DEF LifeInv, Shape
  <2>3. /\ sockd.st \in {"none", "starting", "ready", "dead"}
        /\ sockd.req \in {<<>>} \cup {<<Request(c)>> : c \in Commands}
        /\ sockd.rep \in {<<>>} \cup {<<r>> : r \in Replies}
    BY <2>2 DEF SockdState
  <2>4. Len(sockd.req) <= 1
    <3>1. CASE sockd.req = <<>>
      BY <3>1
    <3>2. CASE \E c \in Commands : sockd.req = <<Request(c)>>
      <4> PICK c \in Commands : sockd.req = <<Request(c)>>
        BY <3>2
      <4> DEFINE r == Request(c)
      <4>1. Len(<<r>>) = 1
        OBVIOUS
      <4> QED
        BY <4>1
    <3> QED
      BY <2>3, <3>1, <3>2
  <2>5. Len(sockd.rep) <= 1 /\ \A n \in DOMAIN sockd.rep : sockd.rep[n] \in Replies
    <3>1. CASE sockd.rep = <<>>
      BY <3>1
    <3>2. CASE \E r \in Replies : sockd.rep = <<r>>
      <4> PICK r \in Replies : sockd.rep = <<r>>
        BY <3>2
      <4>1. Len(<<r>>) = 1 /\ DOMAIN <<r>> = {1} /\ <<r>>[1] = r
        OBVIOUS
      <4> QED
        BY <4>1
    <3> QED
      BY <2>3, <3>1, <3>2
  <2>6. /\ radio.blocked \in BOOLEAN /\ radio.open \in BOOLEAN
        /\ radio.q \in Events
    BY <2>2 DEF RadioState
  <2>7. \A n \in DOMAIN radio.q : radio.q[n] \in {"blocked", "unblocked"}
    BY <2>6 DEF Events
  <2> QED
    BY <2>1, <2>2, <2>3, <2>4, <2>5, <2>6, <2>7 DEF TypeOK, MasterState, IfchState
<1> QED
    BY <1>1, CallsInStep, PTL

\* The master relies on the filter of the DHCP socket only when sockd has
\* attached and locked it (create_raw_socket, get_raw_listen_socket).
THEOREM FilterTrustJustified == Spec => []TrustedFilterIsLocked
<1>1. LifeInv /\ StableInv => TrustedFilterIsLocked
    BY DEF LifeInv
<1> QED
    BY <1>1, CallsInStep, PTL

\* Without a failure, a kill or a signal, and unless the client itself decides to
\* end (a bind with nothing to send, no lease, quit), no process ever ends: no
\* request is misread and no answer is taken for another one (sockd's and
\* ifch's process_client_socket, request_sockd_fd).
THEOREM NothingEndsUnprovoked == Spec => []EndsForAReason
<1>1. LifeInv /\ StableInv => EndsForAReason
    BY DEF LifeInv, Undisturbed, EndsForAReason, Alive, BeforeIfch
<1> QED
    BY <1>1, CallsInStep, PTL
=============================================================================
