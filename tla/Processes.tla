----------------------------- MODULE Processes -----------------------------
(***************************************************************************)
(* The life of the three processes of one ndhc (src/src/ndhc.c, sockd.c,   *)
(* ifchd.c, sys.c): start-up, forks, the calls the master makes to its     *)
(* children, and how each learns that another one has ended.               *)
(*                                                                         *)
(* A call writes a datagram and blocks for the answer.  A socketpair of    *)
(* datagrams tells the caller nothing of a peer that ends; the stream      *)
(* pairs exist for that, and the master looks at them, as at its signals,  *)
(* only between two turns of its event loop.  What ifch does for a request *)
(* is in Ifch; here it answers yes or no.                                  *)
(***************************************************************************)
EXTENDS ClientId, Sockd, FiniteSets

CONSTANTS Me    \* the instance whose processes are followed

ASSUME MeAssumption == Me \in Instances

VARIABLES
    master, \* ndhc-master
    ifch,   \* ndhc-ifch and the datagrams to and from it
    sockd,  \* ndhc-sockd and the datagrams to and from it
    radio   \* the kill switch and the events queued on /dev/rfkill

processVars == <<master, ifch, sockd, radio>>

vars == <<clientIdVars, left, processVars>>

-----------------------------------------------------------------------------

NoSocket == [fd |-> FALSE, attached |-> FALSE, locked |-> FALSE,
             using_bpf |-> FALSE]

\* decided: history, was it a decision of dhcp_handle that ended the master?
Gone == [pc |-> "off", call |-> "none", listen |-> NoSocket, sigs |-> {},
         ready |-> FALSE, daemon |-> FALSE, decided |-> FALSE]

NoIfch == [st |-> "none", q |-> "empty"]

NoSockd == [st |-> "none", req |-> <<>>, rep |-> <<>>, buf |-> <<>>]

Init ==
    /\ ClientIdInit
    /\ master = Gone
    /\ ifch = NoIfch
    /\ sockd = NoSockd
    /\ \E b \in BOOLEAN : radio = [blocked |-> b, open |-> FALSE, q |-> <<>>]

Alive(p) == p.st \in {"starting", "ready"}

\* The ends of a stream pair that a process waits on for a hangup, and who
\* holds the other end.  Children inherit what the master has open at the fork.
\* Mutant: both children are forked once all sockets are made.
HoldersWhenForkedLast(stream) ==
    IF stream = "ifch" THEN {"master", "sockd"} ELSE {"master", "ifch"}

Holders(stream) ==
    IF stream = "ifch" THEN {"master", "sockd"} ELSE {"master"}

Running(p) ==
    CASE p = "master" -> master.pc # "off"
      [] p = "ifch" -> Alive(ifch)
      [] p = "sockd" -> Alive(sockd)

Hungup(stream) == \A p \in Holders(stream) : ~Running(p)

\* The master after the death of a child: signals are blocked and kept only
\* once they are set up, and only the process that forked is told.
SigChld ==
    [master EXCEPT !.sigs = IF master.ready /\ ~master.daemon
                            THEN @ \cup {"CHLD"} ELSE @]

-----------------------------------------------------------------------------
(* main() *)

MasterEnds(decided) ==
    /\ master' = [Gone EXCEPT !.decided = decided]
    /\ boot' = [boot EXCEPT ![Me] = Off]
    /\ radio' = [radio EXCEPT !.open = FALSE, !.q = <<>>]
    /\ UNCHANGED <<disk, ids, raced>>

MasterExits == MasterEnds(FALSE)

MasterGoes(pc) ==
    master' = [master EXCEPT !.pc = pc, !.call = "none"]

\* Started by a user or a supervisor once the processes of the last start
\* are gone; the options and nl_getifdata are in order.
main(configured) ==
    /\ master.pc = "off" /\ ~Alive(ifch) /\ ~Alive(sockd)
    /\ get_clientid(Me, configured)
    /\ master' = [Gone EXCEPT !.pc = "ifup"]
    /\ ifch' = NoIfch /\ sockd' = NoSockd
    /\ UNCHANGED <<radio, left>>

OtherStarts(i) ==
    /\ i # Me
    /\ get_clientid(i, FALSE)
    /\ Disturbed
    /\ UNCHANGED processVars

OtherStops(i) ==
    /\ i # Me /\ boot[i].pc = "done"
    /\ Dies(i)
    /\ UNCHANGED <<disk, ids, raced, left, processVars>>

\* A step of get_clientid, or a kill during it; it ends the master as well.
StoringIdentifier(i) ==
    /\ ClientIdStep(i) \/ Killed(i)
    /\ IF i = Me /\ boot'[Me].pc = "off" THEN master' = Gone
       ELSE UNCHANGED master
    /\ UNCHANGED <<ifch, sockd, radio>>

\* With the radio blocked the interface cannot be set up: -3.  Other failures
\* end the master.
perform_ifup ==
    /\ master.pc = "ifup" /\ boot[Me].pc = "done"
    /\ \/ /\ MasterGoes(IF radio.blocked THEN "rfkill_open" ELSE "spawn_ifch")
          /\ UNCHANGED <<clientIdVars, left, radio>>
       \/ MasterExits /\ Disturbed
    /\ UNCHANGED <<ifch, sockd>>

rfkill_open ==
    /\ master.pc = "rfkill_open"
    /\ \/ /\ MasterGoes("rfkill")
          /\ radio' = [radio EXCEPT !.open = TRUE]
          /\ UNCHANGED <<clientIdVars, left>>
       \/ MasterExits /\ Disturbed
    /\ UNCHANGED <<ifch, sockd>>

\* Mutant: the wrong kind of event is waited for.
wait_for_rfkill_swapped ==
    /\ master.pc = "rfkill" /\ radio.q # <<>>
    /\ IF Head(radio.q) = "blocked" /\ ~radio.blocked
       THEN /\ MasterGoes("spawn_ifch")
            /\ radio' = [radio EXCEPT !.open = FALSE, !.q = <<>>]
       ELSE radio' = [radio EXCEPT !.q = Tail(@)] /\ UNCHANGED master
    /\ UNCHANGED <<clientIdVars, left, ifch, sockd>>

\* An event that ends a block is an occasion to try again.
wait_for_rfkill ==
    /\ master.pc = "rfkill" /\ radio.q # <<>>
    /\ \/ /\ IF Head(radio.q) = "unblocked" /\ ~radio.blocked
             THEN /\ MasterGoes("spawn_ifch")
                  /\ radio' = [radio EXCEPT !.open = FALSE, !.q = <<>>]
             ELSE radio' = [radio EXCEPT !.q = Tail(@)] /\ UNCHANGED master
          /\ UNCHANGED <<clientIdVars, left>>
       \/ Head(radio.q) = "unblocked" /\ MasterExits /\ Disturbed
    /\ UNCHANGED <<ifch, sockd>>

\* The switch is turned; events are queued while the device is open.
RadioSwitched ==
    /\ Disturbed
    /\ radio' = [radio EXCEPT !.blocked = ~@,
                    !.q = IF radio.open
                          THEN Append(@, IF radio.blocked THEN "unblocked"
                                         ELSE "blocked")
                          ELSE @]
    /\ UNCHANGED <<clientIdVars, master, ifch, sockd>>

spawn_ifch ==
    /\ master.pc = "spawn_ifch"
    /\ \/ /\ ifch' = [NoIfch EXCEPT !.st = "starting"]
          /\ MasterGoes("spawn_sockd")
          /\ UNCHANGED <<clientIdVars, left, radio>>
       \/ MasterExits /\ Disturbed /\ UNCHANGED ifch
    /\ UNCHANGED sockd

spawn_sockd ==
    /\ master.pc = "spawn_sockd"
    /\ \/ /\ sockd' = [NoSockd EXCEPT !.st = "starting"]
          /\ MasterGoes("ndhc_main")
          /\ UNCHANGED <<clientIdVars, left, radio>>
       \/ MasterExits /\ Disturbed /\ UNCHANGED sockd
    /\ UNCHANGED ifch

-----------------------------------------------------------------------------
(* Calls to the children *)

\* Writing to an ifch that has ended fails at once: the answer is no.
ifchwrite(what) ==
    IF Alive(ifch)
    THEN /\ master' = [master EXCEPT !.pc = "wait_ifch", !.call = what]
         /\ ifch' = [ifch EXCEPT !.q = "request"]
    ELSE /\ master' = [master EXCEPT !.pc = "refused", !.call = what]
         /\ UNCHANGED ifch

\* Writing to a sockd that has ended ends the master.  Signals are set up
\* before the first request.
request_sockd_fd(c) ==
    IF Alive(sockd)
    THEN /\ master' = [master EXCEPT !.pc = "wait_sockd", !.call = c,
                                     !.ready = TRUE]
         /\ sockd' = [sockd EXCEPT !.req = Append(@, Request(c))]
         /\ UNCHANGED <<clientIdVars, radio>>
    ELSE MasterExits /\ UNCHANGED sockd

\* ndhc_main asks for the carrier before signals are set up; the netlink
\* socket, the lease file and the chroot are in order.
ndhc_main ==
    /\ master.pc = "ndhc_main"
    /\ ifchwrite("first_carrier")
    /\ UNCHANGED <<clientIdVars, left, sockd, radio>>

\* do_ndhc_work up to its loop: the socket for DHCP is opened.
SetUpWork ==
    /\ master.pc = "work"
    /\ request_sockd_fd("L")
    /\ UNCHANGED <<left, ifch>>

\* What the master does with the answer of ifch.
IfchAnswered ==
    /\ \/ master.pc = "wait_ifch" /\ ifch.q \in {"yes", "no"}
       \/ master.pc = "refused"
    /\ ifch' = [ifch EXCEPT !.q = "empty"]
    /\ LET yes == master.pc = "wait_ifch" /\ ifch.q = "yes" IN
       CASE master.call = "first_carrier" ->
              /\ MasterGoes(IF yes THEN "work" ELSE "deconfig")
              /\ UNCHANGED <<clientIdVars, radio>>
         [] master.call = "first_deconfig" ->
              IF yes THEN MasterGoes("work") /\ UNCHANGED <<clientIdVars, radio>>
              ELSE MasterExits
         [] master.call = "bind" ->
              IF yes THEN MasterGoes("turn") /\ UNCHANGED <<clientIdVars, radio>>
              ELSE MasterExits
         [] OTHER ->
              /\ MasterGoes(IF yes THEN "turn" ELSE "loop")
              /\ UNCHANGED <<clientIdVars, radio>>
    /\ UNCHANGED <<left, sockd>>

FirstDeconfig ==
    /\ master.pc = "deconfig"
    /\ ifchwrite("first_deconfig")
    /\ UNCHANGED <<clientIdVars, left, sockd, radio>>

\* The socket arrives, or the master ends over an answer to something else.
SockdAnswered ==
    /\ master.pc = "wait_sockd" /\ sockd.rep # <<>>
    /\ sockd' = [sockd EXCEPT !.rep = Tail(@)]
    /\ LET r == Head(sockd.rep) IN
       IF r.resp \in Expected(master.call)
       THEN /\ master' = [master EXCEPT
                            !.pc = IF master.call = "L" THEN "loop" ELSE "turn",
                            !.call = "none",
                            !.listen = IF master.call = "L"
                                       THEN [r.sock EXCEPT !.using_bpf = r.resp = "L"]
                                       ELSE @]
            /\ UNCHANGED <<clientIdVars, radio>>
       ELSE MasterExits
    /\ UNCHANGED <<left, ifch>>

-----------------------------------------------------------------------------
(* The event loop *)

\* An event of the network or a timeout: every turn asks for the carrier.
Turn ==
    /\ master.pc = "loop"
    /\ ifchwrite("carrier")
    /\ UNCHANGED <<clientIdVars, left, sockd, radio>>

\* Inside dhcp_handle.
CallSockd(c) ==
    /\ master.pc = "turn"
    /\ request_sockd_fd(c)
    /\ UNCHANGED <<left, ifch>>

CallIfch(what) ==
    /\ master.pc = "turn"
    /\ ifchwrite(what)
    /\ UNCHANGED <<clientIdVars, left, sockd, radio>>

\* A lease that brings nothing new leaves ifchange_bind nothing to send, which
\* counts as a failure.
BindNothing ==
    /\ master.pc = "turn"
    /\ MasterEnds(TRUE)
    /\ UNCHANGED <<left, ifch, sockd>>

\* Exits that dhcp_handle decides on: no lease at the start, the carrier lost
\* during the first fingerprint, a lease obtained with "quit".
TurnExits ==
    /\ master.pc = "turn"
    /\ MasterEnds(TRUE)
    /\ UNCHANGED <<left, ifch, sockd>>

TurnEnds ==
    /\ master.pc = "turn"
    /\ MasterGoes("loop")
    /\ UNCHANGED <<clientIdVars, left, ifch, sockd, radio>>

\* daemon(): the process that forked the children exits, its copy goes on.
background ==
    /\ master.pc = "turn" /\ ~master.daemon
    /\ master' = [master EXCEPT !.daemon = TRUE, !.sigs = {}]
    /\ UNCHANGED <<clientIdVars, left, ifch, sockd, radio>>

\* SIGCHLD and SIGTERM both end the master.
signal_dispatch ==
    /\ master.pc = "loop" /\ master.sigs # {}
    /\ MasterExits
    /\ UNCHANGED <<left, ifch, sockd>>

\* Mutant: only SIGCHLD tells of a child's end.
StreamClosedIgnored ==
    /\ master.pc = "loop" /\ "CHLD" \in master.sigs
    /\ MasterExits
    /\ UNCHANGED <<left, ifch, sockd>>

StreamClosed ==
    /\ master.pc = "loop" /\ (~Alive(ifch) \/ ~Alive(sockd))
    /\ MasterExits
    /\ UNCHANGED <<left, ifch, sockd>>

-----------------------------------------------------------------------------
(* ndhc-ifch *)

\* An answer that is written stays in the master's queue.
IfchEnds ==
    /\ ifch' = [st |-> "dead", q |-> IF ifch.q = "request" THEN "empty" ELSE ifch.q]
    /\ master' = IF master.pc = "off" THEN master ELSE SigChld

ifch_main ==
    /\ ifch.st = "starting"
    /\ \/ ifch' = [ifch EXCEPT !.st = "ready"] /\ UNCHANGED <<master, left>>
       \/ IfchEnds /\ Disturbed
    /\ UNCHANGED <<clientIdVars, sockd, radio>>

\* A carrier that is down is no failure; nor is a no that nobody reads.
AsksForCarrier == master.call \in {"first_carrier", "carrier", "none"}

\* Mutant: a request that was refused gets no answer.
ifch_answers_success ==
    /\ ifch.st = "ready" /\ ifch.q = "request"
    /\ IF Hungup("ifch") THEN IfchEnds
       ELSE \E a \in {"yes", "empty"} : ifch' = [ifch EXCEPT !.q = a]
                                        /\ UNCHANGED master
    /\ UNCHANGED <<clientIdVars, left, sockd, radio>>

\* Executes a request, which may fail.  The answer can be written as long as
\* someone holds the other end of the socket, be it only sockd.
ifch_process_client_socket ==
    /\ ifch.st = "ready" /\ ifch.q = "request"
    /\ IF Hungup("ifch") THEN IfchEnds /\ UNCHANGED left
       ELSE /\ \/ ifch' = [ifch EXCEPT !.q = "yes"] /\ UNCHANGED left
               \/ /\ ifch' = [ifch EXCEPT !.q = "no"]
                  /\ IF AsksForCarrier THEN UNCHANGED left ELSE Disturbed
            /\ UNCHANGED master
    /\ UNCHANGED <<clientIdVars, sockd, radio>>

IfchHungup ==
    /\ ifch.st = "ready" /\ Hungup("ifch")
    /\ IfchEnds
    /\ UNCHANGED <<clientIdVars, left, sockd, radio>>

-----------------------------------------------------------------------------
(* ndhc-sockd *)

SockdEnds ==
    /\ sockd' = [NoSockd EXCEPT !.st = "dead", !.rep = sockd.rep]
    /\ master' = IF master.pc = "off" THEN master ELSE SigChld

sockd_main ==
    /\ sockd.st = "starting"
    /\ \/ sockd' = [sockd EXCEPT !.st = "ready"] /\ UNCHANGED <<master, left>>
       \/ SockdEnds /\ Disturbed
    /\ UNCHANGED <<clientIdVars, ifch, radio>>

\* A socket that could not be made cannot be sent either: sockd ends.
execute_sockd(buf) ==
    LET c == buf[1] IN
    \E s \in Created(c) :
        /\ IF s = Sound(c) THEN UNCHANGED left ELSE Disturbed
        /\ IF s.fd /\ master.pc # "off"
           THEN /\ sockd' = [sockd EXCEPT
                               !.req = Tail(@), !.buf = Remaining(buf),
                               !.rep = xfer_fd(@, [resp |-> Response(c, s.using_bpf),
                                                   sock |-> s])]
                /\ UNCHANGED master
           ELSE SockdEnds

sockd_process_client_socket ==
    /\ sockd.st = "ready" /\ sockd.req # <<>>
    /\ LET buf == sockd.buf \o Head(sockd.req)
       IN  IF Understood(buf) THEN execute_sockd(buf)
           ELSE SockdEnds /\ UNCHANGED left
    /\ UNCHANGED <<clientIdVars, ifch, radio>>

SockdHungup ==
    /\ sockd.st = "ready" /\ Hungup("sockd")
    /\ SockdEnds
    /\ UNCHANGED <<clientIdVars, left, ifch, radio>>

-----------------------------------------------------------------------------
(* Signals and kills from outside *)

\* Before signals are set up SIGTERM ends the master at once.
Terminate ==
    /\ master.pc # "off" /\ boot[Me].pc = "done"
    /\ Disturbed
    /\ IF master.ready
       THEN /\ master' = [master EXCEPT !.sigs = @ \cup {"TERM"}]
            /\ UNCHANGED <<clientIdVars, radio>>
       ELSE MasterExits
    /\ UNCHANGED <<ifch, sockd>>

\* SIGTERM for a child, a fatal error of a request, or a kill.
ChildKilled ==
    /\ Disturbed
    /\ \/ Alive(ifch) /\ IfchEnds /\ UNCHANGED sockd
       \/ Alive(sockd) /\ SockdEnds /\ UNCHANGED ifch
    /\ UNCHANGED <<clientIdVars, radio>>

-----------------------------------------------------------------------------

MasterStep ==
    \/ StoringIdentifier(Me)
    \/ perform_ifup \/ rfkill_open \/ wait_for_rfkill
    \/ spawn_ifch \/ spawn_sockd \/ ndhc_main \/ FirstDeconfig \/ SetUpWork
    \/ IfchAnswered \/ SockdAnswered
    \/ TurnEnds

Next ==
    \/ \E configured \in BOOLEAN : main(configured)
    \/ MasterStep
    \/ Turn \/ background \/ BindNothing \/ TurnExits
    \/ \E c \in Commands : CallSockd(c)
    \/ \E what \in {"bind", "deconfig"} : CallIfch(what)
    \/ signal_dispatch \/ StreamClosed
    \/ ifch_main \/ ifch_process_client_socket \/ IfchHungup
    \/ sockd_main \/ sockd_process_client_socket \/ SockdHungup
    \/ \E i \in Instances \ {Me} :
          OtherStarts(i) \/ OtherStops(i) \/ StoringIdentifier(i)
    \/ RadioSwitched \/ Terminate \/ ChildKilled

Spec == Init /\ [][Next]_vars

IfchStep == ifch_main \/ ifch_process_client_socket \/ IfchHungup

SockdStep == sockd_main \/ sockd_process_client_socket \/ SockdHungup

\* Each process runs; the handlers of the master end; epoll reports the ready
\* descriptors in turn, so a hangup is reported however busy the others are.
FairSpec ==
    /\ Spec
    /\ WF_vars(MasterStep) /\ SF_vars(TurnEnds)
    /\ WF_vars(IfchStep) /\ WF_vars(SockdStep)
    /\ SF_vars(signal_dispatch) /\ SF_vars(StreamClosed)

-----------------------------------------------------------------------------

TypeOK ==
    /\ ClientIdTypeOK
    /\ master \in [pc : {"off", "ifup", "rfkill_open", "rfkill", "spawn_ifch",
                         "spawn_sockd", "ndhc_main", "deconfig", "work", "loop",
                         "turn", "wait_ifch", "wait_sockd", "refused"},
                   call : {"none", "first_carrier", "first_deconfig", "carrier",
                           "bind", "deconfig"} \cup Commands,
                   listen : Sockets, sigs : SUBSET {"CHLD", "TERM"},
                   ready : BOOLEAN, daemon : BOOLEAN, decided : BOOLEAN]
    /\ ifch \in [st : {"none", "starting", "ready", "dead"},
                 q : {"empty", "request", "yes", "no"}]
    /\ sockd.st \in {"none", "starting", "ready", "dead"}
    /\ Len(sockd.rep) <= 1 /\ Len(sockd.req) <= 1
    /\ \A n \in DOMAIN sockd.rep : sockd.rep[n] \in Replies
    /\ radio.blocked \in BOOLEAN /\ radio.open \in BOOLEAN
    /\ \A n \in DOMAIN radio.q : radio.q[n] \in {"blocked", "unblocked"}

\* As long as nothing has gone wrong, been refused, been killed or been told to
\* end, no process ends unless dhcp_handle decided to end: whatever requests came
\* before, the master gets an answer of the kind it asked for and the children
\* understand it (request_sockd_fd, ifchwrite, process_client_socket).
EndsForAReason ==
    left = Disturbances /\ ~master.decided =>
        /\ ifch.st # "dead" /\ sockd.st # "dead"
        /\ Alive(ifch) => master.pc # "off"

\* The master leaves the checks of a packet to the filter of the DHCP socket
\* only if sockd has attached and locked that filter (get_raw_listen_socket,
\* create_raw_socket).
TrustedFilterIsLocked ==
    master.listen.using_bpf => master.listen.attached /\ master.listen.locked

\* An unblocked radio ends the wait of the start-up, if the event came after
\* the device was opened (wait_for_rfkill).
StartsAfterRfkill ==
    (master.pc = "rfkill" /\ radio.q # <<>> /\ ~radio.blocked)
        ~> (master.pc # "rfkill" \/ radio.blocked)

\* The master blocked for the answer of a child that ended without one.
WaitsForTheDead ==
    \/ master.pc = "wait_ifch" /\ ~Alive(ifch) /\ ifch.q = "empty"
    \/ master.pc = "wait_sockd" /\ ~Alive(sockd) /\ sockd.rep = <<>>

\* A call returns, unless the child that was called ends before it answers
\* (ifchwrite, request_sockd_fd).
CallsReturn ==
    /\ (master.pc = "wait_ifch") ~> (master.pc # "wait_ifch" \/ WaitsForTheDead)
    /\ (master.pc = "wait_sockd") ~> (master.pc # "wait_sockd" \/ WaitsForTheDead)

\* When a child ends the master ends, whether or not SIGCHLD reached it, unless
\* it waits for that very child (do_ndhc_work's tests for EPOLLHUP).
ChildDeathNoticed ==
    (master.ready /\ (ifch.st = "dead" \/ sockd.st = "dead"))
        ~> (master.pc = "off" \/ WaitsForTheDead)

\* When the master ends, both children end: sockd first, since it holds an end
\* of the stream that ifch watches (spawn_ifch, spawn_sockd).
NoOrphans == (master.pc = "off") ~> (~Alive(ifch) /\ ~Alive(sockd))
=============================================================================
