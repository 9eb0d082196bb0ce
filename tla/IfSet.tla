------------------------------- MODULE IfSet -------------------------------
(***************************************************************************)
(* The rtnetlink half of ndhc-ifch (src/src/ifset.c over src/src/nl.c): one *)
(* action per request that a command sends to the kernel, on a socket whose *)
(* answers queue up, and the kernel's side as operators on `kern`.          *)
(*                                                                          *)
(* A broadcast address is a function of address and prefix length, because  *)
(* the command parser never hands the server's one over (ifchd-parse.rl:64  *)
(* sets have_ip), so it is left out.  All addresses of the interface fit    *)
(* one datagram of a dump.                                                  *)
(***************************************************************************)
EXTENDS Naturals, Sequences, FiniteSets

CONSTANTS
    IPs,        \* addresses a server may lease
    NoIP,       \* 0.0.0.0
    NoGw,       \* no default route
    Gws,        \* routers
    Previous,   \* addresses an earlier program may have left
    MaxRefused  \* addresses the kernel may refuse to delete or to list

VARIABLES
    kern,       \* the interface, as the kernel has it
    sock,       \* answers queued on the netlink socket of the command
    job,        \* the command ifch is executing
    stuck       \* history: addresses the kernel refused to delete or to list

netVars == <<kern, sock, job, stuck>>

-----------------------------------------------------------------------------
(* Prefix lengths *)

\* Bit i, counted from the least significant, of an address of four octets.
Bit(v, i) == (v[4 - (i \div 8)] \div 2 ^ (i % 8)) % 2

bpm37 == <<32, 0, 1, 26, 2, 23, 27, 0, 3, 16, 24, 30, 28, 11, 0, 13, 4, 7, 17,
           0, 25, 22, 31, 15, 29, 10, 12, 6, 0, 21, 14, 9, 5, 20, 8, 19, 18>>

\* 2^k mod 37; the value -v & v is the power of two of v's lowest set bit.
PowerMod37[k \in 0 .. 31] == IF k = 0 THEN 1 ELSE (2 * PowerMod37[k - 1]) % 37

LowestBitMod37(v) ==
    IF \A i \in 0 .. 31 : Bit(v, i) = 0 THEN 0
    ELSE PowerMod37[CHOOSE i \in 0 .. 31 :
                        Bit(v, i) = 1 /\ \A j \in 0 .. i - 1 : Bit(v, j) = 0]

\* Mutant: the entry is read one place too early.
trailz_off_by_one(v) ==
    bpm37[IF LowestBitMod37(v) = 0 THEN 1 ELSE LowestBitMod37(v)]

trailz(v) == bpm37[LowestBitMod37(v) + 1]

subnet4_to_prefixlen(sn) == 32 - trailz(sn)

\* Reference: the mask whose n leading bits are set, octet by octet.
MaskOf(n) ==
    [o \in 1 .. 4 |-> IF n >= 8 * o THEN 255
                      ELSE IF n <= 8 * (o - 1) THEN 0
                      ELSE 256 - 2 ^ (8 * o - n)]

MasksHavePrefixes ==
    \A n \in 0 .. 32 : subnet4_to_prefixlen(MaskOf(n)) = n

-----------------------------------------------------------------------------
(* The kernel *)

\* perm: permanent, of universal scope and with the standard broadcast address.
IfAddrs == [ip : IPs, plen : 0 .. 32, perm : BOOLEAN]

KernelState ==
    [addrs : SUBSET IfAddrs, route : Gws \cup {NoGw}, mtu : Nat,
     up : BOOLEAN, carrier : BOOLEAN, rfkill : BOOLEAN]

\* Routes go with the last address.
KDelAddr(k, a) ==
    [k EXCEPT !.addrs = @ \ {a},
              !.route = IF k.addrs = {a} THEN NoGw ELSE @]

\* Setting 0.0.0.0 succeeds and adds nothing; an equal address is replaced.
KNewAddr(k, a) ==
    IF a.ip = NoIP THEN k
    ELSE [k EXCEPT !.addrs =
            {b \in @ : b.ip # a.ip \/ b.plen # a.plen} \cup {a}]

Running(k) == k.up /\ k.carrier

Ack(n, st) == [t |-> "ACK", seq |-> n, st |-> st, addrs |-> {}]
Done(n) == [t |-> "DONE", seq |-> n, st |-> "ok", addrs |-> {}]
Dump(n, as) == [t |-> "DUMP", seq |-> n, st |-> "ok", addrs |-> as]

\* Answers to a dump request: the end mark comes with the addresses or after.
DumpAnswers(n, as) == {<<Dump(n, as), Done(n)>>, <<Dump(n, as)>>}

\* The cable and the radio change at any time; a blocked radio takes the
\* interface down, and its routes with it.
Cable ==
    /\ kern' = [kern EXCEPT !.carrier = ~@]
    /\ UNCHANGED <<sock, job, stuck>>

Radio ==
    /\ kern' = [kern EXCEPT !.rfkill = ~@, !.up = @ /\ kern.rfkill,
                            !.route = IF kern.rfkill THEN @ ELSE NoGw]
    /\ UNCHANGED <<sock, job, stuck>>

-----------------------------------------------------------------------------
(* Sockets *)

\* Return values: -1, -2 and -3 of rtnl_do_send are "err", "done", "rfkill".
StatusOf(d) == CASE d.t = "ACK" -> d.st [] d.t = "DONE" -> "done"
                 [] OTHER -> "err"

\* The kernel answers request n with st; what is read back is the oldest
\* answer on the socket, whatever it answers.
rtnl_do_send(st) ==
    LET q == Append(sock.q, Ack(sock.seq, st))
    IN  [status |-> StatusOf(Head(q)),
         sock |-> [q |-> Tail(q), seq |-> sock.seq + 1]]

-----------------------------------------------------------------------------
(* Commands *)

Idle == [pc |-> "idle", ip |-> NoIP, plen |-> 0, gw |-> NoGw, mtu |-> 0,
         seq |-> 0, todo |-> {}, already_ok |-> FALSE, ret |-> 0]

Fatal == 99     \* -99
Failed == 1     \* -1

JobState ==
    [pc : {"idle", "getaddr", "recv", "each", "newaddr", "flags", "setlink",
           "router", "mtu", "carrier", "done"},
     ip : IPs \cup {NoIP}, plen : 0 .. 32, gw : Gws \cup {NoGw}, mtu : Nat,
     seq : Nat, todo : SUBSET IfAddrs, already_ok : BOOLEAN,
     ret : {0, Failed, Fatal}]

\* The command ends; its socket is closed.
Finish(r) ==
    /\ job' = [Idle EXCEPT !.pc = "done", !.ret = r]
    /\ sock' = [q |-> <<>>, seq |-> 0]

\* A command that could not open its socket or send its first request.
NoSocket(r) == Finish(r) /\ UNCHANGED <<kern, stuck>>

Wanted == [ip |-> job.ip, plen |-> job.plen, perm |-> TRUE]

ip4_getaddr ==
    /\ job.pc = "getaddr"
    /\ \/ NoSocket(Fatal)
       \/ /\ \E q \in DumpAnswers(sock.seq, kern.addrs) :
                sock' = [q |-> q, seq |-> sock.seq + 1]
          /\ job' = [job EXCEPT !.pc = "recv", !.seq = sock.seq]
          /\ UNCHANGED <<kern, stuck>>
       \/ /\ Cardinality(stuck \cup kern.addrs) <= MaxRefused
          /\ sock' = [q |-> <<Ack(sock.seq, "err")>>, seq |-> sock.seq + 1]
          /\ job' = [job EXCEPT !.pc = "recv", !.seq = sock.seq]
          /\ stuck' = stuck \cup kern.addrs
          /\ UNCHANGED kern

\* The command after a datagram: answers to other requests are skipped, an
\* error ends the loop.
nl_foreach_nlmsg(d) ==
    CASE d.seq # job.seq -> job
      [] d.t = "DUMP" -> [job EXCEPT !.pc = "each", !.todo = d.addrs]
      [] d.t = "ACK" -> [job EXCEPT !.pc = "newaddr"]
      [] OTHER -> job

\* Mutant: the loop ends with the end mark of the dump.
ip4_recv_until_done ==
    /\ job.pc = "recv"
    /\ UNCHANGED <<kern, stuck>>
    /\ LET more == IF sock.q = <<>> THEN FALSE ELSE Head(sock.q).t = "DUMP"
       IN  IF more
           THEN /\ sock' = [sock EXCEPT !.q = Tail(@)]
                /\ job' = [job EXCEPT !.pc = "each", !.todo = Head(sock.q).addrs]
           ELSE /\ job' = [job EXCEPT !.pc = IF job.already_ok THEN "flags"
                                             ELSE "newaddr"]
                /\ UNCHANGED sock

\* One datagram is read, up to the first time that there is none.
ip4_recv ==
    /\ job.pc = "recv"
    /\ UNCHANGED <<kern, stuck>>
    /\ \/ Finish(Fatal)
       \/ /\ sock.q = <<>>
          /\ job' = [job EXCEPT !.pc = IF job.already_ok THEN "flags"
                                       ELSE "newaddr"]
          /\ UNCHANGED sock
       \/ /\ sock.q # <<>>
          /\ sock' = [sock EXCEPT !.q = Tail(@)]
          /\ job' = nl_foreach_nlmsg(Head(sock.q))

\* Each address that is not the wanted one is deleted; a failure is logged.
ipbcpfx_clear_others_do ==
    /\ job.pc = "each"
    /\ \/ /\ job.todo = {}
          /\ job' = [job EXCEPT !.pc = "recv"]
          /\ UNCHANGED <<kern, sock, stuck>>
       \/ \E a \in job.todo :
            IF a = Wanted
            THEN /\ job' = [job EXCEPT !.todo = @ \ {a}, !.already_ok = TRUE]
                 /\ UNCHANGED <<kern, sock, stuck>>
            ELSE /\ job' = [job EXCEPT !.todo = @ \ {a}]
                 /\ \/ /\ kern' = KDelAddr(kern, a)
                       /\ sock' = rtnl_do_send("ok").sock
                       /\ stuck' = stuck \ {a}
                    \/ /\ Cardinality(stuck) < MaxRefused
                       /\ sock' \in {rtnl_do_send("err").sock, sock}
                       /\ stuck' = stuck \cup {a}
                       /\ UNCHANGED kern

ip4_newaddr ==
    /\ job.pc = "newaddr"
    /\ \E st \in {"ok", "err"} :
        /\ kern' = IF st = "ok" THEN KNewAddr(kern, Wanted) ELSE kern
        /\ stuck' = IF st = "ok" THEN stuck \ {Wanted} ELSE stuck
        /\ IF rtnl_do_send(st).status = "ok"
           THEN /\ sock' = rtnl_do_send(st).sock
                /\ job' = [job EXCEPT !.pc = "flags"]
           ELSE Finish(Fatal)

\* The flags are read in a loop that empties the socket.
link_flags_get ==
    /\ job.pc = "flags"
    /\ UNCHANGED <<kern, stuck>>
    /\ \/ Finish(Failed)
       \/ Running(kern) /\ Finish(0)
       \/ /\ ~Running(kern)
          /\ sock' = [q |-> <<>>, seq |-> sock.seq + 1]
          /\ job' = [job EXCEPT !.pc = "setlink"]

link_set_flags ==
    /\ job.pc = "setlink"
    /\ UNCHANGED stuck
    /\ \/ Finish(Failed) /\ UNCHANGED kern
       \/ /\ ~kern.rfkill
          /\ kern' = [kern EXCEPT !.up = TRUE]
          /\ Finish(0)

\* A gateway has to be reachable through an address of the interface.
perform_router ==
    /\ job.pc = "router"
    /\ UNCHANGED stuck
    /\ \/ Finish(Fatal) /\ UNCHANGED kern
       \/ /\ kern.up /\ kern.addrs # {}
          /\ kern' = [kern EXCEPT !.route = job.gw]
          /\ Finish(0)

perform_mtu ==
    /\ job.pc = "mtu"
    /\ UNCHANGED stuck
    /\ \/ Finish(Fatal) /\ UNCHANGED kern
       \/ /\ job.mtu >= 68
          /\ kern' = [kern EXCEPT !.mtu = job.mtu]
          /\ Finish(0)

perform_carrier ==
    /\ job.pc = "carrier"
    /\ UNCHANGED <<kern, stuck>>
    /\ \/ Finish(Failed)
       \/ Running(kern) /\ Finish(0)

NetInit ==
    /\ kern \in [addrs : {{}} \cup {{a} : a \in Previous},
                 route : Gws \cup {NoGw}, mtu : {1500}, up : {TRUE},
                 carrier : {TRUE}, rfkill : {FALSE}]
    /\ kern.addrs = {} => kern.route = NoGw
    /\ sock = [q |-> <<>>, seq |-> 0]
    /\ job = Idle
    /\ stuck = {}

NetStep ==
    \/ ip4_getaddr \/ ip4_recv \/ ipbcpfx_clear_others_do \/ ip4_newaddr
    \/ link_flags_get \/ link_set_flags
    \/ perform_router \/ perform_mtu \/ perform_carrier

-----------------------------------------------------------------------------

NetTypeOK ==
    /\ kern \in KernelState
    /\ job \in JobState
    /\ stuck \subseteq IfAddrs
    /\ sock.seq \in Nat

\* Deletions are sent while the dump that lists the addresses is still being
\* read, and each reads the oldest answer on the socket, which is rarely its
\* own (ifset.c:113, 427); still, once perform_ip_subnet_bcast goes on to the
\* link flags (ifset.c:590), the address it reports as set is on the interface.
AddressSetWhenBelieved ==
    job.pc \in {"flags", "setlink"} =>
        job.ip = NoIP \/ Wanted \in kern.addrs

\* The residues mod 37 that trailz looks up (ifset.c:66) give every one of the 33
\* netmasks the prefix length it stands for.
PrefixOfEveryMask == job.pc = "getaddr" => MasksHavePrefixes
=============================================================================
