-------------------------------- MODULE Ifch --------------------------------
(***************************************************************************)
(* ndhc-ifch (src/src/ifchd.c, src/src/ifchd-parse.rl): a datagram of       *)
(* commands is parsed and executed command by command, and answered '+' or  *)
(* '-'.  A fatal error is answered too, and ends the process.               *)
(*                                                                          *)
(* A command is its keyword and its arguments; text is left out, and so are *)
(* the limits of the buffers.  Names hold neither ';' nor NUL.              *)
(***************************************************************************)
EXTENDS IfSet

CONSTANTS
    AllowHostname,  \* allow_hostname
    WriteResolv     \* resolv_conf_fd >= 0

VARIABLES
    wire,       \* the datagram on its way to ifch, or <<>>
    ifch,       \* the process
    resolv,     \* /etc/resolv.conf
    hostname    \* of the machine

ifchVars == <<wire, ifch, resolv, hostname>>

\* reply: the answer on its way to the master.
IfchInit ==
    /\ wire = <<>>
    /\ ifch = [alive |-> TRUE, busy |-> FALSE, cmds |-> <<>>, cmdf |-> FALSE,
               namesvrs |-> <<>>, domains |-> <<>>, reply |-> "none"]
    /\ resolv = [ns |-> <<>>, dom |-> <<>>]
    /\ hostname = <<>>

\* The grammar wants two characters for an MTU, and it is sent in decimal.
WellFormed(c) == c.name = "MTU" => c.arg[1] \in 10 .. 99

\* The command c begins: what is left to do through netlink.
JobOf(c) ==
    CASE c.name = "IP4" ->
            [Idle EXCEPT !.pc = "getaddr", !.ip = c.ip,
                         !.plen = subnet4_to_prefixlen(c.arg)]
      [] c.name = "ROUTER" -> [Idle EXCEPT !.pc = "router", !.gw = c.arg[1]]
      [] c.name = "MTU" -> [Idle EXCEPT !.pc = "mtu", !.mtu = c.arg[1]]
      [] c.name = "CARRIER" -> [Idle EXCEPT !.pc = "carrier"]

\* Mutant: the datagram is only peeked at.
process_client_socket_peeks ==
    /\ ifch.alive /\ ~ifch.busy /\ wire # <<>>
    /\ ifch' = [ifch EXCEPT !.busy = TRUE, !.cmds = wire, !.cmdf = FALSE]
    /\ UNCHANGED <<wire, resolv, hostname, netVars>>

process_client_socket ==
    /\ ifch.alive /\ ~ifch.busy /\ wire # <<>>
    /\ ifch' = [ifch EXCEPT !.busy = TRUE, !.cmds = wire, !.cmdf = FALSE]
    /\ wire' = <<>>
    /\ UNCHANGED <<resolv, hostname, netVars>>

Command(name) == ifch.cmds # <<>> /\ Head(ifch.cmds).name = name

\* The current command returned r; a failure is remembered.
Returned(i, r) ==
    [i EXCEPT !.cmds = Tail(@), !.cmdf = @ \/ r # 0]

\* execute_buffer returns -99: '-' is sent and the process ends.
Suicide(i) ==
    [i EXCEPT !.alive = FALSE, !.busy = FALSE, !.cmds = <<>>, !.reply = "-"]

Dispatch ==
    /\ job.pc = "idle" /\ ifch.cmds # <<>>
    /\ Head(ifch.cmds).name \in {"IP4", "ROUTER", "MTU", "CARRIER"}
    /\ IF WellFormed(Head(ifch.cmds))
       THEN job' = JobOf(Head(ifch.cmds)) /\ UNCHANGED ifch
       ELSE ifch' = Suicide(ifch) /\ UNCHANGED job
    /\ UNCHANGED <<kern, sock, stuck, wire, resolv, hostname>>

Dispatched ==
    /\ job.pc = "done"
    /\ job' = Idle
    /\ ifch' = IF job.ret = Fatal THEN Suicide(ifch) ELSE Returned(ifch, job.ret)
    /\ UNCHANGED <<kern, sock, stuck, wire, resolv, hostname>>

-----------------------------------------------------------------------------
(* resolv.conf *)

UpTo(s, n) == SubSeq(s, 1, IF Len(s) < n THEN Len(s) ELSE n)

\* Mutant: the domains are forgotten when they have been written.
FirstsOfNameservers(i) ==
    [i EXCEPT !.namesvrs = UpTo(@, 1), !.domains = <<>>]

\* Writing puts a NUL in place of each comma of the lists it reads, so that
\* only their first entries are there for the next time.
Firsts(i) ==
    [i EXCEPT !.namesvrs = UpTo(@, 1), !.domains = UpTo(@, 1)]

\* i: ifch with the new list stored.  Without a name server, or when the file
\* cannot be rewound, nothing is written; a failed write ends the process
\* without an answer; truncating or syncing the file may fail afterwards.
write_resolve_conf(i) ==
    \/ /\ UNCHANGED resolv
       /\ ifch' = Returned(i, Failed)
    \/ /\ i.namesvrs # <<>>
       /\ \E r \in {0, Failed} : ifch' = Returned(Firsts(i), r)
       /\ resolv' = [ns |-> i.namesvrs, dom |-> UpTo(i.domains, 7)]
    \/ /\ i.namesvrs # <<>>
       /\ ifch' = [i EXCEPT !.alive = FALSE, !.busy = FALSE, !.cmds = <<>>]
       /\ resolv' = [ns |-> <<>>, dom |-> <<>>]

perform_dns ==
    /\ Command("DNS")
    /\ IF WriteResolv
       THEN write_resolve_conf([ifch EXCEPT !.namesvrs = Head(ifch.cmds).arg])
       ELSE ifch' = Returned(ifch, 0) /\ UNCHANGED resolv
    /\ UNCHANGED <<wire, hostname, netVars>>

perform_domain ==
    /\ Command("DOMAIN")
    /\ IF WriteResolv
       THEN write_resolve_conf([ifch EXCEPT !.domains = Head(ifch.cmds).arg])
       ELSE ifch' = Returned(ifch, 0) /\ UNCHANGED resolv
    /\ UNCHANGED <<wire, hostname, netVars>>

-----------------------------------------------------------------------------

perform_hostname ==
    /\ Command("HOSTNAME")
    /\ \/ /\ AllowHostname
          /\ hostname' = Head(ifch.cmds).arg
          /\ ifch' = Returned(ifch, 0)
       \/ /\ ifch' = Returned(ifch, IF AllowHostname THEN Failed ELSE 0)
          /\ UNCHANGED hostname
    /\ UNCHANGED <<wire, resolv, netVars>>

perform_wins ==
    /\ Command("WINS")
    /\ ifch' = Returned(ifch, 0)
    /\ UNCHANGED <<wire, resolv, hostname, netVars>>

\* Mutant: only success is reported.
inform_execute_success ==
    /\ ifch.busy /\ ifch.cmds = <<>>
    /\ ifch' = [ifch EXCEPT !.busy = FALSE,
                            !.reply = IF ifch.cmdf THEN @ ELSE "+"]
    /\ UNCHANGED <<wire, resolv, hostname, netVars>>

inform_execute ==
    /\ ifch.busy /\ ifch.cmds = <<>>
    /\ ifch' = [ifch EXCEPT !.busy = FALSE,
                            !.reply = IF ifch.cmdf THEN "-" ELSE "+"]
    /\ UNCHANGED <<wire, resolv, hostname, netVars>>

IfchStep ==
    \/ process_client_socket \/ Dispatch \/ Dispatched
    \/ perform_dns \/ perform_domain \/ perform_hostname \/ perform_wins
    \/ inform_execute
    \/ NetStep /\ UNCHANGED ifchVars
=============================================================================
