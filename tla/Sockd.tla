------------------------------- MODULE Sockd -------------------------------
(***************************************************************************)
(* ndhc-sockd (src/src/sockd.c): the sockets it creates and the requests   *)
(* it serves, as operators.  A socket is what matters of it to the master: *)
(* whether the system calls that make it all succeeded, whether its packet *)
(* filter is attached and locked, and whether sockd reports it as filtered.*)
(***************************************************************************)
EXTENDS Naturals, Sequences

Commands == {"L", "a", "d", "s", "u"}

\* The datagrams the master sends: the command and the bytes of the address
\* and the hardware address that follow it.
Request(c) ==
    <<c>> \o (CASE c = "u" -> [n \in 1 .. 4 |-> "ip"]
                [] c = "d" -> [n \in 1 .. 10 |-> IF n <= 4 THEN "ip" ELSE "mac"]
                [] OTHER -> <<>>)

Sockets ==
    [fd : BOOLEAN, attached : BOOLEAN, locked : BOOLEAN, using_bpf : BOOLEAN]

\* A call after the filter was set may fail: there is no socket then.
create_udp_socket ==
    {s \in Sockets : ~s.attached /\ ~s.locked /\ ~s.using_bpf}

\* Mutant: reported as filtered when the filter is attached but not locked.
create_raw_socket_unlocked(filter) ==
    {s \in Sockets : /\ s.attached => filter
                     /\ s.locked => s.attached
                     /\ s.using_bpf = s.attached}

create_raw_socket(filter) ==
    {s \in Sockets : /\ s.attached => filter
                     /\ s.locked => s.attached
                     /\ s.using_bpf = s.locked}

create_raw_listen_socket == create_raw_socket(TRUE)

create_raw_broadcast_socket == create_raw_socket(FALSE)

\* The outcome of attaching is compared with -1 before it is tested for being
\* negative: the filter is locked, and reported, whether attached or not.
arp_set_bpf ==
    {s \in Sockets : s.using_bpf = s.locked /\ (~s.fd => ~s.attached /\ ~s.locked)}

create_arp_basic_socket == arp_set_bpf

create_arp_defense_socket == arp_set_bpf

Created(c) ==
    CASE c = "L" -> create_raw_listen_socket
      [] c = "a" -> create_arp_basic_socket
      [] c = "d" -> create_arp_defense_socket
      [] c = "s" -> create_raw_broadcast_socket
      [] c = "u" -> create_udp_socket

\* The socket when nothing fails.
Sound(c) ==
    LET filter == c \in {"L", "a", "d"}
    IN  [fd |-> TRUE, attached |-> filter, locked |-> filter,
         using_bpf |-> filter]

Response(c, using_bpf) ==
    CASE c = "L" -> IF using_bpf THEN "L" ELSE "l"
      [] c = "a" -> IF using_bpf THEN "A" ELSE "a"
      [] c = "d" -> IF using_bpf THEN "D" ELSE "d"
      [] OTHER -> c

\* Mutant: the argument of 'u' is not counted.
ConsumedCommandOnly(c) == IF c = "d" THEN 11 ELSE 1

\* What execute_sockd returns.
Consumed(c) == CASE c = "d" -> 11 [] c = "u" -> 5 [] OTHER -> 1

\* Commands that are unknown or too short end the process.
Understood(buf) == buf[1] \in Commands /\ Len(buf) >= Consumed(buf[1])

\* The bytes that stay in the buffer are its first ones: nothing is moved.
Remaining(buf) == SubSeq(buf, 1, Len(buf) - Consumed(buf[1]))

\* Mutant: the reply is sent once more after a success.
xfer_fd_again(replies, r) == replies \o <<r, r>>

xfer_fd(replies, r) == Append(replies, r)

\* Answers the master understands as an answer to request c.
Expected(c) ==
    CASE c = "L" -> {"L", "l"}
      [] c = "a" -> {"A", "a"}
      [] c = "d" -> {"D", "d"}
      [] OTHER -> {c}

Replies == [resp : {"L", "l", "A", "a", "D", "d", "s", "u"}, sock : Sockets]
=============================================================================
