---------------------------- MODULE DhcpMessage ----------------------------
(***************************************************************************)
(* DHCP messages (src/src/dhcp.c): how requests are put together, and which*)
(* frames from the network are taken for replies.                          *)
(*                                                                         *)
(* A frame is its DHCP message and the set of things that are wrong with   *)
(* the headers around and before the options.                              *)
(***************************************************************************)
EXTENDS Options, FiniteSets

CONSTANTS
    OptionsSize,    \* bytes of the options field (308)
    MaxSize,        \* the two bytes of the largest packet taken
    Clients         \* settings: clientid, vendor, hostname, addr, server

DHCPDISCOVER == 1
DHCPOFFER == 2
DHCPREQUEST == 3
DHCPDECLINE == 4
DHCPACK == 5
DHCPNAK == 6
DHCPRELEASE == 7

-----------------------------------------------------------------------------
(* Requests *)

\* The options field of a new message, with the options all messages have.
init_packet(c, type) ==
    LET empty == [i \in 1 .. OptionsSize |->
                    IF i = 1 THEN DCODE_END ELSE DCODE_PADDING]
    IN  add_option(add_option(empty, DCODE_MSGTYPE, <<type>>),
                   DCODE_CLIENT_ID, c.clientid)

VendorOf(c) == IF c.vendor = <<>> THEN <<110, 100, 104, 99>> ELSE c.vendor

add_options_vendor_hostname(buf, c) ==
    add_option_nonempty(add_option(buf, DCODE_VENDOR, VendorOf(c)),
                        DCODE_HOSTNAME, c.hostname)

\* What every message that asks for a lease ends with.
AskFor(buf, c) ==
    add_options_vendor_hostname(
        add_option(add_option(buf, DCODE_MAX_SIZE, MaxSize),
                   DCODE_PARAM_REQ, request_list), c)

NoAddress == <<0, 0, 0, 0>>

add_option_reqip(buf, c) == add_option(buf, DCODE_REQIP, c.addr)

add_option_serverid(buf, server) == add_option(buf, DCODE_SERVER_ID, server)

send_discover(c) ==
    LET p == init_packet(c, DHCPDISCOVER)
    IN  AskFor(IF c.addr = NoAddress THEN p ELSE add_option_reqip(p, c), c)

send_selecting(c) ==
    AskFor(add_option_serverid(
             add_option_reqip(init_packet(c, DHCPREQUEST), c), c.server), c)

send_renew(c) == AskFor(init_packet(c, DHCPREQUEST), c)

send_rebind(c) == AskFor(add_option_reqip(init_packet(c, DHCPREQUEST), c), c)

send_decline(c, server) ==
    add_option_serverid(add_option_reqip(init_packet(c, DHCPDECLINE), c), server)

send_release(c) ==
    add_option_serverid(add_option_reqip(init_packet(c, DHCPRELEASE), c), c.server)

Requests ==
    {"discover", "selecting", "renew", "rebind", "decline", "release"}

\* As arp_do_collision_check calls it, send_decline gets the address that is
\* declined for the server.
Built(kind, c) ==
    CASE kind = "discover" -> send_discover(c)
      [] kind = "selecting" -> send_selecting(c)
      [] kind = "renew" -> send_renew(c)
      [] kind = "rebind" -> send_rebind(c)
      [] kind = "decline" -> send_decline(c, c.addr)
      [] kind = "release" -> send_release(c)

\* send_dhcp_raw cuts the padding off; a message without an end is not sent.
Wire(buf) == SubSeq(buf, 1, get_end_option_idx(buf) + 1)

-----------------------------------------------------------------------------
(* Reference: what the messages are meant to say, option by option *)

Bytes(item) == <<item[1], Len(item[2])>> \o item[2]

\* The bytes of a sequence of options <<code, data>>.
Flat(items) ==
    LET upto[n \in Nat] ==
          IF n = 0 THEN <<>> ELSE upto[n - 1] \o Bytes(items[n])
    IN  upto[Len(items)]

\* The options that fit, in order, with the end marker after them.
Fitting(items) ==
    LET upto[n \in Nat] ==
          IF n = 0 THEN <<>>
          ELSE LET b == upto[n - 1] \o Bytes(items[n])
               IN  IF Len(b) < OptionsSize THEN b ELSE upto[n - 1]
    IN  upto[Len(items)] \o <<DCODE_END>>

Meant(kind, c) ==
    LET type == CASE kind = "discover" -> DHCPDISCOVER
                  [] kind = "decline" -> DHCPDECLINE
                  [] kind = "release" -> DHCPRELEASE
                  [] OTHER -> DHCPREQUEST
        hasAddr == kind # "renew" /\ (kind = "discover" => c.addr # NoAddress)
        hasServer == kind \in {"selecting", "decline", "release"}
        asks == kind \in {"discover", "selecting", "renew", "rebind"}
        Given(b, code, data) == IF b THEN << <<code, data>> >> ELSE <<>>
    IN  Given(TRUE, DCODE_MSGTYPE, <<type>>)
        \o Given(TRUE, DCODE_CLIENT_ID, c.clientid)
        \o Given(hasAddr, DCODE_REQIP, c.addr)
        \o Given(hasServer, DCODE_SERVER_ID, c.server)
        \o Given(asks, DCODE_MAX_SIZE, MaxSize)
        \o Given(asks, DCODE_PARAM_REQ, request_list)
        \o Given(asks, DCODE_VENDOR, VendorOf(c))
        \o Given(asks /\ c.hostname # <<>>, DCODE_HOSTNAME, c.hostname)

\* A message has the options meant for it that have room, and its end marker.
SaysWhatIsMeant(kind, c) == Wire(Built(kind, c)) = Fitting(Meant(kind, c))

\* A decline is not what is meant, because of the server it names (see Built);
\* this is what it says.
DeclineSays(c) ==
    Wire(Built("decline", c)) = Fitting(Meant("decline", [c EXCEPT !.server = c.addr]))

-----------------------------------------------------------------------------
(* Replies *)

\* Things that can be wrong with a frame.
Defects ==
    {"version", "ihl", "protocol", "fragment", "source port", "dest port",
     "udp length", "truncated", "ip checksum", "too short", "too long",
     "udp checksum", "cookie cut", "cookie", "xid", "chaddr"}

\* sf_dhcp, the filter of the listening socket.
sf_dhcp(bad) ==
    bad \cap {"version", "ihl", "protocol", "fragment", "source port",
              "dest port", "udp length"} = {}

\* Mutant: the length is left to the filter.
get_raw_packet_validate_no_length(bad) ==
    bad \cap {"version", "ihl", "protocol", "dest port"} = {}

\* The checks that stand in for the filter.
get_raw_packet_validate_bpf(bad) ==
    bad \cap {"version", "ihl", "protocol", "dest port", "udp length"} = {}

get_raw_packet(bad, using_bpf) ==
    /\ IF using_bpf THEN sf_dhcp(bad) ELSE get_raw_packet_validate_bpf(bad)
    /\ bad \cap {"truncated", "ip checksum", "too short", "too long",
                 "udp checksum"} = {}

\* The identifiers are compared up to the length of the shorter one.
ClientidMatches(ours, theirs) ==
    LET n == IF Len(ours) < Len(theirs) THEN Len(ours) ELSE Len(theirs)
    IN  SubSeq(ours, 1, n) = SubSeq(theirs, 1, n)

validate_dhcp_packet(bad, p, c) ==
    /\ bad \cap {"cookie cut", "cookie", "xid", "chaddr"} = {}
    /\ get_end_option_idx(p.options) >= 0
    /\ get_option_msgtype(p) # 0
    /\ ClientidMatches(c.clientid, get_option_clientid(p))

dhcp_packet_get(bad, p, c, using_bpf) ==
    get_raw_packet(bad, using_bpf) /\ validate_dhcp_packet(bad, p, c)

-----------------------------------------------------------------------------
(* Reference: what a server says, and how it may lay it out *)

\* A field of n bytes that holds the options, and the end marker if it fits.
Field(items, n) ==
    LET b == Flat(items)
    IN  [i \in 1 .. n |-> IF i <= Len(b) THEN b[i]
                          ELSE IF i = Len(b) + 1 THEN DCODE_END
                          ELSE DCODE_PADDING]

\* The data that the options of a layout give for a code.
Said(layout, code) ==
    LET all == layout.options \o layout.file \o layout.sname
        upto[n \in Nat] ==
          IF n = 0 THEN <<>>
          ELSE upto[n - 1] \o (IF all[n][1] = code THEN all[n][2] ELSE <<>>)
    IN  upto[Len(all)]

\* The message of a layout; the options say which other fields are in use.
Laid(layout, sizes) ==
    LET ol == (IF layout.file # <<>> THEN 1 ELSE 0)
              + (IF layout.sname # <<>> THEN 2 ELSE 0)
        first == IF ol = 0 THEN <<>> ELSE << <<DCODE_OVERLOAD, <<ol>> >> >>
    IN  [options |-> Field(first \o layout.options, sizes.options),
         file |-> Field(layout.file, sizes.file),
         sname |-> Field(layout.sname, sizes.sname)]
=============================================================================
