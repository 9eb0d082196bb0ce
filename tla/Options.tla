------------------------------ MODULE Options ------------------------------
(***************************************************************************)
(* DHCP options (src/src/options.c), byte by byte.  A field of a message   *)
(* is a sequence of bytes and its length is the size of the field; byte i  *)
(* of the C array is element i + 1.  A message has the fields options, file*)
(* and sname.                                                              *)
(*                                                                         *)
(* The buffers of the callers hold 500 bytes, which is all three fields    *)
(* together: they never overflow.                                          *)
(***************************************************************************)
EXTENDS Integers, Sequences

DCODE_PADDING == 0
DCODE_SUBNET == 1
DCODE_ROUTER == 3
DCODE_DNS == 6
DCODE_HOSTNAME == 12
DCODE_DOMAIN == 15
DCODE_BROADCAST == 28
DCODE_REQIP == 50
DCODE_LEASET == 51
DCODE_OVERLOAD == 52
DCODE_MSGTYPE == 53
DCODE_SERVER_ID == 54
DCODE_PARAM_REQ == 55
DCODE_MAX_SIZE == 57
DCODE_VENDOR == 60
DCODE_CLIENT_ID == 61
DCODE_END == 255

-----------------------------------------------------------------------------
(* Reading *)

\* The two lowest bits of an overload value.
Bits(v) == {b \in {1, 2} : (v \div b) % 2 = 1}

\* ol: the bits known so far.
do_overload_value(buf, ol) ==
    LET from[i \in Nat] ==
          IF i >= Len(buf) THEN {}
          ELSE IF buf[i + 1] = DCODE_PADDING THEN from[i + 1]
          ELSE IF buf[i + 1] = DCODE_END \/ i >= Len(buf) - 2 THEN {}
          ELSE IF buf[i + 1] = DCODE_OVERLOAD /\ buf[i + 2] = 1
          THEN Bits(buf[i + 3]) \cup from[i + 3]
          ELSE from[i + buf[i + 2] + 2]
    IN  ol \cup from[0]

\* A field that the options declare to hold options may declare the other one.
overload_value(p) ==
    LET ol == do_overload_value(p.options, {})
    IN  IF ol = {1} THEN do_overload_value(p.file, ol)
        ELSE IF ol = {2} THEN do_overload_value(p.sname, ol)
        ELSE ol

\* What one field holds of option `code`; its parts are put together.
do_get_dhcp_opt(buf, code) ==
    LET from[i \in Nat] ==
          IF i >= Len(buf) THEN <<>>
          ELSE IF buf[i + 1] = DCODE_PADDING THEN from[i + 1]
          ELSE IF buf[i + 1] = DCODE_END \/ i >= Len(buf) - 2 THEN <<>>
          ELSE LET next == i + buf[i + 2] + 2
               IN  IF buf[i + 1] # code THEN from[next]
                   ELSE IF Len(buf) < next THEN <<>>
                   ELSE SubSeq(buf, i + 3, next) \o from[next]
    IN  from[0]

\* Mutant: sname is read before file.
get_dhcp_opt_sname_first(p, code) ==
    LET ol == overload_value(p)
    IN  do_get_dhcp_opt(p.options, code)
        \o (IF 2 \in ol THEN do_get_dhcp_opt(p.sname, code) ELSE <<>>)
        \o (IF 1 \in ol THEN do_get_dhcp_opt(p.file, code) ELSE <<>>)

get_dhcp_opt(p, code) ==
    LET ol == overload_value(p)
    IN  do_get_dhcp_opt(p.options, code)
        \o (IF 1 \in ol THEN do_get_dhcp_opt(p.file, code) ELSE <<>>)
        \o (IF 2 \in ol THEN do_get_dhcp_opt(p.sname, code) ELSE <<>>)

\* The place of the end marker, or -1.
get_end_option_idx(buf) ==
    LET from[i \in Nat] ==
          IF i >= Len(buf) THEN -1
          ELSE IF buf[i + 1] = DCODE_END THEN i
          ELSE IF buf[i + 1] = DCODE_PADDING THEN from[i + 1]
          ELSE IF i + 1 >= Len(buf) THEN -1
          ELSE from[i + buf[i + 2] + 2]
    IN  from[0]

\* Options of a fixed length count only if they have it; 0 otherwise.
get_option_msgtype(p) ==
    LET d == get_dhcp_opt(p, DCODE_MSGTYPE)
    IN  IF Len(d) = 1 THEN d[1] ELSE 0

get_option_serverid(p) ==
    LET d == get_dhcp_opt(p, DCODE_SERVER_ID)
    IN  IF Len(d) = 4 THEN d ELSE <<>>

get_option_leasetime(p) ==
    LET d == get_dhcp_opt(p, DCODE_LEASET)
    IN  IF Len(d) = 4
        THEN ((d[1] * 256 + d[2]) * 256 + d[3]) * 256 + d[4] ELSE 0

get_option_clientid(p) == get_dhcp_opt(p, DCODE_CLIENT_ID)

-----------------------------------------------------------------------------
(* Writing *)

\* The bytes of buf from index i on replaced by `bytes`.
Overwrite(buf, i, bytes) ==
    SubSeq(buf, 1, i) \o bytes \o SubSeq(buf, i + Len(bytes) + 1, Len(buf))

\* Mutant: the room for the end marker is forgotten.
add_option_tight(buf, code, data) ==
    LET end == get_end_option_idx(buf)
        all == <<code, Len(data)>> \o data \o <<DCODE_END>>
    IN  IF Len(data) > 255 \/ end < 0 \/ end + 2 + Len(data) > Len(buf) THEN buf
        ELSE SubSeq(Overwrite(buf, end, all), 1, Len(buf))

\* add_option_string and add_u8_option, add_u16_option and add_u32_option,
\* which write the bytes of a number: an option without room is left out.
add_option(buf, code, data) ==
    LET end == get_end_option_idx(buf)
        all == <<code, Len(data)>> \o data \o <<DCODE_END>>
    IN  IF Len(data) > 255 \/ end < 0 \/ end + 2 + Len(data) >= Len(buf) THEN buf
        ELSE Overwrite(buf, end, all)

request_list ==
    <<DCODE_SUBNET, DCODE_ROUTER, DCODE_DNS, DCODE_HOSTNAME, DCODE_DOMAIN,
      DCODE_BROADCAST>>

\* Options that are given only when they are not empty.
add_option_nonempty(buf, code, data) ==
    IF data = <<>> THEN buf ELSE add_option(buf, code, data)
=============================================================================
