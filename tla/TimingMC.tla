------------------------------ MODULE TimingMC ------------------------------
(* A small instance of Timing for TLC. *)
EXTENDS Timing

ClientId == <<1, 2, 7>>

Setting(vendor, hostname, addr) ==
    [clientid |-> ClientId, vendor |-> vendor, hostname |-> hostname,
     addr |-> addr, server |-> <<10, 0, 0, 1>>]

\* With and without an address; host names that have room in some messages, that
\* fill the options of a renewal, and that leave no room for the end marker.
Settings ==
    {Setting(<<>>, <<>>, NoAddress),
     Setting(<<>>, <<104>>, <<10, 0, 0, 9>>),
     Setting(<<118>>, <<104, 111, 115, 116>>, <<10, 0, 0, 9>>),
     Setting(<<>>, [i \in 1 .. 11 |-> 104], <<10, 0, 0, 9>>),
     Setting(<<>>, [i \in 1 .. 12 |-> 104], <<10, 0, 0, 9>>)}

FieldSizes == [options |-> 40, file |-> 12, sname |-> 8]

Type(t) == <<DCODE_MSGTYPE, <<t>> >>
Server(n) == <<DCODE_SERVER_ID, <<10, 0, 0, n>> >>
Lease(n) == <<DCODE_LEASET, <<0, 0, 0, n>> >>
Id(d) == <<DCODE_CLIENT_ID, d>>
Mask == <<DCODE_SUBNET, <<255, 255, 255, 0>> >>

Says(yiaddr, options, file, sname) ==
    [yiaddr |-> yiaddr, options |-> options, file |-> file, sname |-> sname]

Offer == Says("a", <<Type(2), Server(1), Mask>>, <<>>, <<>>)

\* An offer, and one without a server; grants of a short lease, of a lease of
\* unsaid length spread over all fields, of one too long for its type that is
\* split in two, of another address; a grant to another client; a refusal.
Replies ==
    {Offer,
     Says("a", <<Type(2), Mask>>, <<>>, <<>>),
     Says("a", <<Type(5), Server(1), Lease(5), Id(ClientId)>>, <<>>, <<>>),
     Says("a", <<Type(5), Mask>>, <<Server(1), Mask>>, <<Id(<<1>>)>>),
     Says("a", <<Type(5)>>, <<Server(1), <<DCODE_LEASET, <<0, 0>> >> >>,
          << <<DCODE_LEASET, <<0, 9>> >>, <<DCODE_DOMAIN, <<120, 121>> >> >>),
     Says("b", <<Type(5), Server(1), Lease(8)>>, <<>>, <<>>),
     Says("a", <<Type(5), Server(1), Lease(8), Id(<<1, 3>>)>>, <<>>, <<>>),
     Says("a", <<Server(1)>>, <<Type(6)>>, <<>>)}

\* Every reply as it should be, and an offer with one thing wrong.
Arriving ==
    {<<l, {}>> : l \in Replies} \cup {<<Offer, {d}>> : d \in Defects}

PacketSize == <<2, 64>>

DelaySteps == <<{1}, {2}>>
=============================================================================
