---------------------------- MODULE NetConfigMC ----------------------------
(* Configurations and addresses for model-checking NetConfig. *)
EXTENDS NetConfig

CONSTANTS a, b, r1, r2

Opt(subnet, router, dns, host, domain, mtu) ==
    [c \in Options |->
        CASE c = "SUBNET" -> subnet [] c = "ROUTER" -> router [] c = "DNS" -> dns
          [] c = "HOSTNAME" -> host [] c = "DOMAIN" -> domain [] c = "MTU" -> mtu
          [] OTHER -> <<>>]

\* Between them: the same address with other options, options that come and go,
\* a changed address behind the same router, and an MTU ifch does not parse.
SomeConfigs ==
    {[yiaddr |-> a,
      opt |-> Opt(<<255, 255, 240, 0>>, <<r1>>, <<"n", "o">>, <<>>, <<"x", "y">>, <<>>)],
     [yiaddr |-> a,
      opt |-> [Opt(<<>>, <<r2>>, <<"n", "o">>, <<"h">>, <<"z">>, <<90>>)
                EXCEPT !["WINS"] = <<"w">>]],
     [yiaddr |-> b,
      opt |-> [Opt(<<255, 255, 255, 254>>, <<r2>>, <<"o">>, <<>>, <<"z">>, <<>>)
                EXCEPT !["BROADCAST"] = <<"c">>]],
     [yiaddr |-> b,
      opt |-> Opt(<<255, 0, 0, 0>>, <<>>, <<>>, <<>>, <<"x">>, <<1500>>)]}

LeftBehind == {[ip |-> b, plen |-> 24, perm |-> FALSE],
               [ip |-> a, plen |-> 20, perm |-> TRUE]}
=============================================================================
