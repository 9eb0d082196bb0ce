----------------------------- MODULE LeaseSpec -----------------------------
(***************************************************************************)
(* What becomes of the address of an interface under a DHCP client,        *)
(* whatever happens on the wire.  The interface gets an address only by    *)
(* taking one that a server granted, once per grant, and keeps it while    *)
(* the lease is held.  A lease is given up without a word to the           *)
(* interface, which keeps the address until another one is taken; only     *)
(* Clear, a deconfiguration, removes it.  A deconfiguration that is refused*)
(* has removed the address too, but the client does not know: it may then  *)
(* take a granted address without setting it.                              *)
(***************************************************************************)
CONSTANTS Addrs, NoAddr

VARIABLES
    granted,  \* address a server has acknowledged, NoAddr without a lease
    taken,    \* has the granted address been taken into use?
    iface,    \* address of the interface
    refused   \* was a deconfiguration refused since the address was set?

\* The interface may have an address from before the client started.
Init ==
    /\ granted = NoAddr /\ ~taken /\ ~refused
    /\ iface \in Addrs \cup {NoAddr}

Grant ==
    /\ granted = NoAddr
    /\ granted' \in Addrs
    /\ UNCHANGED <<taken, iface, refused>>

\* A client that ends with this step leaves the address to the host.
Take ==
    /\ granted # NoAddr /\ ~taken
    /\ \/ iface' = granted /\ refused' = FALSE
       \/ refused /\ UNCHANGED <<iface, refused>>
    /\ \/ taken' = TRUE /\ UNCHANGED granted
       \/ granted' = NoAddr /\ UNCHANGED taken

GiveUp ==
    /\ granted # NoAddr
    /\ granted' = NoAddr /\ taken' = FALSE
    /\ UNCHANGED <<iface, refused>>

Clear ==
    /\ taken
    /\ iface' = NoAddr
    /\ \/ granted' = NoAddr /\ taken' = FALSE /\ refused' = FALSE
       \/ refused' = TRUE /\ UNCHANGED <<granted, taken>>

Next == Grant \/ Take \/ GiveUp \/ Clear

Spec == Init /\ [][Next]_<<granted, taken, iface, refused>>
=============================================================================
