---------------------------- MODULE TimingProofs ----------------------------
(***************************************************************************)
(* The event loop never spins, whatever the timers and the state machine   *)
(* ask of it.                                                              *)
(***************************************************************************)
EXTENDS Timing, TLAPS

\* After a turn without an event that left no sleep, the loop knows that it did
\* not sleep; after a second one in a row, it sleeps.
SpinInv ==
    /\ seen.spins \in 0 .. 2
    /\ seen.spins >= 1 /\ loop.left = 0 => loop.zero
    /\ seen.spins = 2 => loop.left # 0

\* A turn without an event, after one that left no sleep, leaves some, because
\* of the failsafe of do_ndhc_work.
LEMMA FailsafeSleeps ==
    ASSUME loop.zero, NEW c
    PROVE  NextTimeout(c, FALSE) # 0
BY PausesAssumption DEF NextTimeout

\* A turn that failed is followed by a pause.
LEMMA ErrorsPause == \A rnd : Pick(ErrorDelays, rnd) \in Nat \ {0}
<1>1. \A rnd : Pick(ErrorDelays, rnd) \in ErrorDelays
  BY PausesAssumption, ZenonT(60) DEF Pick
<1> QED
  BY <1>1, PausesAssumption, ZenonT(60)

\* What a turn leaves of the loop and of the count of turns without an event.
LEMMA TurnSleeps ==
    ASSUME NEW event \in BOOLEAN, NEW signal, NEW packet, NEW arp, NEW frames,
           seen.spins \in Nat,
           Turn(event, signal, packet, arp, frames)
    PROVE  /\ seen'.spins = IF event THEN 0 ELSE seen.spins + 1
           /\ loop'.left = 0 => loop'.zero
           /\ ~event /\ loop.zero => loop'.left # 0
<1>1. PICK o \in Outcomes(signal, packet, arp) :
        LET timeout == IF o.pause = -1 THEN NextTimeout(o.c, event) ELSE o.pause
        IN  /\ loop' = [left |-> timeout, zero |-> timeout = 0]
            /\ seen' = Noted(o.c, o.t, event, frames)
  BY DEF Turn
<1>2. o.pause # 0
  <2>1. PICK x \in Sending \X {0, 1} :
          o.pause = IF dhcp_handle(s, Input(signal, packet, arp, x[1], x[2])).ok
                    THEN -1 ELSE Pick(ErrorDelays, x[2])
    BY DEF Outcomes
  <2>2. Pick(ErrorDelays, x[2]) \in Nat \ {0}
    BY ErrorsPause, ZenonT(60)
  <2> QED
    BY <2>1, <2>2
<1>3. seen'.spins = IF event THEN 0 ELSE seen.spins + 1
  BY <1>1 DEF Noted
<1>4. loop'.left = 0 => loop'.zero
  BY <1>1, ZenonT(60)
<1>5. ~event /\ loop.zero => loop'.left # 0
  BY <1>1, <1>2, FailsafeSleeps, ZenonT(60)
<1> QED
  BY <1>3, <1>4, <1>5

\* Every step keeps the invariant.
LEMMA SpinInvKept == SpinInv /\ [Next]_vars => SpinInv'
<1> SUFFICES ASSUME SpinInv, [Next]_vars PROVE SpinInv'
  OBVIOUS
<1> USE DEF SpinInv
<1>0. seen.spins \in Nat
  OBVIOUS
<1>1. CASE TimeoutTurn
  <2>1. loop.left = 0 /\ Turn(FALSE, "NONE", NoPacket, "none", {})
    BY <1>1, ZenonT(60) DEF TimeoutTurn
  <2>2. /\ seen'.spins = seen.spins + 1
        /\ loop'.left = 0 => loop'.zero
        /\ loop.zero => loop'.left # 0
    BY <1>0, <2>1, TurnSleeps, ZenonT(60)
  <2> QED
    BY <2>1, <2>2
<1>2. CASE SignalTurn \/ PacketTurn \/ ArpTurn
  <2>1. \E signal, packet, arp, frames : Turn(TRUE, signal, packet, arp, frames)
    BY <1>2, ZenonT(60) DEF SignalTurn, PacketTurn, ArpTurn
  <2>2. seen'.spins = 0
    BY <1>0, <2>1, TurnSleeps, ZenonT(60)
  <2> QED
    BY <2>2
<1>3. CASE Tick
  <2>1. seen'.spins = 0
    BY <1>3, ZenonT(60) DEF Tick
  <2> QED
    BY <2>1
<1>4. CASE UNCHANGED vars
  BY <1>4 DEF vars
<1> QED
  BY <1>1, <1>2, <1>3, <1>4 DEF Next

\* Between two ticks of the clock do_ndhc_work takes at most two turns that no
\* event asked for.
THEOREM LoopNeverSpins == Spec => []NoSpin
<1>1. Init => SpinInv
  BY DEF Init, SpinInv
<1>2. SpinInv => NoSpin
  BY DEF SpinInv, NoSpin
<1> QED
  BY <1>1, <1>2, SpinInvKept, PTL DEF Spec
=============================================================================
