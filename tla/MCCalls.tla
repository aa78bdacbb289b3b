------------------------------ MODULE MCCalls ------------------------------
(***************************************************************************)
(* Calls to the ports of a gateway, of which A answers by hand only and B    *)
(* after two rings, and calls to the CP/M pool, with two sessions and two    *)
(* callers.  The ports and the pool share no state, so each behaviour is of   *)
(* one part, the other resting at its start.                                *)
(***************************************************************************)
EXTENDS PeerCall, CpmPool

CONSTANTS A, B

MCS0 == [p \in Ports |-> IF p = B THEN 2 ELSE 0]
MCRingAt == [r \in Ringers |-> A]

-----------------------------------------------------------------------------
VARIABLE part  \* which part moves: "ports" or "pool"

MCVars == <<part, vars, poolVars>>

MCInit == Init /\ PoolInit /\ part \in {"ports", "pool"}

AtPorts(act) == part = "ports" /\ act /\ UNCHANGED <<part, poolVars>>
AtPool(act) == part = "pool" /\ act /\ UNCHANGED <<part, vars>>

MCNext == AtPorts(Next) \/ AtPool(PoolNext)

\* PeerCall's FairSpec; nothing is assumed of the pool.
MCFairness ==
  /\ \A x \in Ports \cup Guests : WF_MCVars(AtPorts(GiveUp(x)))
  /\ \A r \in Ringers : WF_MCVars(AtPorts(EndRing(r) /\ ~Rung(r)))
  /\ \A p \in Ports : WF_MCVars(AtPorts(RingOnce(p) \/ AnswerPeer(p) \/ AnswerRing(p)))

MCSpec == MCInit /\ [][MCNext]_MCVars /\ MCFairness
=============================================================================
