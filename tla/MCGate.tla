------------------------------- MODULE MCGate -------------------------------
(***************************************************************************)
(* The way into the gateway: connections of one address at the doors of both *)
(* listeners, with the allowlist on and off and two windows, and the check   *)
(* of the credentials that address presents over telnet, SSH and the web.    *)
(* The doors and the check share no state, so each behaviour is of one part, *)
(* the other resting at its start.                                          *)
(***************************************************************************)
EXTENDS Admission, Login

CONSTANTS a1, d1, d2, s1, s2, t1, h1, h2, w1

MCKeyOf == [a \in Addrs |-> a]

MCKindOf == [c \in Conns |-> CASE c = t1 -> "telnet" [] c = w1 -> "web" [] OTHER -> "ssh"]
MCAddrOf == [c \in Conns |-> a1]

-----------------------------------------------------------------------------
VARIABLE part  \* which part moves: "doors" or "check"

MCVars == <<part, admissionVars, loginVars>>

MCInit ==
  /\ AdmissionInit /\ LoginInit
  /\ \/ part = "doors"
     \/ /\ part = "check"
        /\ rateMax = CHOOSE m \in RateMaxes : TRUE
        /\ window = CHOOSE w \in RateWindows : TRUE

AtDoors(act) == part = "doors" /\ act /\ UNCHANGED <<part, loginVars>>
AtCheck(act) == part = "check" /\ act /\ UNCHANGED <<part, admissionVars>>

MCNext == AtDoors(AdmissionNext) \/ AtCheck(LoginNext)

\* A connection's steps that AdmissionFairSpec says must come.
DoorStep(d) ==
  \/ d \in TConns /\ (TelnetDeadline(d) \/ TelnetBye(d))
  \/ d \in SConns /\ (SshDeadline(d) \/ GiveBack(d) \/ SshForget(d))

\* AdmissionFairSpec and Login's Fairness.  A door step and a step of the check share a
\* condition, to keep the conditions few: only one of the two is ever enabled.
MCFairness ==
  /\ WF_MCVars(AtCheck(LockoutTick))
  /\ \A c \in Conns : SF_MCVars(AtCheck(TakeTurn(c) \/ RefusedInTurn(c)))
  /\ \A p \in {<<t1, d1>>, <<h1, d2>>, <<h2, s1>>, <<w1, s2>>} :
       WF_MCVars(\/ AtCheck(GuessRight(p[1]) \/ GuessWrong(p[1]) \/ ReplyWritten(p[1]))
                 \/ AtDoors(DoorStep(p[2])))

MCSpec == MCInit /\ [][MCNext]_MCVars /\ MCFairness
=============================================================================
