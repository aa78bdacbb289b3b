----------------------------- MODULE MCLifecycle -----------------------------
(***************************************************************************)
(* Two copies of the gateway in one directory.  Each behaviour is of one     *)
(* part: "orders", in which nothing is saved and every order to end or to    *)
(* restart a cycle may come, or "saves", in which the configuration is saved *)
(* and edited, and restarts and handovers are the orders.                    *)
(***************************************************************************)
EXTENDS Lifecycle, TLC

VARIABLE part

MCVars == <<vars, part>>

MCInit == Init /\ part \in {"orders", "saves"}

MCNext ==
  /\ Next
  /\ part = "orders" => UNCHANGED <<saves, edit>>
  /\ part = "saves" =>
       \A p \in Procs : /\ sighup'[p] => sighup[p]
                        /\ halfway'[p] => halfway[p]
                        /\ quit'[p] => quit[p]
  /\ UNCHANGED part

MCSpec == MCInit /\ [][MCNext]_MCVars /\ Fairness
=============================================================================
