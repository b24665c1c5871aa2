----------------------------- MODULE RunDemand -----------------------------
(***************************************************************************)
(* What the scheduler promises to the Run service (the Scheduler protocol  *)
(* of kernel/scheduler.py): a Run id is accepted once, may be withdrawn,   *)
(* and is answered once.  A Run is answered as cancelled exactly when it   *)
(* has been withdrawn.  One step of the scheduler may move several Runs.   *)
(***************************************************************************)
EXTENDS Naturals

CONSTANT Run

VARIABLE demand  \* demand[r]: the status of r, and whether it is withdrawn

Outcome == {"succeeded", "failed", "cancelled"}

Unknown == [status |-> "unknown", withdrawn |-> FALSE]

Active(w) == [status |-> "active", withdrawn |-> w]

Answered(o) == [status |-> o, withdrawn |-> o = "cancelled"]

DemandInit == demand = [r \in Run |-> Unknown]

Accepts(r) == demand[r] = Unknown /\ demand'[r] = Active(FALSE)

Withdraws(r) == demand[r].status = "active" /\ demand'[r] = Active(TRUE)

Answers(r) ==
  /\ demand[r].status = "active"
  /\ \E o \in Outcome : /\ demand[r].withdrawn => o = "cancelled"
                        /\ demand'[r] = Answered(o)

DemandNext ==
  /\ demand' = [r \in Run |-> demand'[r]]
  /\ \A r \in Run :
       demand'[r] = demand[r] \/ Accepts(r) \/ Withdraws(r) \/ Answers(r)

DemandSpec == DemandInit /\ [][DemandNext]_demand
=============================================================================
