--------------------------- MODULE CampaignLedger ---------------------------
(***************************************************************************)
(* What the harness promises of its SQLite store (store.py), seen without  *)
(* the orchestrator: a run is opened once, every slot of it (a scenario    *)
(* and a repeat index) is attempted at most once and settled at most once, *)
(* and the run is closed only when all its slots are settled, as 'ok' only *)
(* when all of them are 'ok'.  HarnessCampaign implements this.            *)
(***************************************************************************)
CONSTANTS
  RunIds,  \* the runs a database may hold
  Slots    \* the (scenario, repeat index) pairs of the campaign

VARIABLES
  runs,    \* runs[r]: the status column of table runs
  rows     \* rows[r][k]: the status column of table scenarios

vars == <<runs, rows>>

Settled == {"ok", "failed"}

Init ==
  /\ runs = [r \in RunIds |-> "absent"]
  /\ rows = [r \in RunIds |-> [k \in Slots |-> "absent"]]

\* A run is created, with no scenario row.
Open(r) ==
  /\ runs[r] = "absent"
  /\ runs' = [runs EXCEPT ![r] = "running"]
  /\ UNCHANGED rows

\* A slot of an open run is attempted for the first and only time.
Attempt(r, k) ==
  /\ runs[r] = "running"
  /\ rows[r][k] = "absent"
  /\ rows' = [rows EXCEPT ![r][k] = "running"]
  /\ UNCHANGED runs

\* The attempt of a slot ends.
Settle(r, k, status) ==
  /\ runs[r] = "running"
  /\ rows[r][k] = "running"
  /\ rows' = [rows EXCEPT ![r][k] = status]
  /\ UNCHANGED runs

\* The run ends with the verdict its slots call for.
Close(r) ==
  /\ runs[r] = "running"
  /\ \A k \in Slots : rows[r][k] \in Settled
  /\ runs' = [runs EXCEPT ![r] = IF \A k \in Slots : rows[r][k] = "ok"
                                 THEN "ok" ELSE "failed"]
  /\ UNCHANGED rows

Next ==
  \E r \in RunIds :
    \/ Open(r)
    \/ \E k \in Slots : Attempt(r, k)
    \/ \E k \in Slots, status \in Settled : Settle(r, k, status)
    \/ Close(r)

Spec == Init /\ [][Next]_vars
=============================================================================
