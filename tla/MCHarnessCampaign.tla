------------------------- MODULE MCHarnessCampaign -------------------------
(* Small campaigns for HarnessCampaign.                                    *)
EXTENDS HarnessCampaign

\* Two scenarios with names of their own, on two targets; the first repeats.
DistinctBindings ==
  << [scenario |-> "seq",  target |-> "nvme",   repeat |-> 2],
     [scenario |-> "rand", target |-> "lustre", repeat |-> 1] >>

\* The README's example: one scenario on several targets.
SharedBindings ==
  << [scenario |-> "seq", target |-> "nvme",   repeat |-> 1],
     [scenario |-> "seq", target |-> "lustre", repeat |-> 1] >>

JobCounts == [s \in Scenarios |-> IF s = "seq" THEN 1 ELSE 2]
=============================================================================
