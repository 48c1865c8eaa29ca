---------------------------- MODULE MCDatasetPrep ----------------------------
(* A small data set for DatasetPrep.                                       *)
EXTENDS DatasetPrep

\* Two prompts share an excerpt, one has its own, two have none.
Excerpts ==
  [p \in Ids |-> CASE p \in {"p1", "p2"} -> "lentils"
                   [] p = "p3"           -> "dosa"
                   [] OTHER              -> "none"]

\* The prompts of the two nodes.
NodePrompts == {{"p1", "p3", "p5"}, {"p2", "p4"}}

\* A prompt is answered twice, the longer answer first or last, and one
\* perhaps not cleanly.
Nights ==
  LET Line(p, n) == [id |-> p, answer |-> n]
  IN  { << Line("p1", 1), Line("p4", a), Line("p3", a - 1), Line("p5", 1),
           Line("p4", 3 - a), Line("p2", 1) >> : a \in {1, 2} }

HalfQuarterQuarter ==
  [s \in Splits |-> IF s = "train" THEN 2 ELSE 1]
=============================================================================
