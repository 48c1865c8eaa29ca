---------------------------- MODULE MCRecipeSplit ----------------------------
(***************************************************************************)
(* DatasetPrep over prompts that build_prompts.py makes of the kitchen:    *)
(* what the teacher answers and the split sees of a recipe is its place in *)
(* the file its template draws from.                                       *)
(***************************************************************************)
EXTENDS DatasetPrep, MCKitchen

T       == Unify(Kitchen("f5"))
context == [i \in DOMAIN T |-> i]
diet    == Dedup(T, context).kept

\* Three prompts: what they ask for, and the titles of their recipes.
Asked ==
  [p1 |-> <<"constraint_cooking", "vegetarian", "curry">>,
   p2 |-> <<"adaptation", "vegan", "curry">>,
   p3 |-> <<"adaptation", "vegetarian", "bird">>]

FileOf(p) == IF Asked[p][1] = "constraint_cooking" THEN diet ELSE context

RowIds ==
  [p \in Ids |-> CHOOSE n \in Pool(T, FileOf(p), Asked[p][1], Asked[p][2]) :
                   T[FileOf(p)[n]].signature = Asked[p][3]]

OneNight == { << [id |-> "p1", answer |-> 1], [id |-> "p2", answer |-> 1],
                 [id |-> "p3", answer |-> 1] >> }

NodePrompts == {Ids}

HalfQuarterQuarter == [s \in Splits |-> IF s = "train" THEN 2 ELSE 1]

\* The recipe behind a line.
Recipe(i) == FileOf(lines[i].id)[Grounding[lines[i].id]]

\* Rows that were generated from the same grounding recipe land in the same
\* split, whatever template they are of (split_dataset.py).
NoRecipeTwice ==
  Complete => \A s, t \in Splits : \A i \in files[s], j \in files[t] :
                Recipe(i) = Recipe(j) => s = t
=============================================================================
