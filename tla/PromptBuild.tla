----------------------------- MODULE PromptBuild -----------------------------
(***************************************************************************)
(* From the raw sources to the prompts of the two teacher nodes: the three *)
(* passes of GroundingCorpus, build_prompts.py and split_prompts.py.       *)
(*                                                                         *)
(* The operator runs the five scripts by hand, in any order.  Each opens   *)
(* its output in place and writes it row by row, so that one that dies     *)
(* leaves a prefix of it, maybe with a torn line, over which the next one  *)
(* may be run; a torn line stops all of them but split_prompts.py.         *)
(***************************************************************************)
EXTENDS GroundingCorpus

CONSTANTS
  Corpora,      \* Corpora[r]: what /data/raw may hold
  NoFile,       \* the file is not there
  N,            \* --n
  NIndian,      \* round(n * --indian-cuisine-fraction)
  MaxBuilds,    \* bound: times the prompts are built
  CutAt,        \* bound: how many rows a killed script has written
  MaxKills      \* bound: scripts that are killed

\* The templates: those that draw a recipe, and the others, which draw words
\* from lists, as one.
Grounded        == {"adaptation", "constraint_cooking", "cross_cuisine"}
BaseTemplates   == Grounded \cup {"ungrounded"}
IndianTemplates == {"indian"}

ASSUME PromptAssumption ==
  /\ N \in Nat /\ NIndian \in 0..N /\ MaxBuilds \in Nat
  /\ CutAt \subseteq Nat /\ MaxKills \in Nat

VARIABLES
  raw,      \* /data/raw holds Corpora[raw]
  unified,  \* unified.jsonl
  tagged,   \* tagged.jsonl
  context,  \* grounding_context.jsonl
  diet,     \* structured_recipes_diet_friendly.jsonl
  prompts,  \* the prompt file
  nodes,    \* the two nodes' prompt files
  last,     \* the script run last, and how it ended
  builds,   \* times build_prompts.py wrote
  kills     \* scripts that were killed

vars ==
  <<raw, unified, tagged, context, diet, prompts, nodes, last, builds, kills>>

\* The rows of the sources.  The passes copy rows, so that the files are
\* sequences of row numbers, and a tag is a function of its row.
AllRows == [r \in DOMAIN Corpora |-> Unify(Corpora[r])]
T       == AllRows[raw]

\* The rows of a source are a sequence, and an ingredient hits categories of
\* the blocklist.
ASSUME CorpusAssumption ==
  \A r \in DOMAIN Corpora :
    /\ Len(AllRows[r]) \in Nat /\ DOMAIN AllRows[r] = 1..Len(AllRows[r])
    /\ Torn \notin DOMAIN AllRows[r]
    /\ \A n \in DOMAIN AllRows[r] : \A i \in Range(AllRows[r][n].ingredients) :
         i.animal \subseteq Categories

Init ==
  /\ raw \in DOMAIN Corpora
  /\ unified = NoFile /\ tagged = NoFile
  /\ context = NoFile /\ diet = NoFile
  /\ prompts = NoFile
  /\ nodes = [k \in 0..1 |-> NoFile]
  /\ last = [script |-> "none", end |-> "done"]
  /\ builds = 0 /\ kills = 0

\* How much of its input a script reads before a torn line, which is the
\* last, raises.
IsTorn(file)   == Torn \in Range(file)
Readable(file) == IF IsTorn(file) THEN Front(file) ELSE file

\* What a killed writer leaves of a file: some rows, the last one torn or not.
Cut(file) ==
  LET kept == {SubSeq(file, 1, n) : n \in CutAt \cap 0..Len(file)}
  IN  kept \cup {Append(s, Torn) : s \in kept \ {file}}

Ends(script, end) == last' = [script |-> script, end |-> end] /\ UNCHANGED kills

Killed(script) ==
  /\ kills < MaxKills
  /\ kills' = kills + 1
  /\ last' = [script |-> script, end |-> "killed"]

\* A script that writes one file runs to its end, dies of its input, or is
\* killed.
Writes(script, file, rows, raises) ==
  \/ file = rows /\ Ends(script, IF raises THEN "raised" ELSE "done")
  \/ file \in Cut(rows) /\ Killed(script)

-----------------------------------------------------------------------------

Pass1 ==
  /\ Writes("pass1", unified', [i \in DOMAIN T |-> i], FALSE)
  /\ UNCHANGED <<raw, tagged, context, diet, prompts, nodes, builds>>

Pass2 ==
  /\ unified # NoFile
  /\ Writes("pass2", tagged', Readable(unified), IsTorn(unified))
  /\ UNCHANGED <<raw, unified, context, diet, prompts, nodes, builds>>

\* All rows go to the context file first, and only then is the diet file
\* opened: a script that ends before that leaves the diet file of an earlier
\* one beside a new context file.
Pass3 ==
  /\ tagged # NoFile
  /\ LET rows  == Readable(tagged)
         dedup == Dedup(T, rows)
     IN  \/ /\ IsTorn(tagged)
            /\ context' = rows
            /\ Ends("pass3", "raised")
            /\ UNCHANGED diet
         \/ /\ context' \in Cut(rows)
            /\ Killed("pass3")
            /\ UNCHANGED diet
         \/ /\ ~IsTorn(tagged)
            /\ context' = rows
            /\ Writes("pass3", diet', dedup.kept, dedup.raised)
  /\ UNCHANGED <<raw, unified, tagged, prompts, nodes, builds>>

-----------------------------------------------------------------------------

\* The file a template's pool is built from.
GroundFile(template) == IF template = "constraint_cooking" THEN diet ELSE context

\* Variant: rows are numbered after those without content are dropped.
OrigIdx_Rich(file, n) == Cardinality({m \in 1..n : HasContent(T[file[m]])})
OrigIdx(file, n) == n

\* What fill_template() may make of a template and a diet; recipe is the row
\* behind the excerpt, 0 (null) if there is none.
Drawn(template, d) ==
  LET file == GroundFile(template)
      Prompt(index, recipe) ==
        [template |-> template, dietary_preference |-> d,
         grounding_row_id |-> index, recipe |-> recipe]
  IN  IF template \in Grounded
      THEN {Prompt(OrigIdx(file, n), file[n]) :
              n \in Pool(T, file, template, d)}
      ELSE {Prompt(0, 0)}

Draws(templates) == UNION {Drawn(t, d) : t \in templates, d \in Diets}

\* No pool is empty.
PoolsFilled ==
  \A t \in Grounded, d \in Diets : Pool(T, GroundFile(t), t, d) # {}

\* The base prompts come first; the request_id is the place in the file.
BuildPrompts ==
  /\ builds < MaxBuilds
  /\ builds' = builds + 1
  /\ NoFile \notin {context, diet}
  /\ ~IsTorn(context) /\ ~IsTorn(diet)
  /\ PoolsFilled
  /\ \E base \in [1..(N - NIndian) -> Draws(BaseTemplates)],
        indian \in [1..NIndian -> Draws(IndianTemplates)] :
       Writes("build_prompts", prompts', base \o indian, FALSE)
  /\ UNCHANGED <<raw, unified, tagged, context, diet, nodes>>

\* The node a line goes to.  Variant: the first half and the second half.
NodeOf_Halves(i) == IF 2 * i <= N + 1 THEN 0 ELSE 1
NodeOf(i) == (i - 1) % 2

\* Variant: a prompt is counted after it is written.
RequestId_Before(i) == i - 1
RequestId(i) == i

\* The lines of a node, with their request_ids; they are not parsed.
Share(k) ==
  LET mine == {i \in DOMAIN prompts : NodeOf(i) = k}
  IN  {[request_id |-> RequestId(i), line |-> prompts[i]] : i \in mine}

\* Both files are open at once; a killed script leaves any part of them.
SplitPrompts ==
  /\ prompts # NoFile
  /\ \/ /\ nodes' = [k \in 0..1 |-> Share(k)]
        /\ Ends("split_prompts", "done")
     \/ /\ \E n, m \in CutAt : nodes' =
             [k \in 0..1 |-> {p \in Share(k) :
                                p.request_id <= IF k = 0 THEN n ELSE m}]
        /\ Killed("split_prompts")
  /\ UNCHANGED <<raw, unified, tagged, context, diet, prompts, builds>>

-----------------------------------------------------------------------------

Next == Pass1 \/ Pass2 \/ Pass3 \/ BuildPrompts \/ SplitPrompts

Spec == Init /\ [][Next]_vars

-----------------------------------------------------------------------------
(* Properties.                                                             *)

File(S) == Seq(S \cup {Torn}) \cup {NoFile}

Prompts ==
  [template : BaseTemplates \cup IndianTemplates, dietary_preference : Diets,
   grounding_row_id : Nat, recipe : Nat]

TypeOK ==
  /\ raw \in DOMAIN Corpora
  /\ \A f \in {unified, tagged, context, diet} : f \in File(DOMAIN T)
  /\ prompts \in File(Prompts)
  /\ \A k \in 0..1 : nodes[k] # NoFile =>
       \A p \in nodes[k] : p.request_id \in 1..N
  /\ last.end \in {"done", "raised", "killed"}
  /\ builds \in 0..MaxBuilds /\ kills \in 0..MaxKills

\* The script that ran last came to its end.
Done(script) == last = [script |-> script, end |-> "done"]

\* No two recipes of the diet file are near-duplicates, although the relation
\* is not transitive and each is compared with the kept ones only (pass 3).
NoNearDuplicates ==
  diet # NoFile => \A i, j \in DOMAIN diet :
    (i < j /\ Torn \notin {diet[i], diet[j]})
      => ~Near(T[diet[i]].signature, T[diet[j]].signature)

\* A pass 3 that ends has dropped a candidate only for an earlier candidate
\* that is kept and is its near-duplicate.
DroppedIsRepresented ==
  Done("pass3") =>
    \A i \in DOMAIN tagged : IsCandidate(T[tagged[i]]) =>
      \/ tagged[i] \in Range(diet)
      \/ \E j \in 1..(i - 1) :
           /\ tagged[j] \in Range(diet)
           /\ Near(T[tagged[j]].signature, T[tagged[i]].signature)

\* What a prompt asks for can be done: of the ingredients of its recipe that
\* are not plant-based by their name, constraint_cooking uses none that the
\* diet forbids and adaptation has at least one to take out, whatever files a
\* dead script left (pass 2's tags and the pools of build_prompts.py).
Forbidden(d) == IF d = "vegan" THEN Categories ELSE Flesh
Offends(recipe, d) ==
  \E i \in Range(T[recipe].ingredients) :
    ~i.modifier /\ i.animal \cap Forbidden(d) # {}

PromptsFitTheirDiet ==
  prompts # NoFile => \A i \in DOMAIN prompts : prompts[i] # Torn =>
    LET p == prompts[i]
    IN  /\ p.template = "constraint_cooking"
             => ~Offends(p.recipe, p.dietary_preference)
        /\ p.template = "adaptation"
             => Offends(p.recipe, p.dietary_preference)

\* A grounding_row_id points to the recipe its prompt was made of, in every
\* later version of the file that has that row (_orig_idx, "for traceability").
PointersTrace ==
  prompts # NoFile => \A i \in DOMAIN prompts : prompts[i] # Torn =>
    LET p    == prompts[i]
        file == GroundFile(p.template)
    IN  (p.template \in Grounded /\ file # NoFile
           /\ p.grounding_row_id \in DOMAIN file
           /\ file[p.grounding_row_id] # Torn)
          => file[p.grounding_row_id] = p.recipe

\* A split that ends gives every prompt of the file to exactly one node, with
\* the request_id it has in the file, and each node its half of the base
\* prompts and of the Indian ones, give or take one.
SplitIsFair ==
  Done("split_prompts") =>
    LET Ids(k) == {p.request_id : p \in nodes[k]}
        Fair(S) == Cardinality(Ids(0) \cap S) - Cardinality(Ids(1) \cap S)
                     \in -1..1
    IN  /\ Ids(0) \cap Ids(1) = {} /\ Ids(0) \cup Ids(1) = DOMAIN prompts
        /\ \A k \in 0..1 : \A p \in nodes[k] : p.line = prompts[p.request_id]
        /\ Fair(1..(N - NIndian)) /\ Fair((N - NIndian + 1)..N)
=============================================================================
