--------------------------- MODULE GroundingCorpus ---------------------------
(***************************************************************************)
(* What the source passes of data-gen compute, row by row: the unified     *)
(* schema (pass1_schema_unify.py), the diet tags (pass2_vegan_classify.py),*)
(* the deduplication (pass3_dedup.py) and the pools build_prompts.py draws *)
(* its grounding recipes from.                                             *)
(*                                                                         *)
(* Texts are known by what the passes look for in them: an ingredient by   *)
(* the blocklist categories it hits and by whether it holds a plant-based  *)
(* modifier, a section by its heading, a signature by its near-duplicates. *)
(***************************************************************************)
EXTENDS Integers, Sequences, SequencesExt

CONSTANTS
  Near(_, _),  \* the LSH index takes two signatures for near-duplicates
  Blank,       \* an empty text
  Torn         \* the line a killed writer leaves behind

Diets      == {"vegan", "vegetarian"}
Flesh      == {"flesh", "seafood"}
Categories == Flesh \cup {"dairy", "eggs", "byproducts", "hidden"}

-----------------------------------------------------------------------------
(* pass1_schema_unify.py                                                   *)

\* The texts of a wikibooks page that are lines of a type in a section.
Texts(page, line_type, section) ==
  LET hit == SelectSeq(page.text_lines, LAMBDA tl :
               tl.type = line_type /\ tl.section = section /\ tl.text # Blank)
  IN  [i \in DOMAIN hit |-> hit[i].text]

Wikibook(page) ==
  [id |-> page.filename, content_type |-> "structured_recipe",
   signature |-> page.title,
   ingredients |-> Texts(page, "ul", "ingredients"),
   steps |-> Texts(page, "ol", "procedure")]

\* A book or an article has text, but neither ingredients nor steps.
Context(id, content_type) ==
  [id |-> id, content_type |-> content_type, signature |-> id,
   ingredients |-> << >>, steps |-> << >>]

\* The rows in order: pages, the books that can be read, and the articles
\* that are not lists.
Unify(raw) ==
  LET books    == SelectSeq(raw.gutenberg, LAMBDA k : k.readable)
      articles == SelectSeq(raw.wikipedia, LAMBDA a : ~a.list)
  IN  [i \in DOMAIN raw.wikibooks |-> Wikibook(raw.wikibooks[i])]
      \o [i \in DOMAIN books |-> Context(books[i].id, "narrative_recipe")]
      \o [i \in DOMAIN articles |-> Context(articles[i].id, "recipe_context")]

-----------------------------------------------------------------------------
(* pass2_vegan_classify.py                                                 *)

\* The categories that survive the modifier override, made line by line.
\* Variant: a modifier anywhere overrides all lines.
Evidence_WholeRecipe(ingredients) ==
  IF \E i \in Range(ingredients) : i.modifier THEN {}
  ELSE UNION {i.animal : i \in Range(ingredients)}
Evidence(ingredients) ==
  UNION {i.animal : i \in {j \in Range(ingredients) : ~j.modifier}}

ClassifyStructured(ingredients) ==
  LET hit == Evidence(ingredients)
  IN  IF ingredients = << >> THEN "unknown"
      ELSE IF hit \cap Flesh # {} THEN "non_vegetarian"
      ELSE IF hit # {} THEN "vegetarian"
      ELSE "vegan"

DietTag(row) ==
  IF row.content_type = "structured_recipe"
  THEN ClassifyStructured(row.ingredients) ELSE "context"

-----------------------------------------------------------------------------
(* pass3_dedup.py: T[i] is row i of the sources, and a file is a sequence  *)
(* of such numbers.                                                        *)

\* Structured, vegan or vegetarian, and with a word in its signature.
IsCandidate(row) ==
  /\ row.content_type = "structured_recipe"
  /\ DietTag(row) \in Diets
  /\ row.signature # Blank

\* lsh.query(): a row kept before is a near-duplicate of row i.
\* Variants: only the last kept row is looked at; rows that were dropped are
\* in the index, too.
IsNear_Dropped(T, kept, i) ==
  \E k \in 1..(i - 1) : Near(T[k].signature, T[i].signature)
IsNear_LastOnly(T, kept, i) ==
  kept # << >> /\ Near(T[Last(kept)].signature, T[i].signature)
IsNear(T, kept, i) ==
  \E k \in Range(kept) : Near(T[k].signature, T[i].signature)

\* First seen wins.  A row that is no near-duplicate and has the key of a kept
\* one makes lsh.insert() raise: what is kept then is all that is written.
SameKey(T, kept, i) == \E k \in Range(kept) : T[k].id = T[i].id

Insert(T, acc, i) ==
  IF \/ acc.raised \/ ~IsCandidate(T[i]) \/ IsNear(T, acc.kept, i) THEN acc
  ELSE IF SameKey(T, acc.kept, i) THEN [acc EXCEPT !.raised = TRUE]
  ELSE [acc EXCEPT !.kept = Append(@, i)]

\* What is kept of the first n lines of the file.
Dedup(T, file) ==
  LET after[n \in 0..Len(file)] ==
        IF n = 0 THEN [kept |-> << >>, raised |-> FALSE]
                 ELSE Insert(T, after[n - 1], file[n])
  IN  after[Len(file)]

-----------------------------------------------------------------------------
(* build_prompts.py                                                        *)

HasContent(row) == row.ingredients # << >> \/ row.steps # << >>

\* A row suits a template for a diet: adaptation needs something to take out,
\* constraint_cooking nothing.
Suits(template, diet, row) ==
  CASE template = "adaptation" ->
         DietTag(row) \in (IF diet = "vegan" THEN {"vegetarian"} ELSE {})
                          \cup {"non_vegetarian"}
    [] template = "constraint_cooking" ->
         DietTag(row) \in (IF diet = "vegan" THEN {} ELSE {"vegetarian"})
                          \cup {"vegan"}
    [] template = "cross_cuisine" -> TRUE

\* _orig_idx of the rows of a pool: places in the file.
Pool(T, file, template, diet) ==
  {n \in DOMAIN file : /\ HasContent(T[file[n]])
                       /\ Suits(template, diet, T[file[n]])}
=============================================================================
