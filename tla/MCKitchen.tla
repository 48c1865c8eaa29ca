------------------------------ MODULE MCKitchen ------------------------------
(* Small sources for GroundingCorpus.                                      *)
EXTENDS GroundingCorpus

\* Near-duplicates: "dal" and "dal 2", "dal 2" and "dal 3", but not the first
\* and the last.
NearTitles(x, y) ==
  x = y \/ {x, y} \in {{"dal", "dal 2"}, {"dal 2", "dal 3"}}

Food(animal, modifier) == [animal |-> animal, modifier |-> modifier]
Line(type, section, text) == [type |-> type, section |-> section, text |-> text]
Plant == Food({}, FALSE)

\* A page with its ingredients, a blank one among them, and one step.
Page(filename, title, foods) ==
  [filename |-> filename, title |-> title,
   text_lines |-> << Line("ul", "ingredients", Blank) >>
                  \o [i \in DOMAIN foods |-> Line("ul", "ingredients", foods[i])]
                  \o << Line("ul", "notes", Food({"flesh"}, FALSE)),
                        Line("ol", "procedure", Plant) >>]

\* A page without a recipe, three near-duplicates, a paneer curry in coconut
\* milk, a chicken in cream; a book that cannot be read, a list.
Kitchen(last_filename) ==
  [wikibooks |->
     << [filename |-> "index", title |-> "index", text_lines |-> << >>],
        Page("f1", "dal",   << Plant >>),
        Page("f2", "curry", << Food({"dairy"}, FALSE),
                               Food({"dairy"}, TRUE) >>),
        Page("f3", "dal 2", << Plant >>),
        Page("f4", "bird",  << Food({"dairy"}, FALSE),
                               Food({"flesh"}, FALSE) >>),
        Page(last_filename, "dal 3", << Plant >>) >>,
   gutenberg |-> << [id |-> "book", readable |-> TRUE],
                    [id |-> "moth-eaten", readable |-> FALSE] >>,
   wikipedia |-> << [id |-> "list of curries", list |-> TRUE],
                    [id |-> "ghee", list |-> FALSE] >>]

=============================================================================
