----------------------------- MODULE DatasetPrep -----------------------------
(***************************************************************************)
(* The preparation of the training set in data-gen: filter_clean.py pools  *)
(* the teacher's lines into clean.jsonl, to_chat_format.py turns that into *)
(* chat.jsonl, and split_dataset.py splits it into train, val and test.    *)
(*                                                                         *)
(* The operator runs the three scripts by hand, one at a time and in any   *)
(* order, while the teacher may still be adding lines to the one file that *)
(* is pooled.  A row is known by its line there, so that the other files   *)
(* are sets of line numbers; each is written aside and put in place at     *)
(* once, the three files of a split one after the other.                   *)
(***************************************************************************)
EXTENDS Integers, Sequences, FiniteSets

CONSTANTS
  Ids,        \* request_ids of the prompts
  Grounding,  \* Grounding[p]: grounding_row_id of prompt p, or NoExcerpt
  NoExcerpt,  \* null
  PromptFiles,\* the sets of ids of the files --valid-ids may name
  Histories,  \* what the teacher may write: sequences of [id, answer], where
              \* answer is its length, 0 for an unreadable or unclean line
  Weight,     \* Weight[s]: --train, --val and --test, as integers
  DropNum,    \* --max-drop-frac is DropNum / DropDen
  DropDen

Splits == {"train", "val", "test"}
Total  == Weight["train"] + Weight["val"] + Weight["test"]

ASSUME DatasetAssumption ==
  /\ DOMAIN Grounding = Ids
  /\ PromptFiles \subseteq SUBSET Ids
  /\ Histories \subseteq Seq([id : Ids, answer : Nat])
  /\ Weight \in [Splits -> Nat]
  /\ Total > 0
  /\ DropNum \in Nat /\ DropDen \in Nat \ {0}

NoFile == {0}    \* no line has the number 0

VARIABLES
  lines,       \* all the lines the teacher is going to write
  arrived,     \* how many of them it has written
  pc,          \* what runs: "scan" (filter), "place" or the name of the file
               \* that is replaced next (split), or "idle"
  cursor,      \* lines the filter has read
  by_id,       \* the line it keeps for each request_id, or 0
  clean,       \* clean.jsonl
  cleanRead,   \* history: lines the filter that wrote it had read
  chat,        \* chat.jsonl
  rows,        \* what the split has read
  todo,        \* groups it has not placed yet
  split_rows,  \* what it has placed in each split
  files,       \* train.jsonl, val.jsonl and test.jsonl
  mixed        \* history: the three files are not of one split

filter == <<cursor, by_id>>
split  == <<rows, todo, split_rows>>
vars   == <<lines, arrived, pc, filter, clean, cleanRead, chat, split, files,
            mixed>>

\* group_key(): rows of one excerpt belong together, others stand alone.
SameGroup(i, j) ==
  \/ i = j
  \/ /\ Grounding[lines[i].id] # NoExcerpt
     /\ Grounding[lines[i].id] = Grounding[lines[j].id]

GroupsOf(R) == {{j \in R : SameGroup(i, j)} : i \in R}

\* How far split s is below its target, times Total.
Deficit(s) ==
  Weight[s] * Cardinality(rows) - Total * Cardinality(split_rows[s])

\* The filter prefers line i to the line it has kept for the same prompt.
\* Variant: the last line wins.
Prefers_Last(i, kept) == TRUE
Prefers(i, kept) == kept = 0 \/ lines[i].answer > lines[kept].answer

Init ==
  /\ lines \in Histories
  /\ arrived = 0
  /\ pc = "idle"
  /\ cursor = 0 /\ by_id = [p \in Ids |-> 0]
  /\ clean = NoFile /\ cleanRead = 0
  /\ chat = NoFile
  /\ rows = {} /\ todo = {} /\ split_rows = [s \in Splits |-> {}]
  /\ files = [s \in Splits |-> NoFile]
  /\ mixed = FALSE

\* The teacher writes a line.
Arrive ==
  /\ arrived < Len(lines)
  /\ arrived' = arrived + 1
  /\ UNCHANGED <<lines, pc, filter, clean, cleanRead, chat, split, files,
                 mixed>>

\* The script in hand stops, by itself (--strict, too much dropped) or not:
\* what it has not put in place is lost.
Stop ==
  /\ pc # "idle"
  /\ pc' = "idle"
  /\ cursor' = 0 /\ by_id' = [p \in Ids |-> 0]
  /\ rows' = {} /\ todo' = {} /\ split_rows' = [s \in Splits |-> {}]
  /\ UNCHANGED <<lines, arrived, clean, cleanRead, chat, files, mixed>>

-----------------------------------------------------------------------------
(* filter_clean.py                                                         *)

StartFilter ==
  /\ pc = "idle"
  /\ pc' = "scan"
  /\ UNCHANGED <<lines, arrived, filter, clean, cleanRead, chat, split, files,
                 mixed>>

\* Variant: one line too many.
Unread_OffByOne == cursor <= arrived
Unread == cursor < arrived

\* The next line: an unclean one is skipped, of two answers to a prompt the
\* longer one is kept.
ScanLine ==
  /\ pc = "scan" /\ Unread
  /\ cursor' = cursor + 1
  /\ LET i == cursor + 1
         p == lines[i].id
     IN  by_id' = IF lines[i].answer > 0 /\ Prefers(i, by_id[p])
                  THEN [by_id EXCEPT ![p] = i] ELSE by_id
  /\ UNCHANGED <<lines, arrived, pc, clean, cleanRead, chat, split, files,
                 mixed>>

\* by_id.values().  Variant: all clean lines that were read.
Deduped_Pooled == {i \in 1..cursor : lines[i].answer > 0}
Deduped == {by_id[p] : p \in Ids} \ {0}

\* The validity filter would not drop more than --max-drop-frac.
\* Variant: the guard is not there.
DropsFew_Any(kept) == TRUE
DropsFew(kept) ==
  DropDen * Cardinality(Deduped \ kept) <= DropNum * Cardinality(Deduped)

\* The lines of the prompts in the --valid-ids files, if any are given,
\* replace clean.jsonl.
WriteClean(valid_ids) ==
  LET valid == UNION valid_ids
      kept  == IF valid_ids = {} THEN Deduped
               ELSE {i \in Deduped : lines[i].id \in valid}
  IN  /\ pc = "scan"
      /\ valid_ids # {} => valid # {}
      /\ DropsFew(kept)
      /\ clean' = kept
      /\ cleanRead' = cursor
      /\ pc' = "idle"
      /\ cursor' = 0 /\ by_id' = [p \in Ids |-> 0]
      /\ UNCHANGED <<lines, arrived, chat, split, files, mixed>>

\* to_chat_format.py: the rows of clean.jsonl all pass its check again.
ToChat ==
  /\ pc = "idle" /\ clean # NoFile
  /\ chat' = clean
  /\ UNCHANGED <<lines, arrived, pc, filter, clean, cleanRead, split, files,
                 mixed>>

-----------------------------------------------------------------------------
(* split_dataset.py                                                        *)

\* chat.jsonl is read, unless it is empty, and its groups are built.
StartSplit ==
  /\ pc = "idle" /\ chat \notin {NoFile, {}}
  /\ rows' = chat
  /\ todo' = GroupsOf(chat)
  /\ pc' = "place"
  /\ UNCHANGED <<lines, arrived, filter, clean, cleanRead, chat, split_rows,
                 files, mixed>>

\* Variant: the first one that is below its target.
Furthest_First(s) == Deficit(s) > 0
Furthest(s) == \A t \in Splits : Deficit(t) <= Deficit(s)

\* A largest group goes to a split furthest below its target.  Which group
\* of a size comes first is up to the shuffle, which split of a deficit to
\* the order of the names and the rounding of floats.
Place(G, s) ==
  /\ pc = "place"
  /\ \A H \in todo : Cardinality(H) <= Cardinality(G)
  /\ Furthest(s)
  /\ split_rows' = [split_rows EXCEPT ![s] = @ \cup G]
  /\ todo' = todo \ {G}
  /\ UNCHANGED <<lines, arrived, pc, filter, clean, cleanRead, chat, rows,
                 files, mixed>>

\* The leakage assertion: no excerpt is in two splits.
NoneLeaks ==
  \A s, t \in Splits : s # t =>
    \A i \in split_rows[s], j \in split_rows[t] :
      Grounding[lines[i].id] # NoExcerpt
        => Grounding[lines[i].id] # Grounding[lines[j].id]

CheckLeakage ==
  /\ pc = "place" /\ todo = {}
  /\ NoneLeaks
  /\ pc' = "train"
  /\ UNCHANGED <<lines, arrived, filter, clean, cleanRead, chat, split, files,
                 mixed>>

\* The order in which the files are replaced.
After(s) ==
  CASE s = "train" -> "val" [] s = "val" -> "test" [] OTHER -> "idle"

\* The file a split gets.  Variant: a split without rows is not written.
Written_NoEmpty(s) == IF split_rows[s] = {} THEN files[s] ELSE split_rows[s]
Written(s) == split_rows[s]

\* The file of split s is replaced; the script ends with the last one.
WriteSplit(s) ==
  /\ pc = s
  /\ files' = [files EXCEPT ![s] = Written(s)]
  /\ pc' = After(s)
  /\ mixed' = (After(s) # "idle")
  /\ IF After(s) = "idle"
     THEN rows' = {} /\ todo' = {} /\ split_rows' = [t \in Splits |-> {}]
     ELSE UNCHANGED split
  /\ UNCHANGED <<lines, arrived, filter, clean, cleanRead, chat>>

-----------------------------------------------------------------------------

Next ==
  \/ Arrive \/ Stop
  \/ StartFilter \/ ScanLine
  \/ \E valid_ids \in SUBSET PromptFiles : WriteClean(valid_ids)
  \/ ToChat
  \/ StartSplit \/ CheckLeakage
  \/ \E G \in todo, s \in Splits : Place(G, s)
  \/ \E s \in Splits : WriteSplit(s)

Spec == Init /\ [][Next]_vars

-----------------------------------------------------------------------------
(* Properties.                                                             *)

Numbers == 1..Len(lines)

FilterTypeOK ==
  /\ lines \in Histories
  /\ arrived \in 0..Len(lines)
  /\ cursor \in 0..arrived
  /\ by_id \in [Ids -> {0} \cup Numbers]
  /\ clean \in (SUBSET Numbers) \cup {NoFile}
  /\ cleanRead \in 0..arrived

SplitTypeOK ==
  /\ pc \in {"idle", "scan", "place"} \cup Splits
  /\ chat \in (SUBSET Numbers) \cup {NoFile}
  /\ rows \in SUBSET Numbers
  /\ todo \subseteq SUBSET rows
  /\ split_rows \in [Splits -> SUBSET rows]
  /\ files \in [Splits -> (SUBSET Numbers) \cup {NoFile}]
  /\ mixed \in BOOLEAN

TypeOK == FilterTypeOK /\ SplitTypeOK

\* clean.jsonl has one row per prompt: its longest answer among the lines
\* the filter had read.  Of the prompts that had one it may lack a few, as
\* many as --max-drop-frac says (main of filter_clean.py).
Answered == {p \in Ids : \E i \in 1..cleanRead :
                           lines[i].id = p /\ lines[i].answer > 0}

CleanHasLongest ==
  clean # NoFile =>
    /\ \A i \in clean, j \in 1..cleanRead :
         lines[i].id = lines[j].id =>
           /\ lines[i].answer >= lines[j].answer
           /\ j \in clean => i = j
    /\ DropDen * (Cardinality(Answered) - Cardinality(clean))
         <= DropNum * Cardinality(Answered)

\* The three files are there, and of one split.
Complete == ~mixed /\ \A s \in Splits : files[s] # NoFile

\* No prompt has two rows in the data set, in one file or in two: it is the
\* filter that keeps the rows of a prompt without an excerpt together.
NoPromptTwice ==
  Complete => \A s, t \in Splits : \A i \in files[s], j \in files[t] :
                lines[i].id = lines[j].id => i = j /\ s = t

\* No excerpt is in two files of a finished split, over any number of
\* splits, interrupted ones included, that wrote the same three files.
NoExcerptTwice ==
  Complete => \A s, t \in Splits : \A i \in files[s], j \in files[t] :
                Grounding[lines[i].id] # NoExcerpt
                  /\ Grounding[lines[i].id] = Grounding[lines[j].id] => s = t

\* No file is further from its target, above or below, than two thirds of
\* the largest group (the placement by deficit).
Distance(s, n) ==
  LET d == Weight[s] * n - Total * Cardinality(files[s])
  IN  IF d < 0 THEN -d ELSE d

NearTarget ==
  Complete =>
    LET all == UNION {files[s] : s \in Splits}
    IN  \E G \in GroupsOf(all) : \A s \in Splits :
          3 * Distance(s, Cardinality(all)) <= 2 * Total * Cardinality(G)
=============================================================================
