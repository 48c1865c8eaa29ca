------------------------- MODULE DatasetPrepProofs -------------------------
(***************************************************************************)
(* Proofs about DatasetPrep, for any prompts, any lines of the teacher and *)
(* any sequence of scripts, interrupted ones included: what clean.jsonl    *)
(* holds of the teacher's answers, and that the finished data set has no   *)
(* prompt in two rows, no excerpt in two files, and files near the sizes   *)
(* that were asked for.                                                    *)
(***************************************************************************)
EXTENDS DatasetPrep, DataInduction

-----------------------------------------------------------------------------
(* The inductive invariant.                                                *)

\* What the filter keeps for prompt p after n lines: the longest of its clean
\* answers, or nothing when it has none.
Longest(p, kept, n) ==
  IF kept = 0
  THEN \A j \in 1..n : lines[j].id = p => lines[j].answer = 0
  ELSE /\ kept \in 1..n /\ lines[kept].id = p /\ lines[kept].answer > 0
       /\ \A j \in 1..n : lines[j].id = p
                            => lines[j].answer <= lines[kept].answer

ScanInv ==
  /\ pc # "scan" => cursor = 0
  /\ \A p \in Ids : Longest(p, by_id[p], cursor)

\* The three steps hand on rows that are one per prompt.
OnePerPrompt(R) == \A i, j \in R : lines[i].id = lines[j].id => i = j

CleanInv == clean # NoFile => clean \subseteq 1..cleanRead

ChatInv == chat # NoFile => OnePerPrompt(chat)

\* A row is in one split, or in a group that is to be placed.
PlaceInv ==
  /\ pc \notin {"place"} \cup Splits => \A s \in Splits : split_rows[s] = {}
  /\ OnePerPrompt(rows)
  /\ todo \subseteq GroupsOf(rows)
  /\ \A s \in Splits : \A G \in todo : split_rows[s] \cap G = {}
  /\ \A s, t \in Splits : s # t => split_rows[s] \cap split_rows[t] = {}

\* While the files are replaced, those that come first are of this split.
WriteInv ==
  /\ pc \in Splits => NoneLeaks
  /\ pc \in {"val", "test"} => mixed /\ files["train"] = split_rows["train"]
  /\ pc = "test" => files["val"] = split_rows["val"]

DatasetInv ==
  /\ TypeOK /\ ScanInv /\ CleanInv /\ ChatInv /\ PlaceInv /\ WriteInv
  /\ CleanHasLongest /\ NoPromptTwice /\ NoExcerptTwice

-----------------------------------------------------------------------------
(* Lines, groups and counts.                                               *)

LEMMA ElementOfSeq ==
  ASSUME NEW S, NEW s \in Seq(S)
  PROVE  Len(s) \in Nat /\ \A i \in 1..Len(s) : s[i] \in S
OBVIOUS

LEMMA LineFacts ==
  ASSUME TypeOK
  PROVE  /\ Len(lines) \in Nat
         /\ \A i \in 1..Len(lines) : lines[i].id \in Ids /\ lines[i].answer \in Nat
         /\ arrived \in Nat /\ arrived <= Len(lines)
         /\ cursor \in Nat /\ cursor <= arrived
         /\ cleanRead \in Nat /\ cleanRead <= arrived
<1>1. lines \in Seq([id : Ids, answer : Nat])
  BY DatasetAssumption DEF TypeOK, FilterTypeOK
<1>2. Len(lines) \in Nat
      /\ \A i \in 1..Len(lines) : lines[i] \in [id : Ids, answer : Nat]
  BY <1>1, ElementOfSeq
<1> QED
  BY <1>2 DEF TypeOK, FilterTypeOK

\* The groups of the rows are a partition.
LEMMA GroupsDisjoint ==
  ASSUME NEW R, NEW G \in GroupsOf(R), NEW H \in GroupsOf(R), G # H
  PROVE  G \cap H = {}
<1>1. PICK g \in R : G = {j \in R : SameGroup(g, j)}
  BY DEF GroupsOf
<1>2. PICK h \in R : H = {j \in R : SameGroup(h, j)}
  BY DEF GroupsOf
<1>3. ASSUME NEW x \in R, SameGroup(g, x), SameGroup(h, x), NEW j \in R
      PROVE  SameGroup(g, j) <=> SameGroup(h, j)
  BY <1>3 DEF SameGroup
<1> QED
  BY <1>1, <1>2, <1>3

\* As many lines are kept as prompts have a clean one.
LEMMA DedupedCount ==
  ASSUME NEW K, K \subseteq Deduped, DatasetInv,
         NEW A, A = {p \in Ids : \E i \in 1..cursor :
                                   lines[i].id = p /\ lines[i].answer > 0}
  PROVE  /\ Cardinality(Deduped) = Cardinality(A)
         /\ Cardinality(Deduped \ K) = Cardinality(A) - Cardinality(K)
<1> DEFINE D == Deduped
           f == [p \in A |-> by_id[p]]
<1>1. cursor \in Nat /\ cursor <= Len(lines) /\ Len(lines) \in Nat
      /\ \A i \in 1..cursor : lines[i].id \in Ids /\ lines[i].answer \in Nat
  BY LineFacts DEF DatasetInv
<1>2. \A p \in Ids : Longest(p, by_id[p], cursor)
  BY DEF DatasetInv, ScanInv
<1>3. \A p \in Ids : p \in A <=> by_id[p] # 0
  BY <1>1, <1>2 DEF Longest
<1>4. D \subseteq 1..cursor
  BY <1>2 DEF Deduped, Longest
<1>5. IsFiniteSet(D)
  <2>1. IsFiniteSet(1..cursor)
    BY <1>1, FS_Interval
  <2> QED
    BY <2>1, <1>4, FS_Subset
<1>6. f \in Injection(A, D)
  <2>1. f \in [A -> D]
    BY <1>3 DEF Deduped
  <2>2. \A p, q \in A : f[p] = f[q] => p = q
    BY <1>2, <1>3 DEF Longest
  <2> QED
    BY <2>1, <2>2 DEF Injection, IsInjective
<1>7. f \in Surjection(A, D)
  BY <1>3, <1>6 DEF Injection, Surjection, Deduped
<1>8. Cardinality(A) = Cardinality(D)
  BY <1>5, <1>6, <1>7, FS_Injection
<1>9. Cardinality(D \ K) = Cardinality(D) - Cardinality(D \cap K)
  BY <1>5, FS_Difference
<1>10. D \cap K = K
  OBVIOUS
<1> QED
  BY <1>8, <1>9, <1>10

-----------------------------------------------------------------------------
(* What a step leaves alone.                                               *)

LEMMA LinesStay == [Next]_vars => lines' = lines
BY DEF Next, vars, Arrive, Stop, StartFilter, ScanLine, WriteClean, ToChat,
       StartSplit, Place, CheckLeakage, WriteSplit, filter, split

LEMMA ScanKept ==
  ASSUME ScanInv, UNCHANGED <<lines, filter>>, pc' # "scan" => pc # "scan"
  PROVE  ScanInv'
BY DEF ScanInv, Longest, filter

LEMMA CleanKept ==
  ASSUME CleanInv, CleanHasLongest, UNCHANGED <<lines, clean, cleanRead>>
  PROVE  CleanInv' /\ CleanHasLongest'
BY DEF CleanInv, CleanHasLongest, Answered

LEMMA ChatKept ==
  ASSUME ChatInv, UNCHANGED <<lines, chat>>
  PROVE  ChatInv'
BY DEF ChatInv, OnePerPrompt

LEMMA SplitKept ==
  ASSUME PlaceInv, UNCHANGED <<lines, split>>,
         pc' \notin {"place"} \cup Splits => pc \notin {"place"} \cup Splits
  PROVE  PlaceInv'
BY DEF PlaceInv, OnePerPrompt, GroupsOf, SameGroup, split

LEMMA WriteKept ==
  ASSUME WriteInv, UNCHANGED <<lines, split, files, mixed>>,
         pc' \in Splits => pc' = pc
  PROVE  WriteInv'
BY DEF WriteInv, NoneLeaks, split, Splits

LEMMA FilesKept ==
  ASSUME NoPromptTwice, NoExcerptTwice, UNCHANGED <<lines, files, mixed>>
  PROVE  NoPromptTwice' /\ NoExcerptTwice'
BY DEF NoPromptTwice, NoExcerptTwice, Complete

-----------------------------------------------------------------------------
(* Types.                                                                  *)

LEMMA InitType == Init => TypeOK
<1> SUFFICES ASSUME Init PROVE TypeOK
  OBVIOUS
<1>1. lines \in Seq([id : Ids, answer : Nat])
  BY DatasetAssumption DEF Init
<1>2. Len(lines) \in Nat
  BY <1>1
<1>3. FilterTypeOK
  <2>1. by_id \in [Ids -> {0} \cup Numbers] /\ clean \in {NoFile}
    BY DEF Init
  <2> QED
    BY <1>2, <2>1 DEF Init, FilterTypeOK
<1>4. SplitTypeOK
  BY DEF Init, SplitTypeOK
<1> QED
  BY <1>3, <1>4 DEF TypeOK

LEMMA FilterTypeStep == TypeOK /\ [Next]_vars => FilterTypeOK'
<1> SUFFICES ASSUME TypeOK, [Next]_vars PROVE FilterTypeOK'
  OBVIOUS
<1> USE LineFacts DEF TypeOK, FilterTypeOK, Numbers
<1>1. CASE Arrive
  BY <1>1 DEF Arrive, filter
<1>2. CASE Stop
  BY <1>2 DEF Stop
<1>3. CASE ScanLine
  <2>1. cursor + 1 \in 1..Len(lines) /\ cursor + 1 \in 0..arrived
    BY <1>3 DEF ScanLine, Unread
  <2>2. by_id' \in [Ids -> {0} \cup Numbers]
    BY <1>3, <2>1 DEF ScanLine
  <2> QED
    BY <1>3, <2>1, <2>2 DEF ScanLine
<1>4. ASSUME NEW valid_ids \in SUBSET PromptFiles, WriteClean(valid_ids)
      PROVE  FilterTypeOK'
  <2>1. clean' \subseteq Deduped
    BY <1>4 DEF WriteClean
  <2>2. Deduped \subseteq Numbers
    BY DEF Deduped
  <2>3. clean' \in (SUBSET Numbers) \cup {NoFile}
    BY <2>1, <2>2
  <2>4. cursor' \in 0..arrived' /\ cleanRead' \in 0..arrived'
    BY <1>4 DEF WriteClean
  <2>5. by_id' \in [Ids -> {0} \cup Numbers]
    BY <1>4 DEF WriteClean
  <2>6. UNCHANGED <<lines, arrived>>
    BY <1>4 DEF WriteClean
  <2> QED
    BY <2>3, <2>4, <2>5, <2>6
<1>5. CASE UNCHANGED <<lines, arrived, filter, clean, cleanRead>>
  BY <1>5 DEF filter
<1> QED
  BY <1>1, <1>2, <1>3, <1>4, <1>5
     DEF Next, vars, StartFilter, ToChat, StartSplit, Place, CheckLeakage,
         WriteSplit

LEMMA SplitTypeStep == TypeOK /\ PlaceInv /\ [Next]_vars => SplitTypeOK'
<1> SUFFICES ASSUME TypeOK, PlaceInv, [Next]_vars PROVE SplitTypeOK'
  OBVIOUS
<1> USE DEF TypeOK, FilterTypeOK, SplitTypeOK, Numbers
<1>1. lines' = lines
  BY LinesStay
<1>2. CASE Stop
  BY <1>1, <1>2 DEF Stop
<1>3. CASE ToChat
  BY <1>1, <1>3 DEF ToChat, split
<1>4. CASE StartSplit
  <2>1. chat \in SUBSET Numbers
    BY <1>4 DEF StartSplit
  <2>2. GroupsOf(chat) \subseteq SUBSET chat
    BY DEF GroupsOf
  <2>3. split_rows' \in [Splits -> SUBSET rows']
    BY <1>4 DEF StartSplit, PlaceInv, Splits
  <2> QED
    BY <1>1, <1>4, <2>1, <2>2, <2>3 DEF StartSplit
<1>5. ASSUME NEW G \in todo, NEW s \in Splits, Place(G, s) PROVE SplitTypeOK'
  BY <1>1, <1>5 DEF Place
<1>6. ASSUME NEW s \in Splits, WriteSplit(s) PROVE SplitTypeOK'
  <2>1. After(s) \in {"idle"} \cup Splits /\ Written(s) \in SUBSET Numbers
    BY DEF After, Written, Splits
  <2>2. files' \in [Splits -> (SUBSET Numbers) \cup {NoFile}]
    BY <1>6, <2>1 DEF WriteSplit
  <2>3. CASE After(s) = "idle"
    BY <1>1, <1>6, <2>1, <2>2, <2>3 DEF WriteSplit
  <2>4. CASE After(s) # "idle"
    BY <1>1, <1>6, <2>1, <2>2, <2>4 DEF WriteSplit, split
  <2> QED
    BY <2>3, <2>4
<1>7. CASE /\ pc' \in {pc, "idle", "scan", "train"}
           /\ UNCHANGED <<chat, split, files, mixed>>
  BY <1>1, <1>7 DEF split, Splits
<1> QED
  BY <1>2, <1>3, <1>4, <1>5, <1>6, <1>7
     DEF Next, vars, Arrive, StartFilter, ScanLine, WriteClean, CheckLeakage

-----------------------------------------------------------------------------
(* The filter and the conversion.                                          *)

\* The properties but for the types, which have lemmas of their own.
Contents ==
  /\ ScanInv /\ CleanInv /\ ChatInv /\ PlaceInv /\ WriteInv
  /\ CleanHasLongest /\ NoPromptTwice /\ NoExcerptTwice

LEMMA InitContents == Init => Contents
<1> SUFFICES ASSUME Init PROVE Contents
  OBVIOUS
<1>1. ScanInv /\ CleanInv /\ ChatInv /\ CleanHasLongest
  BY DEF Init, ScanInv, Longest, CleanInv, ChatInv, CleanHasLongest
<1>2. PlaceInv /\ WriteInv
  BY DEF Init, PlaceInv, WriteInv, OnePerPrompt, Splits
<1>3. ~Complete
  BY DEF Init, Complete, Splits
<1> QED
  BY <1>1, <1>2, <1>3 DEF Contents, NoPromptTwice, NoExcerptTwice

LEMMA ScanLineContents == DatasetInv /\ ScanLine => Contents'
<1> SUFFICES ASSUME DatasetInv, ScanLine PROVE Contents'
  OBVIOUS
<1> DEFINE i == cursor + 1
           q == lines[i].id
<1>1. /\ UNCHANGED <<lines, arrived, pc, clean, cleanRead, chat, split, files, mixed>>
      /\ cursor' = i /\ pc = "scan" /\ cursor < arrived
      /\ by_id' = IF lines[i].answer > 0 /\ Prefers(i, by_id[q])
                  THEN [by_id EXCEPT ![q] = i] ELSE by_id
  BY DEF ScanLine, Unread
<1>2. /\ Len(lines) \in Nat /\ cursor \in Nat /\ arrived \in Nat /\ arrived <= Len(lines)
      /\ \A j \in 1..Len(lines) : lines[j].id \in Ids /\ lines[j].answer \in Nat
  BY LineFacts DEF DatasetInv
<1>3. i \in 1..Len(lines) /\ 1..i = 1..cursor \cup {i} /\ i \notin 1..cursor
      /\ 1..cursor \subseteq 1..Len(lines)
  BY <1>1, <1>2
<1>4. /\ q \in Ids
      /\ by_id \in [Ids -> {0} \cup 1..Len(lines)]
      /\ \A p \in Ids : Longest(p, by_id[p], cursor)
  BY <1>2, <1>3 DEF DatasetInv, TypeOK, FilterTypeOK, Numbers, ScanInv
<1>5. ASSUME NEW p \in Ids, lines[i].id = p => lines[i].answer <= 0
      PROVE  by_id[p] = 0 => Longest(p, 0, i)
  BY <1>2, <1>3, <1>4, <1>5 DEF Longest
<1>6. ASSUME NEW p \in Ids, by_id[p] # 0,
             lines[i].id = p => lines[i].answer <= lines[by_id[p]].answer
      PROVE  Longest(p, by_id[p], i)
  BY <1>2, <1>3, <1>4, <1>6 DEF Longest
<1>7. ASSUME lines[i].answer > 0, Prefers(i, by_id[q])
      PROVE  Longest(q, i, i)
  <2>1. ASSUME NEW j \in 1..cursor, lines[j].id = q
        PROVE  lines[j].answer <= lines[i].answer
    <3> HIDE DEF i
    <3>1. CASE by_id[q] = 0
      BY <1>2, <1>3, <1>4, <1>7, <2>1, <3>1 DEF Longest
    <3>2. CASE by_id[q] # 0
      <4> DEFINE kept == by_id[q]
      <4>1. kept \in 1..cursor /\ lines[j].answer <= lines[kept].answer
        BY <1>4, <2>1, <3>2 DEF Longest
      <4>2. lines[i].answer > lines[kept].answer
        BY <1>7, <3>2 DEF Prefers
      <4> HIDE DEF kept
      <4> QED
        BY <1>2, <1>3, <2>1, <4>1, <4>2
    <3> QED
      BY <3>1, <3>2
  <2>2. i # 0 /\ i \in 1..i
    BY <1>2
  <2> QED
    BY <1>2, <1>3, <1>7, <2>1, <2>2 DEF Longest
<1>8. \A p \in Ids : Longest(p, by_id'[p], i)
  <2> HIDE DEF i
  <2>1. CASE lines[i].answer > 0 /\ Prefers(i, by_id[q])
    BY <1>1, <1>2, <1>3, <1>4, <1>5, <1>6, <1>7, <2>1
  <2>2. CASE ~(lines[i].answer > 0 /\ Prefers(i, by_id[q]))
    <3> SUFFICES ASSUME NEW p \in Ids PROVE Longest(p, by_id'[p], i)
      OBVIOUS
    <3>1. by_id' = by_id
      BY <1>1, <2>2
    <3>2. CASE by_id[p] = 0
      <4>1. lines[i].id = p => ~(lines[i].answer > 0)
        BY <2>2, <3>2 DEF Prefers
      <4>2. lines[i].answer \in Nat
        BY <1>2, <1>3
      <4>3. lines[i].id = p => lines[i].answer <= 0
        BY <4>1, <4>2
      <4> QED
        BY <1>5, <3>1, <3>2, <4>3
    <3>3. CASE by_id[p] # 0
      <4>1. lines[i].id = p => \/ ~(lines[i].answer > 0)
                              \/ ~(lines[i].answer > lines[by_id[p]].answer)
        BY <2>2, <3>3 DEF Prefers
      <4>2. by_id[p] \in 1..Len(lines)
        BY <1>4, <3>3
      <4>3. lines[i].answer \in Nat /\ lines[by_id[p]].answer \in Nat
        BY <1>2, <1>3, <4>2
      <4>4. lines[i].id = p => lines[i].answer <= lines[by_id[p]].answer
        BY <4>1, <4>3
      <4> QED
        BY <1>6, <3>1, <3>3, <4>4
    <3> QED
      BY <3>2, <3>3
  <2> QED
    BY <2>1, <2>2
<1>9. ScanInv'
  BY <1>1, <1>8 DEF ScanInv, Longest
<1> QED
  BY <1>1, <1>9, CleanKept, ChatKept, SplitKept, WriteKept, FilesKept
     DEF DatasetInv, Contents

\* What the filter writes is the longest answers, less the few that the
\* validity filter drops.
LEMMA WriteCleanContents ==
  ASSUME DatasetInv, NEW valid_ids \in SUBSET PromptFiles, WriteClean(valid_ids)
  PROVE  Contents'
<1>1. /\ UNCHANGED <<lines, arrived, chat, split, files, mixed>>
      /\ pc = "scan" /\ pc' = "idle" /\ cursor' = 0
      /\ cleanRead' = cursor /\ by_id' = [p \in Ids |-> 0]
      /\ clean' \subseteq Deduped /\ DropsFew(clean')
  BY DEF WriteClean
<1>2. \A p \in Ids : Longest(p, by_id[p], cursor)
  BY DEF DatasetInv, ScanInv
<1>3. /\ Len(lines) \in Nat /\ cursor \in Nat /\ cursor <= Len(lines)
      /\ \A j \in 1..Len(lines) : lines[j].id \in Ids /\ lines[j].answer \in Nat
  BY LineFacts DEF DatasetInv
<1>4. CleanInv'
  BY <1>1, <1>2 DEF CleanInv, Deduped, Longest
<1>5. ASSUME NEW k \in clean', NEW j \in 1..cursor, lines[k].id = lines[j].id
      PROVE  /\ lines[k].answer >= lines[j].answer
             /\ j \in clean' => k = j
  <2>1. PICK p \in Ids : k = by_id[p] /\ k # 0
    BY <1>1 DEF Deduped
  <2>2. k \in 1..cursor /\ lines[k].id = p /\ lines[j].answer <= lines[k].answer
    BY <1>2, <1>5, <2>1 DEF Longest
  <2>3. CASE j \in clean'
    <3>1. PICK r \in Ids : j = by_id[r] /\ j # 0
      BY <1>1, <2>3 DEF Deduped
    <3>2. r = p
      BY <1>2, <1>5, <2>2, <3>1 DEF Longest
    <3> QED
      BY <1>3, <2>1, <2>2, <3>1, <3>2
  <2> QED
    BY <1>3, <2>2, <2>3
<1>6. DropDen * (Cardinality(Answered') - Cardinality(clean'))
        <= DropNum * Cardinality(Answered')
  <2>1. Answered' = {p \in Ids : \E i \in 1..cursor :
                                   lines[i].id = p /\ lines[i].answer > 0}
    BY <1>1 DEF Answered
  <2>2. Cardinality(Deduped) = Cardinality(Answered')
        /\ Cardinality(Deduped \ clean')
             = Cardinality(Answered') - Cardinality(clean')
    BY <1>1, <2>1, DedupedCount
  <2> QED
    BY <1>1, <2>2 DEF DropsFew
<1>7. CleanHasLongest'
  BY <1>1, <1>5, <1>6 DEF CleanHasLongest
<1>8. ScanInv'
  BY <1>1 DEF ScanInv, Longest
<1> QED
  BY <1>1, <1>4, <1>7, <1>8, ChatKept, SplitKept, WriteKept, FilesKept
     DEF DatasetInv, Contents, Splits

LEMMA ToChatContents == DatasetInv /\ ToChat => Contents'
<1> SUFFICES ASSUME DatasetInv, ToChat PROVE Contents'
  OBVIOUS
<1>1. UNCHANGED <<lines, arrived, pc, filter, clean, cleanRead, split, files,
                  mixed>>
      /\ chat' = clean /\ clean # NoFile
  BY DEF ToChat
<1>2. ChatInv'
  BY <1>1 DEF ChatInv, OnePerPrompt, DatasetInv, CleanInv, CleanHasLongest
<1> QED
  BY <1>1, <1>2, ScanKept, CleanKept, SplitKept, WriteKept, FilesKept
     DEF DatasetInv, Contents

-----------------------------------------------------------------------------
(* The split.                                                              *)

LEMMA StartSplitContents == DatasetInv /\ StartSplit => Contents'
<1> SUFFICES ASSUME DatasetInv, StartSplit PROVE Contents'
  OBVIOUS
<1>1. /\ UNCHANGED <<lines, filter, clean, cleanRead, chat, split_rows, files, mixed>>
      /\ pc = "idle" /\ pc' = "place" /\ chat # NoFile
      /\ rows' = chat /\ todo' = GroupsOf(chat)
  BY DEF StartSplit
<1>2. \A s \in Splits : split_rows[s] = {}
  BY <1>1 DEF DatasetInv, PlaceInv, Splits
<1>3. OnePerPrompt(rows)'
  BY <1>1 DEF DatasetInv, ChatInv, OnePerPrompt
<1>4. todo' = GroupsOf(rows)'
  BY <1>1 DEF GroupsOf, SameGroup
<1>5. PlaceInv'
  BY <1>1, <1>2, <1>3, <1>4 DEF PlaceInv
<1>6. WriteInv'
  BY <1>1 DEF WriteInv, Splits
<1> QED
  BY <1>1, <1>5, <1>6, ScanKept, CleanKept, ChatKept, FilesKept
     DEF DatasetInv, Contents

LEMMA PlaceContents ==
  ASSUME DatasetInv, NEW G \in todo, NEW s \in Splits, Place(G, s)
  PROVE  Contents'
<1>1. /\ UNCHANGED <<lines, pc, filter, clean, cleanRead, chat, rows, files, mixed>>
      /\ pc = "place" /\ todo' = todo \ {G}
      /\ split_rows' = [split_rows EXCEPT ![s] = @ \cup G]
  BY DEF Place
<1>2. /\ \A t \in Splits : split_rows'[t] = IF t = s THEN split_rows[t] \cup G
                                             ELSE split_rows[t]
      /\ PlaceInv
  BY <1>1 DEF DatasetInv, TypeOK, SplitTypeOK
<1>3. \A H \in todo' : G \cap H = {}
  BY <1>1, <1>2, GroupsDisjoint DEF PlaceInv
<1>4. OnePerPrompt(rows)' /\ todo' \subseteq GroupsOf(rows)'
  BY <1>1, <1>2 DEF PlaceInv, OnePerPrompt, GroupsOf, SameGroup
<1>5. \A t \in Splits : \A H \in todo' : split_rows'[t] \cap H = {}
  BY <1>1, <1>2, <1>3 DEF PlaceInv
<1>6. \A t, u \in Splits : t # u => split_rows'[t] \cap split_rows'[u] = {}
  BY <1>2 DEF PlaceInv
<1>7. PlaceInv'
  BY <1>1, <1>4, <1>5, <1>6 DEF PlaceInv
<1>8. WriteInv'
  BY <1>1 DEF WriteInv, Splits
<1> QED
  BY <1>1, <1>7, <1>8, ScanKept, CleanKept, ChatKept, FilesKept
     DEF DatasetInv, Contents

LEMMA CheckLeakageContents == DatasetInv /\ CheckLeakage => Contents'
<1> SUFFICES ASSUME DatasetInv, CheckLeakage PROVE Contents'
  OBVIOUS
<1>1. /\ UNCHANGED <<lines, filter, clean, cleanRead, chat, split, files, mixed>>
      /\ pc = "place" /\ pc' = "train" /\ NoneLeaks
  BY DEF CheckLeakage
<1>2. NoneLeaks'
  BY <1>1 DEF NoneLeaks, split
<1>3. WriteInv'
  BY <1>1, <1>2 DEF WriteInv
<1> QED
  BY <1>1, <1>3, ScanKept, CleanKept, ChatKept, SplitKept, FilesKept
     DEF DatasetInv, Contents, Splits

\* The last file makes the data set complete: all three are of this split.
LEMMA LastFile ==
  ASSUME DatasetInv, WriteSplit("test")
  PROVE  NoPromptTwice' /\ NoExcerptTwice'
<1>1. /\ lines' = lines /\ pc = "test"
      /\ files' = [files EXCEPT !["test"] = split_rows["test"]]
  BY DEF WriteSplit, Written
<1>2. \A s \in Splits : files'[s] = split_rows[s]
  BY <1>1 DEF DatasetInv, TypeOK, SplitTypeOK, WriteInv, Splits
<1>3. \A s \in Splits : split_rows[s] \subseteq rows
  BY DEF DatasetInv, TypeOK, SplitTypeOK
<1>4. /\ OnePerPrompt(rows) /\ NoneLeaks
      /\ \A s, t \in Splits : s # t => split_rows[s] \cap split_rows[t] = {}
  BY <1>1 DEF DatasetInv, PlaceInv, WriteInv, Splits
<1>5. ASSUME NEW s \in Splits, NEW t \in Splits,
             NEW i \in files'[s], NEW j \in files'[t]
      PROVE  /\ lines'[i].id = lines'[j].id => i = j /\ s = t
             /\ Grounding[lines'[i].id] # NoExcerpt
                  /\ Grounding[lines'[i].id] = Grounding[lines'[j].id] => s = t
  BY <1>1, <1>2, <1>3, <1>4, <1>5 DEF OnePerPrompt, NoneLeaks
<1> QED
  BY <1>5 DEF NoPromptTwice, NoExcerptTwice

LEMMA WriteSplitContents ==
  ASSUME DatasetInv, NEW s \in Splits, WriteSplit(s)
  PROVE  Contents'
<1>1. /\ UNCHANGED <<lines, filter, clean, cleanRead, chat>>
      /\ pc = s /\ pc' = After(s) /\ mixed' = (After(s) # "idle")
      /\ files' = [files EXCEPT ![s] = split_rows[s]]
      /\ IF After(s) = "idle"
         THEN rows' = {} /\ todo' = {} /\ split_rows' = [t \in Splits |-> {}]
         ELSE UNCHANGED split
  BY DEF WriteSplit, Written, filter
<1>2. ScanInv' /\ CleanInv' /\ CleanHasLongest' /\ ChatInv'
  BY <1>1, ScanKept, CleanKept, ChatKept DEF DatasetInv, Splits
<1>3. CASE s = "test"
  <2>1. /\ pc' = "idle" /\ rows' = {} /\ todo' = {}
        /\ \A t \in Splits : split_rows'[t] = {}
    BY <1>1, <1>3 DEF After
  <2>2. PlaceInv' /\ WriteInv'
    BY <2>1 DEF PlaceInv, WriteInv, OnePerPrompt, Splits
  <2> QED
    BY <1>2, <1>3, <2>2, LastFile DEF Contents
<1>4. CASE s # "test"
  <2>1. /\ pc' \in {"val", "test"} /\ (pc' = "test" <=> s = "val")
        /\ (pc' = "val" <=> s = "train")
        /\ mixed' /\ UNCHANGED split
    BY <1>1, <1>4 DEF After, Splits
  <2>2. NoPromptTwice' /\ NoExcerptTwice'
    BY <2>1 DEF NoPromptTwice, NoExcerptTwice, Complete
  <2>3. PlaceInv'
    <3>1. PlaceInv /\ UNCHANGED <<lines, split>> /\ pc' \in Splits
      BY <1>1, <2>1 DEF DatasetInv, Splits
    <3> QED
      BY <3>1, SplitKept
  <2>4. /\ NoneLeaks /\ files \in [Splits -> (SUBSET Numbers) \cup {NoFile}]
        /\ s = "val" => files["train"] = split_rows["train"]
    <3>1. TypeOK /\ WriteInv
      BY DEF DatasetInv
    <3>2. NoneLeaks /\ (s = "val" => files["train"] = split_rows["train"])
      BY <1>1, <3>1 DEF WriteInv
    <3> QED
      BY <3>1, <3>2 DEF TypeOK, SplitTypeOK
  <2>5. NoneLeaks'
    BY <1>1, <2>1, <2>4 DEF NoneLeaks, split
  <2>6. UNCHANGED split_rows
    BY <2>1 DEF split
  <2>7. files'[s] = split_rows[s] /\ (s # "train" => files'["train"] = files["train"])
    BY <1>1, <2>4 DEF Splits
  <2>8. pc' \in {"val", "test"} => files'["train"] = split_rows'["train"]
    BY <1>1, <1>4, <2>4, <2>6, <2>7 DEF Splits
  <2>9. pc' = "test" => files'["val"] = split_rows'["val"]
    BY <2>1, <2>6, <2>7
  <2>10. WriteInv'
    BY <2>1, <2>5, <2>8, <2>9 DEF WriteInv
  <2> QED
    BY <1>2, <2>2, <2>3, <2>10 DEF Contents
<1> QED
  BY <1>3, <1>4

\* A script that stops leaves the files as they are.
LEMMA StopContents == DatasetInv /\ Stop => Contents'
<1> SUFFICES ASSUME DatasetInv, Stop PROVE Contents'
  OBVIOUS
<1>1. /\ UNCHANGED <<lines, arrived, clean, cleanRead, chat, files, mixed>>
      /\ pc' = "idle" /\ cursor' = 0 /\ by_id' = [p \in Ids |-> 0]
      /\ rows' = {} /\ todo' = {} /\ split_rows' = [s \in Splits |-> {}]
  BY DEF Stop
<1>2. ScanInv'
  BY <1>1 DEF ScanInv, Longest
<1>3. PlaceInv' /\ WriteInv'
  BY <1>1 DEF PlaceInv, WriteInv, OnePerPrompt, Splits
<1> QED
  BY <1>1, <1>2, <1>3, CleanKept, ChatKept, FilesKept DEF DatasetInv, Contents

-----------------------------------------------------------------------------
(* The theorems.                                                           *)

LEMMA NextDataset == DatasetInv /\ [Next]_vars => DatasetInv'
<1> SUFFICES ASSUME DatasetInv, [Next]_vars PROVE DatasetInv'
  OBVIOUS
<1>1. TypeOK'
  BY FilterTypeStep, SplitTypeStep DEF DatasetInv, TypeOK
<1> SUFFICES Contents'
  BY <1>1 DEF Contents, DatasetInv
<1>2. CASE /\ UNCHANGED <<lines, filter, clean, cleanRead, chat, split, files, mixed>>
           /\ pc' = pc \/ (pc = "idle" /\ pc' = "scan")
  BY <1>2, ScanKept, CleanKept, ChatKept, SplitKept, WriteKept, FilesKept
     DEF DatasetInv, Contents, Splits
<1>3. CASE Arrive \/ StartFilter \/ UNCHANGED vars
  BY <1>2, <1>3 DEF Arrive, StartFilter, vars
<1>4. CASE Stop \/ ScanLine \/ ToChat
  BY <1>4, StopContents, ScanLineContents, ToChatContents
<1>5. CASE \E valid_ids \in SUBSET PromptFiles : WriteClean(valid_ids)
  BY <1>5, WriteCleanContents
<1>6. CASE StartSplit \/ CheckLeakage
  BY <1>6, StartSplitContents, CheckLeakageContents
<1>7. CASE \E G \in todo, s \in Splits : Place(G, s)
  BY <1>7, PlaceContents
<1>8. CASE \E s \in Splits : WriteSplit(s)
  BY <1>8, WriteSplitContents
<1> QED
  BY <1>3, <1>4, <1>5, <1>6, <1>7, <1>8 DEF Next

LEMMA AlwaysDataset == Spec => []DatasetInv
<1>1. Init => DatasetInv
  BY InitType, InitContents DEF Contents, DatasetInv
<1> QED
  BY <1>1, NextDataset, PTL DEF Spec

\* The files and the scripts' variables keep their types, whenever a script
\* stops.
THEOREM DatasetTypeCorrect == Spec => []TypeOK
<1>1. DatasetInv => TypeOK
  BY DEF DatasetInv
<1> QED
  BY <1>1, AlwaysDataset, PTL

\* clean.jsonl has each prompt's longest answer among the lines that were
\* there for the filter to read, and lacks no more prompts than
\* --max-drop-frac allows (main of filter_clean.py).
THEOREM CleanIsLongest == Spec => []CleanHasLongest
<1>1. DatasetInv => CleanHasLongest
  BY DEF DatasetInv
<1> QED
  BY <1>1, AlwaysDataset, PTL

\* No prompt has two rows in a finished data set (the deduplication of
\* filter_clean.py, as split_dataset.py hands it on).
THEOREM OneRowPerPrompt == Spec => []NoPromptTwice
<1>1. DatasetInv => NoPromptTwice
  BY DEF DatasetInv
<1> QED
  BY <1>1, AlwaysDataset, PTL

\* No excerpt is in two files of a finished data set, after any number of
\* splits that were interrupted between two files (split_dataset.py).
THEOREM OneFilePerExcerpt == Spec => []NoExcerptTwice
<1>1. DatasetInv => NoExcerptTwice
  BY DEF DatasetInv
<1> QED
  BY <1>1, AlwaysDataset, PTL


-----------------------------------------------------------------------------
(* The placement by deficit.                                               *)

\* No split is far above its target, and of the splits that got a group none
\* is far above another.
Balanced(M) ==
  \A s, t \in Splits :
    /\ 3 * Deficit(s) >= -(2 * M)
    /\ split_rows[s] # {} => Deficit(s) >= Deficit(t) - M

\* Far is what a largest group weighs.
BalanceInv ==
  pc \in {"place"} \cup Splits =>
    /\ \A i \in rows : (\E G \in todo : i \in G)
                       \/ (\E s \in Splits : i \in split_rows[s])
    /\ pc # "place" => todo = {}
    /\ \E G \in GroupsOf(rows) :
         /\ \A H \in GroupsOf(rows) : Cardinality(H) <= Cardinality(G)
         /\ Balanced(Total * Cardinality(G))

NearInv == DatasetInv /\ BalanceInv /\ NearTarget

LEMMA WeightFacts ==
  /\ Weight["train"] \in Nat /\ Weight["val"] \in Nat /\ Weight["test"] \in Nat
  /\ \A s \in Splits : Weight[s] \in Nat
  /\ Total \in Nat /\ Total > 0
  /\ Total = Weight["train"] + Weight["val"] + Weight["test"]
<1>1. \A s \in Splits : Weight[s] \in Nat
  BY DatasetAssumption DEF DatasetAssumption
<1>2. Weight["train"] \in Nat /\ Weight["val"] \in Nat /\ Weight["test"] \in Nat
  BY <1>1 DEF Splits
<1> QED
  BY <1>1, <1>2, DatasetAssumption DEF DatasetAssumption, Total

LEMMA RowsAreFinite ==
  ASSUME TypeOK
  PROVE  /\ IsFiniteSet(rows) /\ Cardinality(rows) \in Nat
         /\ \A S \in SUBSET rows : /\ IsFiniteSet(S) /\ Cardinality(S) \in Nat
                                   /\ Cardinality(S) <= Cardinality(rows)
         /\ \A s \in Splits : split_rows[s] \in SUBSET rows
         /\ todo \subseteq SUBSET rows
<1>1. rows \in SUBSET (1..Len(lines)) /\ Len(lines) \in Nat
  BY LineFacts DEF TypeOK, SplitTypeOK, Numbers
<1>2. IsFiniteSet(1..Len(lines))
  BY <1>1, FS_Interval
<1>3. IsFiniteSet(rows)
  BY <1>1, <1>2, FS_Subset
<1>4. \A S \in SUBSET rows : IsFiniteSet(S) /\ Cardinality(S) <= Cardinality(rows)
  BY <1>3, FS_Subset
<1> QED
  BY <1>3, <1>4, FS_CardinalityType DEF TypeOK, SplitTypeOK

\* As many rows are placed as the splits have, none being in two.
LEMMA DisjointCounts ==
  ASSUME NEW A, NEW B, NEW C, IsFiniteSet(A), IsFiniteSet(B), IsFiniteSet(C),
         A \cap B = {}, A \cap C = {}, B \cap C = {}
  PROVE  /\ Cardinality(A) \in Nat /\ Cardinality(B) \in Nat
         /\ Cardinality(C) \in Nat /\ IsFiniteSet(A \cup B \cup C)
         /\ Cardinality(A \cup B \cup C)
              = Cardinality(A) + Cardinality(B) + Cardinality(C)
<1>1. IsFiniteSet(A \cup B) /\ Cardinality(A \cap B) = 0
      /\ Cardinality(A \cup B)
           = Cardinality(A) + Cardinality(B) - Cardinality(A \cap B)
  BY FS_Union, FS_EmptySet
<1>2. (A \cup B) \cap C = {}
  OBVIOUS
<1>3. IsFiniteSet((A \cup B) \cup C) /\ Cardinality((A \cup B) \cap C) = 0
      /\ Cardinality((A \cup B) \cup C)
           = Cardinality(A \cup B) + Cardinality(C)
               - Cardinality((A \cup B) \cap C)
  BY <1>1, <1>2, FS_Union, FS_EmptySet
<1>4. /\ Cardinality(A) \in Nat /\ Cardinality(B) \in Nat
      /\ Cardinality(C) \in Nat
  BY FS_CardinalityType
<1> QED
  BY <1>1, <1>3, <1>4

\* The deficits are integers, and sum up to what is not placed yet.
LEMMA DeficitSum ==
  ASSUME DatasetInv, NEW R \in SUBSET rows,
         \A s \in Splits : split_rows[s] \cap R = {}
  PROVE  /\ \A s \in Splits : Deficit(s) \in Int
         /\ Cardinality(R) \in Nat /\ Total * Cardinality(R) \in Nat
         /\ Deficit("train") + Deficit("val") + Deficit("test")
              >= Total * Cardinality(R)
         /\ (\A i \in rows : \E s \in Splits : i \in split_rows[s]) =>
              Deficit("train") + Deficit("val") + Deficit("test") = 0
<1> DEFINE A == split_rows["train"]
           B == split_rows["val"]
           C == split_rows["test"]
           n == Cardinality(rows)
           a == Cardinality(A)
           b == Cardinality(B)
           c == Cardinality(C)
           r == Cardinality(R)
           wa == Weight["train"]
           wb == Weight["val"]
           wc == Weight["test"]
           T == Total
<1>1. TypeOK /\ PlaceInv
  BY DEF DatasetInv
<1>2. /\ A \in SUBSET rows /\ B \in SUBSET rows /\ C \in SUBSET rows
      /\ A \cap B = {} /\ A \cap C = {} /\ B \cap C = {}
      /\ A \cap R = {} /\ B \cap R = {} /\ C \cap R = {}
  BY <1>1, RowsAreFinite DEF PlaceInv, Splits
<1>3. /\ IsFiniteSet(A) /\ IsFiniteSet(B) /\ IsFiniteSet(C) /\ IsFiniteSet(R)
      /\ a \in Nat /\ b \in Nat /\ c \in Nat /\ n \in Nat /\ r \in Nat
  BY <1>1, <1>2, RowsAreFinite
<1> HIDE DEF A, B, C
<1>4. IsFiniteSet(A \cup B \cup C) /\ Cardinality(A \cup B \cup C) = a + b + c
  <2>1. /\ IsFiniteSet(A) /\ IsFiniteSet(B) /\ IsFiniteSet(C)
        /\ A \cap B = {} /\ A \cap C = {} /\ B \cap C = {}
    BY <1>2, <1>3
  <2> QED
    BY <2>1, DisjointCounts
<1>5. a + b + c + r <= n
  <2> DEFINE P == A \cup B \cup C
  <2>1. P \cap R = {} /\ P \cup R \in SUBSET rows
    BY <1>2
  <2>2. IsFiniteSet(P) /\ Cardinality(P) = a + b + c
    BY <1>4
  <2> HIDE DEF P
  <2>3. Cardinality(P \cup R)
          = Cardinality(P) + Cardinality(R) - Cardinality(P \cap R)
    BY <1>3, <2>2, FS_Union
  <2>4. Cardinality(P \cap R) = 0
    BY <2>1, FS_EmptySet
  <2>5. Cardinality(P \cup R) <= n
    BY <1>1, <2>1, RowsAreFinite
  <2> QED
    BY <1>3, <2>2, <2>3, <2>4, <2>5
<1>6. ASSUME \A i \in rows : \E s \in Splits : i \in split_rows[s]
      PROVE  a + b + c = n
  <2>1. A \cup B \cup C = rows
    BY <1>2, <1>6 DEF A, B, C, Splits
  <2> QED
    BY <1>4, <2>1
<1>7. /\ wa \in Nat /\ wb \in Nat /\ wc \in Nat /\ T \in Nat /\ T > 0
      /\ T = wa + wb + wc
  BY WeightFacts
<1>8. /\ Deficit("train") = wa * n - T * a
      /\ Deficit("val") = wb * n - T * b
      /\ Deficit("test") = wc * n - T * c
  BY DEF Deficit, A, B, C
<1>9. Splits = {"train", "val", "test"}
  BY DEF Splits
<1> HIDE DEF a, b, c, n, r, wa, wb, wc, T
<1>10. /\ wa * n \in Nat /\ wb * n \in Nat /\ wc * n \in Nat
       /\ T * a \in Nat /\ T * b \in Nat /\ T * c \in Nat
       /\ T * n \in Nat /\ T * r \in Nat
       /\ T * n = wa * n + wb * n + wc * n
       /\ T * (a + b + c) = T * a + T * b + T * c
  BY <1>3, <1>7
<1>11. Deficit("train") + Deficit("val") + Deficit("test")
         = T * n - T * (a + b + c)
  BY <1>8, <1>10
<1>12. T * (a + b + c) + T * r <= T * n
  <2>1. T * ((a + b + c) + r) = T * (a + b + c) + T * r
    BY <1>3, <1>7
  <2>2. PICK k \in Nat : n = a + b + c + r + k
    <3>1. n - (a + b + c + r) \in Nat
      BY <1>3, <1>5
    <3>2. n = a + b + c + r + (n - (a + b + c + r))
      BY <1>3
    <3> QED
      BY <3>1, <3>2
  <2>3. T * n = T * (a + b + c + r) + T * k /\ T * k \in Nat
    BY <1>3, <1>7, <2>2
  <2>4. T * (a + b + c) \in Nat
    BY <1>3, <1>7
  <2> QED
    BY <1>10, <2>1, <2>3, <2>4
<1>13. /\ Deficit("train") \in Int /\ Deficit("val") \in Int
       /\ Deficit("test") \in Int
  BY <1>8, <1>10
<1>14. T * (a + b + c) \in Nat
  BY <1>3, <1>7
<1>15. Deficit("train") + Deficit("val") + Deficit("test") >= T * r
  BY <1>10, <1>11, <1>12, <1>14
<1>16. a + b + c = n =>
         Deficit("train") + Deficit("val") + Deficit("test") = 0
  BY <1>10, <1>11
<1> QED
  BY <1>3, <1>6, <1>9, <1>10, <1>13, <1>15, <1>16 DEF r, T

\* A group goes to a split furthest below its target.
LEMMA PlaceBalance ==
  ASSUME NearInv, NEW G \in todo, NEW s \in Splits, Place(G, s)
  PROVE  BalanceInv'
<1>1. /\ UNCHANGED <<lines, pc, rows>> /\ pc = "place" /\ todo' = todo \ {G}
      /\ split_rows' = [split_rows EXCEPT ![s] = @ \cup G] /\ Furthest(s)
  BY DEF Place
<1>2. DatasetInv /\ TypeOK /\ PlaceInv
  BY DEF NearInv, DatasetInv
<1>3. /\ \A t \in Splits : split_rows'[t] = IF t = s THEN split_rows[s] \cup G
                                                     ELSE split_rows[t]
      /\ G \in GroupsOf(rows) /\ G \in SUBSET rows
      /\ \A t \in Splits : split_rows[t] \cap G = {}
  BY <1>1, <1>2, RowsAreFinite DEF TypeOK, SplitTypeOK, PlaceInv
<1>4. PICK L \in GroupsOf(rows) :
        /\ \A H \in GroupsOf(rows) : Cardinality(H) <= Cardinality(L)
        /\ Balanced(Total * Cardinality(L))
  BY <1>1 DEF NearInv, BalanceInv
<1>5. \A i \in rows : (\E H \in todo : i \in H)
                      \/ (\E t \in Splits : i \in split_rows[t])
  BY <1>1 DEF NearInv, BalanceInv
<1> DEFINE w == Total * Cardinality(G)
           M == Total * Cardinality(L)
           D(t) == Deficit(t)
<1>6. w \in Nat /\ M \in Nat /\ w <= M
  <2>1. L \in SUBSET rows
    BY DEF GroupsOf
  <2>2. /\ Cardinality(G) \in Nat /\ Cardinality(L) \in Nat /\ Total \in Nat
        /\ Cardinality(G) <= Cardinality(L)
    BY <1>2, <1>3, <1>4, <2>1, RowsAreFinite, WeightFacts
  <2> QED
    BY <2>2, ProductGrows
<1>7. /\ \A t \in Splits : D(t) \in Int
      /\ D("train") + D("val") + D("test") >= w
  BY <1>2, <1>3, DeficitSum
<1>8. \A t \in Splits : D(t) <= D(s)
  BY <1>1 DEF Furthest
<1>9. \A t \in Splits : Deficit(t)' = IF t = s THEN D(s) - w ELSE D(t)
  <2>1. ASSUME NEW t \in Splits, t # s
        PROVE  Deficit(t)' = D(t)
    BY <1>1, <1>3, <2>1 DEF Deficit
  <2>2. Deficit(s)' = D(s) - w
    <3>1. /\ Cardinality(split_rows[s] \cup G)
               = Cardinality(split_rows[s]) + Cardinality(G)
          /\ Cardinality(split_rows[s]) \in Nat /\ Cardinality(G) \in Nat
      <4>1. /\ IsFiniteSet(G) /\ IsFiniteSet(split_rows[s])
            /\ Cardinality(split_rows[s]) \in Nat /\ Cardinality(G) \in Nat
        BY <1>2, <1>3, RowsAreFinite
      <4>2. Cardinality(split_rows[s] \cap G) = 0
        BY <1>3, FS_EmptySet
      <4>3. Cardinality(split_rows[s] \cup G)
              = Cardinality(split_rows[s]) + Cardinality(G)
                  - Cardinality(split_rows[s] \cap G)
        BY <4>1, FS_Union
      <4> QED
        BY <4>1, <4>2, <4>3
    <3>2. Deficit(s)' = Weight[s] * Cardinality(rows)
                          - Total * Cardinality(split_rows[s] \cup G)
      BY <1>1, <1>3 DEF Deficit
    <3>3. D(s) = Weight[s] * Cardinality(rows)
                   - Total * Cardinality(split_rows[s])
      BY DEF Deficit
    <3> DEFINE x == Weight[s] * Cardinality(rows)
               y == Cardinality(split_rows[s])
               z == Cardinality(G)
    <3>4. x \in Nat /\ Total \in Nat
      <4>1. Weight[s] \in Nat /\ Cardinality(rows) \in Nat /\ Total \in Nat
        BY <1>2, RowsAreFinite, WeightFacts
      <4> QED
        BY <4>1, ProductGrows
    <3>5. y \in Nat /\ z \in Nat /\ w = Total * z
          /\ Deficit(s)' = x - Total * (y + z) /\ D(s) = x - Total * y
      BY <3>1, <3>2, <3>3
    <3> HIDE DEF x, y, z, w, D
    <3>6. Total * (y + z) = Total * y + Total * z
          /\ Total * y \in Nat /\ Total * z \in Nat
      BY <3>4, <3>5
    <3> QED
      BY <3>4, <3>5, <3>6
  <2> QED
    BY <2>1, <2>2
<1>10. 3 * D(s) >= w
  <2>1. /\ D("train") \in Int /\ D("val") \in Int /\ D("test") \in Int
        /\ D("train") <= D(s) /\ D("val") <= D(s) /\ D("test") <= D(s)
        /\ D(s) \in Int
    BY <1>7, <1>8 DEF Splits
  <2> HIDE DEF D, w
  <2> QED
    BY <1>6, <1>7, <2>1
<1>11. Balanced(M)'
  <2> SUFFICES ASSUME NEW t \in Splits, NEW u \in Splits
               PROVE  /\ 3 * Deficit(t)' >= -(2 * M)
                      /\ split_rows'[t] # {} => Deficit(t)' >= Deficit(u)' - M
    BY <1>1 DEF Balanced
  <2>1. /\ 3 * D(t) >= -(2 * M) /\ 3 * D(s) >= -(2 * M)
        /\ split_rows[t] # {} => D(t) >= D(u) - M /\ D(t) >= D(s) - M
    BY <1>4 DEF Balanced
  <2>2. /\ D(t) \in Int /\ D(u) \in Int /\ D(s) \in Int
        /\ D(u) <= D(s) /\ D(t) <= D(s)
    BY <1>7, <1>8
  <2>3. /\ Deficit(t)' = IF t = s THEN D(s) - w ELSE D(t)
        /\ Deficit(u)' = IF u = s THEN D(s) - w ELSE D(u)
        /\ t # s => split_rows'[t] = split_rows[t]
    BY <1>3, <1>9
  <2> HIDE DEF D, w, M
  <2> QED
    BY <1>6, <1>10, <2>1, <2>2, <2>3
<1>12. GroupsOf(rows)' = GroupsOf(rows)
  BY <1>1 DEF GroupsOf, SameGroup
<1>13. \A i \in rows' : (\E H \in todo' : i \in H)
                        \/ (\E t \in Splits : i \in split_rows'[t])
  BY <1>1, <1>3, <1>5
<1> QED
  BY <1>1, <1>4, <1>11, <1>12, <1>13 DEF BalanceInv

LEMMA GroupsCover ==
  ASSUME NEW R
  PROVE  /\ GroupsOf(R) \in SUBSET (SUBSET R)
         /\ \A i \in R : \E G \in GroupsOf(R) : i \in G
<1>1. ASSUME NEW i \in R
      PROVE  \E G \in GroupsOf(R) : i \in G
  <2> DEFINE G == {j \in R : SameGroup(i, j)}
  <2>1. G \in GroupsOf(R) /\ i \in G
    BY DEF GroupsOf, SameGroup
  <2> QED
    BY <2>1
<1>2. GroupsOf(R) \in SUBSET (SUBSET R)
  BY DEF GroupsOf
<1> QED
  BY <1>1, <1>2

\* A split starts with no rows in its files.
LEMMA StartBalance ==
  ASSUME NearInv, StartSplit
  PROVE  BalanceInv'
<1>1. /\ UNCHANGED <<lines, split_rows>> /\ pc = "idle" /\ pc' = "place"
      /\ rows' = chat /\ todo' = GroupsOf(chat) /\ chat \notin {NoFile, {}}
  BY DEF StartSplit
<1>2. DatasetInv /\ TypeOK /\ PlaceInv
  BY DEF NearInv, DatasetInv
<1>4. \A s \in Splits : split_rows'[s] = {}
  BY <1>1, <1>2 DEF PlaceInv, Splits
<1>5. GroupsOf(rows)' = GroupsOf(chat)
  BY <1>1 DEF GroupsOf, SameGroup
<1>6. IsFiniteSet(rows') /\ Cardinality(rows') \in Nat
  <2>1. chat \in SUBSET (1..Len(lines)) /\ Len(lines) \in Nat
    BY <1>1, <1>2, LineFacts DEF TypeOK, SplitTypeOK, Numbers
  <2>2. IsFiniteSet(1..Len(lines))
    BY <2>1, FS_Interval
  <2>3. IsFiniteSet(chat)
    BY <2>1, <2>2, FS_Subset
  <2> QED
    BY <1>1, <2>3, FS_CardinalityType
<1>7. /\ GroupsOf(chat) \in SUBSET (SUBSET rows') /\ GroupsOf(chat) # {}
      /\ \A i \in chat : \E G \in GroupsOf(chat) : i \in G
  BY <1>1, GroupsCover
<1>8. PICK G \in GroupsOf(chat) :
        \A H \in GroupsOf(chat) : Cardinality(H) <= Cardinality(G)
  BY <1>6, <1>7, LargestMember
<1>9. ASSUME NEW s \in Splits
      PROVE  Deficit(s)' \in Nat
  <2>1. Deficit(s)' = Weight[s] * Cardinality(rows') - Total * 0
    BY <1>4, FS_EmptySet DEF Deficit
  <2>2. Weight[s] * Cardinality(rows') \in Nat
    BY <1>6, WeightFacts, ProductGrows
  <2>3. Total * 0 = 0
    BY WeightFacts
  <2> QED
    BY <2>1, <2>2, <2>3
<1>10. Total * Cardinality(G) \in Nat
  <2>1. Cardinality(G) \in Nat
    <3>1. IsFiniteSet(G)
      BY <1>6, <1>7, FS_Subset
    <3> QED
      BY <3>1, FS_CardinalityType
  <2> QED
    BY <2>1, WeightFacts, ProductGrows
<1>11. Balanced(Total * Cardinality(G))'
  <2> DEFINE M == Total * Cardinality(G)
  <2>1. \A s, t \in Splits : 3 * Deficit(s)' >= -(2 * M)
    <3> HIDE DEF M
    <3>1. M \in Nat
      BY <1>10 DEF M
    <3> QED
      BY <1>9, <3>1
  <2>2. \A s \in Splits : split_rows'[s] = {}
    BY <1>4
  <2> HIDE DEF M
  <2>3. Balanced(M)'
    BY <2>1, <2>2 DEF Balanced
  <2> QED
    BY <2>3 DEF M
<1> QED
  BY <1>1, <1>5, <1>7, <1>8, <1>11 DEF BalanceInv

\* With the last row placed, nobody is far from the target.
LEMMA BalancedEnds ==
  ASSUME DatasetInv, NEW M \in Nat, Balanced(M),
         \A i \in rows : \E s \in Splits : i \in split_rows[s]
  PROVE  \A s \in Splits : Deficit(s) \in Int /\ 3 * Deficit(s) <= 2 * M
                                              /\ 3 * Deficit(s) >= -(2 * M)
<1> DEFINE D(s) == Deficit(s)
<1>1. {} \in SUBSET rows /\ \A s \in Splits : split_rows[s] \cap {} = {}
  OBVIOUS
<1>2. /\ \A s \in Splits : D(s) \in Int
      /\ D("train") + D("val") + D("test") = 0
  BY <1>1, DeficitSum
<1>3. \A s, t \in Splits : /\ 3 * D(s) >= -(2 * M)
                           /\ split_rows[s] # {} => D(s) >= D(t) - M
  BY DEF Balanced
<1>4. \A s \in Splits : split_rows[s] = {} => D(s) >= 0
  <2> SUFFICES ASSUME NEW s \in Splits, split_rows[s] = {} PROVE D(s) >= 0
    OBVIOUS
  <2>1. D(s) = Weight[s] * Cardinality(rows) - Total * 0
    BY FS_EmptySet DEF Deficit
  <2>2. Weight[s] * Cardinality(rows) \in Nat /\ Total * 0 = 0
    BY RowsAreFinite, WeightFacts, ProductGrows DEF DatasetInv
  <2> QED
    BY <2>1, <2>2
<1>5. \A s, t \in Splits :
        3 * D(s) >= -(2 * M) /\ (D(s) >= 0 \/ D(s) >= D(t) - M)
  BY <1>3, <1>4
<1> HIDE DEF D
<1> DEFINE a == D("train")
           b == D("val")
           c == D("test")
<1>6. /\ a \in Int /\ b \in Int /\ c \in Int /\ a + b + c = 0
      /\ 3 * a >= -(2 * M) /\ 3 * b >= -(2 * M) /\ 3 * c >= -(2 * M)
      /\ (a >= 0 \/ a >= b - M) /\ (a >= 0 \/ a >= c - M)
      /\ (b >= 0 \/ b >= a - M) /\ (b >= 0 \/ b >= c - M)
      /\ (c >= 0 \/ c >= a - M) /\ (c >= 0 \/ c >= b - M)
  BY <1>2, <1>5 DEF Splits
<1>7. 3 * a <= 2 * M /\ 3 * b <= 2 * M /\ 3 * c <= 2 * M
  <2> HIDE DEF a, b, c
  <2> QED
    BY <1>6
<1> QED
  BY <1>2, <1>5, <1>7 DEF D, Splits

\* The last file makes the data set complete.
LEMMA LastFileIsNear ==
  ASSUME NearInv, WriteSplit("test")
  PROVE  NearTarget'
<1>1. /\ lines' = lines /\ pc = "test"
      /\ files' = [files EXCEPT !["test"] = split_rows["test"]]
  BY DEF WriteSplit, Written
<1>2. DatasetInv /\ TypeOK
  BY DEF NearInv, DatasetInv
<1>3. \A s \in Splits : files'[s] = split_rows[s]
  BY <1>1, <1>2 DEF DatasetInv, TypeOK, SplitTypeOK, WriteInv, Splits
<1>4. \A i \in rows : \E s \in Splits : i \in split_rows[s]
  BY <1>1 DEF NearInv, BalanceInv, Splits
<1>5. PICK G \in GroupsOf(rows) : Balanced(Total * Cardinality(G))
  BY <1>1 DEF NearInv, BalanceInv, Splits
<1> DEFINE all == UNION {files'[s] : s \in Splits}
           M == Total * Cardinality(G)
<1>6. all = rows
  <2>1. \A s \in Splits : split_rows[s] \subseteq rows
    BY <1>2, RowsAreFinite
  <2> QED
    BY <1>3, <1>4, <2>1
<1>7. M \in Nat
  <2>1. G \in SUBSET rows
    BY DEF GroupsOf
  <2>2. Cardinality(G) \in Nat
    BY <1>2, <2>1, RowsAreFinite
  <2> QED
    BY <2>2, WeightFacts, ProductGrows
<1>8. \A s \in Splits : Deficit(s) \in Int /\ 3 * Deficit(s) <= 2 * M
                                           /\ 3 * Deficit(s) >= -(2 * M)
  <2> HIDE DEF M
  <2>1. Balanced(M)
    BY <1>5 DEF M
  <2> QED
    BY <1>2, <1>4, <1>7, <2>1, BalancedEnds
<1>9. ASSUME NEW s \in Splits
      PROVE  LET d == Weight[s] * Cardinality(all)
                        - Total * Cardinality(files'[s])
             IN  3 * (IF d < 0 THEN -d ELSE d) <= 2 * Total * Cardinality(G)
  <2> DEFINE d == Deficit(s)
             m == Cardinality(G)
  <2>1. d = Weight[s] * Cardinality(all) - Total * Cardinality(files'[s])
    BY <1>3, <1>6 DEF Deficit
  <2>2. d \in Int /\ 3 * d <= 2 * M /\ 3 * d >= -(2 * M) /\ M \in Nat
    BY <1>7, <1>8
  <2>3. 2 * Total * m = 2 * M
    <3>1. Total \in Nat /\ m \in Nat
      <4>1. G \in SUBSET rows
        BY DEF GroupsOf
      <4> QED
        BY <1>2, <4>1, RowsAreFinite, WeightFacts
    <3>2. M = Total * m
      OBVIOUS
    <3> HIDE DEF m, M
    <3> QED
      BY <3>1, <3>2
  <2> HIDE DEF d, M, all
  <2>4. 3 * (IF d < 0 THEN -d ELSE d) <= 2 * M
    BY <2>2
  <2> QED
    BY <2>1, <2>3, <2>4
<1>10. GroupsOf(rows) = {{j \in all : SameGroup(i, j)'} : i \in all}
  <2> HIDE DEF all
  <2> QED
    BY <1>1, <1>6 DEF GroupsOf, SameGroup
<1>11. \E H \in {{j \in all : SameGroup(i, j)'} : i \in all} :
         \A s \in Splits :
           LET d == Weight[s] * Cardinality(all)
                      - Total * Cardinality(files'[s])
           IN  3 * (IF d < 0 THEN -d ELSE d) <= 2 * Total * Cardinality(H)
  BY <1>9, <1>10
<1> QED
  BY <1>11 DEF NearTarget, Distance, GroupsOf

LEMMA NextNear == NearInv /\ [Next]_vars => NearInv'
<1> SUFFICES ASSUME NearInv, [Next]_vars PROVE NearInv'
  OBVIOUS
<1>1. DatasetInv /\ DatasetInv'
  BY NextDataset DEF NearInv
<1>2. ASSUME UNCHANGED <<lines, files, mixed>>
      PROVE  NearTarget'
  BY <1>2 DEF NearInv, NearTarget, Complete, Distance, GroupsOf, SameGroup
<1>3. ASSUME pc' \notin {"place"} \cup Splits
      PROVE  BalanceInv'
  BY <1>3 DEF BalanceInv
<1>4. ASSUME UNCHANGED <<lines, split>>, pc \in {"place"} \cup Splits,
             pc' # "place" => todo = {}
      PROVE  BalanceInv'
  <2>1. UNCHANGED <<rows, todo, split_rows>>
    BY <1>4 DEF split
  <2> QED
    BY <1>4, <2>1
    DEF NearInv, BalanceInv, Balanced, Deficit, GroupsOf, SameGroup
<1>5. CASE Arrive \/ StartFilter \/ UNCHANGED vars
  <2>1. /\ UNCHANGED <<lines, files, mixed, split>>
        /\ pc' = pc \/ pc' = "scan"
    BY <1>5 DEF Arrive, StartFilter, vars
  <2>2. CASE pc' = pc /\ pc \in {"place"} \cup Splits
    <3>1. pc' # "place" => todo = {}
      BY <2>2 DEF NearInv, BalanceInv
    <3> QED
      BY <1>1, <1>2, <1>4, <2>1, <2>2, <3>1 DEF NearInv
  <2>3. CASE pc' \notin {"place"} \cup Splits
    BY <1>1, <1>2, <1>3, <2>1, <2>3 DEF NearInv
  <2> QED
    BY <2>1, <2>2, <2>3 DEF Splits
<1>6. CASE Stop \/ ScanLine \/ ToChat
           \/ \E valid_ids \in SUBSET PromptFiles : WriteClean(valid_ids)
  <2>1. UNCHANGED <<lines, files, mixed>> /\ pc' \in {"idle", "scan"}
    BY <1>6 DEF Stop, ScanLine, ToChat, WriteClean
  <2> QED
    BY <1>1, <1>2, <1>3, <2>1 DEF NearInv, Splits
<1>7. CASE StartSplit
  <2>1. UNCHANGED <<lines, files, mixed>>
    BY <1>7 DEF StartSplit
  <2> QED
    BY <1>1, <1>2, <1>7, <2>1, StartBalance DEF NearInv
<1>8. CASE CheckLeakage
  <2>1. /\ UNCHANGED <<lines, files, mixed, split>>
        /\ pc = "place" /\ pc' = "train" /\ todo = {}
    BY <1>8 DEF CheckLeakage
  <2> QED
    BY <1>1, <1>2, <1>4, <2>1 DEF NearInv
<1>9. CASE \E G \in todo, s \in Splits : Place(G, s)
  <2>1. UNCHANGED <<lines, files, mixed>>
    BY <1>9 DEF Place
  <2> QED
    BY <1>1, <1>2, <1>9, <2>1, PlaceBalance DEF NearInv
<1>10. ASSUME NEW s \in Splits, WriteSplit(s)
       PROVE  NearInv'
  <2>1. CASE s = "test"
    <3>1. pc' = "idle"
      BY <1>10, <2>1 DEF WriteSplit, After
    <3> QED
      BY <1>1, <1>3, <1>10, <2>1, <3>1, LastFileIsNear DEF NearInv, Splits
  <2>2. CASE s # "test"
    <3>1. /\ pc = s /\ pc' \in {"val", "test"} /\ mixed'
          /\ UNCHANGED <<lines, split>>
      BY <1>10, <2>2 DEF WriteSplit, After, Splits
    <3>2. todo = {}
      BY <1>10, <3>1 DEF NearInv, BalanceInv, Splits
    <3>3. NearTarget'
      BY <3>1 DEF NearTarget, Complete
    <3> QED
      BY <1>1, <1>4, <1>10, <3>1, <3>2, <3>3 DEF NearInv
  <2> QED
    BY <2>1, <2>2
<1> QED
  BY <1>5, <1>6, <1>7, <1>8, <1>9, <1>10 DEF Next

LEMMA InitNear == Init => NearInv
<1> SUFFICES ASSUME Init PROVE NearInv
  OBVIOUS
<1>1. DatasetInv
  BY InitType, InitContents DEF Contents, DatasetInv
<1>2. BalanceInv
  BY DEF Init, BalanceInv, Splits
<1>3. NearTarget
  <2>1. files["train"] = NoFile
    BY DEF Init, Splits
  <2> QED
    BY <2>1 DEF NearTarget, Complete, Splits
<1> QED
  BY <1>1, <1>2, <1>3 DEF NearInv

\* In a finished data set no file is further from its target, above or below,
\* than two thirds of the largest group (split_dataset.py places the largest
\* group that is left where the deficit is largest).
THEOREM SplitsAreNearTarget == Spec => []NearTarget
<1>1. NearInv => NearTarget
  BY DEF NearInv
<1> QED
  BY <1>1, InitNear, NextNear, PTL DEF Spec
=============================================================================
