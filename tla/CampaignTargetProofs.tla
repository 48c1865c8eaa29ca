------------------------ MODULE CampaignTargetProofs ------------------------
(***************************************************************************)
(* Proofs about FioTestfile, for all sizes and any number of ghosts and    *)
(* abandoned removals, lost probes and reboots: types, and what the        *)
(* ".prefilled" marker is worth.                                           *)
(* Then about CampaignTarget: it implements FioTestfile, so that what is   *)
(* proved of any order of scenarios holds of every campaign; and what a    *)
(* preflight that passed is worth, for all campaigns and sizes.            *)
(***************************************************************************)
EXTENDS CampaignTarget, TLAPS

-----------------------------------------------------------------------------
(* The inductive invariant.                                                *)

\* The prefill the runner waits for has written what it counted, or its file
\* was removed under it.
PrefillInv ==
  pc = "prefill" =>
    IF linked THEN file # NoFile /\ file >= done /\ written >= done
              ELSE file = NoFile

\* The size the runner found is still there, or the whole file is gone: a
\* file only grows under the runner.
StatInv ==
  pc = "test" => existing # NoFile /\ (file = NoFile \/ file >= existing)

\* Unless a probe was lost, no smaller file waits where a prefill starts.
LaunchInv ==
  pc = "launch" /\ lost = 0 => file = NoFile \/ file >= required

\* A ghost writes to the file that is there, or to one that is gone.
LinkInv ==
  file = NoFile => \A g \in ghosts : ~g.linked

IInv ==
  /\ TypeOK /\ PrefillInv /\ StatInv /\ LaunchInv /\ LinkInv
  /\ MarkerSound /\ MeasuredWritten

-----------------------------------------------------------------------------
(* Types.                                                                  *)

LEMMA SizesAreNat ==
  /\ Sizes \subseteq Nat
  /\ MaxGhosts \in Nat /\ MaxLost \in Nat /\ MaxReboots \in Nat
BY TestfileAssumption DEF TestfileAssumption

LEMMA Numbers ==
  ASSUME TypeOK
  PROVE  /\ file \in Nat \cup {-1} /\ written \in Nat
         /\ required \in Nat /\ existing \in Nat \cup {-1}
         /\ size \in Nat /\ done \in Nat /\ done <= size
         /\ NoFile = -1
<1>0. required \in Sizes \cup {0} /\ size \in Sizes \cup {0}
  BY DEF TypeOK, RunnerTypeOK
<1>1. /\ required \in Nat /\ size \in Nat
  BY <1>0, SizesAreNat
<1>2. /\ existing \in Nat \cup {-1} /\ done \in 0..size
  BY DEF TypeOK, RunnerTypeOK, NoFile
<1>3. file \in Nat \cup {-1} /\ written \in Nat
  BY DEF TypeOK, NodeTypeOK, NoFile
<1>4. done \in Nat /\ done <= size
  BY <1>1, <1>2
<1> QED
  BY <1>1, <1>2, <1>3, <1>4 DEF NoFile

LEMMA GhostNumbers ==
  ASSUME TypeOK, NEW g \in ghosts
  PROVE  /\ g \in [size : Sizes, done : Nat, linked : BOOLEAN]
         /\ g.done \in Nat /\ g.size \in Nat /\ g.done <= g.size
<1>1. g \in [size : Sizes, done : Nat, linked : BOOLEAN]
  BY DEF TypeOK, NodeTypeOK
<1>2. g.done <= g.size
  BY DEF TypeOK, NodeTypeOK
<1>3. g.size \in Sizes /\ g.done \in Nat
  BY <1>1
<1>4. g.size \in Nat
  BY <1>3, SizesAreNat
<1> QED
  BY <1>1, <1>2, <1>3, <1>4

\* A counter under its bound.
LEMMA CounterStep ==
  ASSUME NEW m \in Nat, NEW x \in 0..m, NEW y,
         y = x \/ (x < m /\ y = x + 1)
  PROVE  y \in 0..m
OBVIOUS

\* What TestMarker comes to: refuse, trust the marker, or prefill.
LEMMA TestMarkerOutcomes ==
  ASSUME TestMarker
  PROVE  /\ pc = "test" /\ required' = required /\ existing' = NoFile
         /\ UNCHANGED <<node, size, done, linked, remote, leftBy, causes,
                        abandoned, reboots>>
         /\ lost' = lost \/ (lost < MaxLost /\ lost' = lost + 1)
         /\ \/ existing < required /\ pc' = "idle" /\ verdict' = "refused"
            \/ ~(existing < required) /\ marker /\ pc' = "jobs"
               /\ verdict' = verdict
            \/ ~(existing < required) /\ pc' = "launch" /\ verdict' = verdict
<1>1. PICK prefilled \in BOOLEAN :
        /\ \/ prefilled = marker /\ UNCHANGED lost
           \/ ~prefilled /\ lost < MaxLost /\ lost' = lost + 1
        /\ IF Decision(existing, prefilled) = "refuse"
           THEN Return("refused")
           ELSE /\ pc' = Decision(existing, prefilled) /\ existing' = NoFile
                /\ UNCHANGED <<required, verdict>>
  BY DEF TestMarker
<1>2. /\ pc = "test"
      /\ UNCHANGED <<node, size, done, linked, remote, leftBy, causes,
                     abandoned, reboots>>
  BY DEF TestMarker
<1>3. CASE existing < required
  BY <1>1, <1>2, <1>3 DEF Decision, Return
<1>4. CASE ~(existing < required) /\ prefilled
  BY <1>1, <1>2, <1>4 DEF Decision
<1>5. CASE ~(existing < required) /\ ~prefilled
  BY <1>1, <1>2, <1>5 DEF Decision
<1> QED
  BY <1>3, <1>4, <1>5

\* A file the prefill opens is as large as before, or as it has to be.
LEMMA LaunchedFile ==
  ASSUME TypeOK, LaunchPrefill
  PROVE  /\ file' \in Nat /\ file' >= file
         /\ written' \in Nat
         /\ (file = NoFile => written' = 0)
         /\ (file # NoFile => written' = written)
         /\ (file # NoFile /\ file >= required => file' = file)
<1>1. file' = AtLeast(file, required) \/ file' = AtLeast(file, 0)
  BY DEF LaunchPrefill
<1>2. written' = IF file = NoFile THEN 0 ELSE written
  BY DEF LaunchPrefill
<1>3. /\ file' \in Nat /\ file' >= file
      /\ (file # NoFile /\ file >= required => file' = file)
  BY <1>1, Numbers DEF AtLeast
<1> QED
  BY <1>2, <1>3, Numbers

\* The prefill that is waited for writes its next unit.
LEMMA PrefillWrote ==
  ASSUME TypeOK, WritePrefill
  PROVE  /\ done' = done + 1 /\ done' \in Nat /\ done' <= size
         /\ written' \in Nat /\ written' >= written
         /\ file' \in Nat \cup {-1} /\ file' >= file
         /\ linked => file' >= done' /\ written' >= done'
         /\ ~linked => file' = file
         /\ (file # NoFile => file' # NoFile)
         /\ (written >= file => written' >= file')
<1>1. done' = done + 1 /\ done < size
  BY DEF WritePrefill
<1>2. CASE linked
  <2>1. written' = AtLeast(written, done') /\ file' = AtLeast(file, done')
    BY <1>2 DEF WritePrefill
  <2> QED
    BY <1>1, <1>2, <2>1, Numbers DEF AtLeast
<1>3. CASE ~linked
  <2>1. written' = written /\ file' = file
    BY <1>3 DEF WritePrefill
  <2> QED
    BY <1>1, <1>3, <2>1, Numbers
<1> QED
  BY <1>2, <1>3

\* So does a ghost, if its file is still there.
LEMMA GhostWrote ==
  ASSUME TypeOK, NEW g \in ghosts, GhostWrites(g)
  PROVE  /\ written' \in Nat /\ written' >= written
         /\ file' \in Nat \cup {-1} /\ file' >= file
         /\ (~g.linked => file' = file)
         /\ (file # NoFile => file' # NoFile)
         /\ (written >= file => written' >= file')
<1>1. CASE g.linked
  <2>1. written' = AtLeast(written, g.done + 1) /\ file' = AtLeast(file, g.done + 1)
    BY <1>1 DEF GhostWrites
  <2> QED
    BY <1>1, <2>1, Numbers, GhostNumbers DEF AtLeast
<1>2. CASE ~g.linked
  <2>1. written' = written /\ file' = file
    BY <1>2 DEF GhostWrites
  <2> QED
    BY <1>2, <2>1, Numbers
<1> QED
  BY <1>1, <1>2

\* What a job lays out is some of what its file lacked.
LEMMA LaidOut ==
  ASSUME TypeOK, LayOut
  PROVE  /\ file' \in Nat /\ file' >= file /\ file' <= required
         /\ written' \in Nat /\ written' >= written
<1>1. /\ file < required /\ file' \in AtLeast(file, 0)..required
      /\ written' \in written..file'
  BY DEF LayOut
<1>2. AtLeast(file, 0) \in Nat /\ AtLeast(file, 0) >= file
  BY Numbers DEF AtLeast
<1> QED
  BY <1>1, <1>2, Numbers

\* Which steps change the testfile.
LEMMA FileSteps ==
  ASSUME [Next]_vars
  PROVE  \/ RemoveFile \/ AbandonedRemovesFile
         \/ LaunchPrefill \/ WritePrefill \/ LayOut
         \/ \E g \in ghosts : GhostWrites(g)
         \/ UNCHANGED <<file, written>>
<1>1. TestMarker => UNCHANGED node
  BY TestMarkerOutcomes
<1> QED
  BY <1>1 DEF Next, Work, Begin, StatFile, StatLost, PrefillDone, PrefillFails,
     PrefillAbandoned, GiveUp, JobsDone, RemoveMarker, RemoveFails,
     CleanupAbandoned, GhostDone, GhostDies, AbandonedRemovesMarker, Reboot,
     vars, node

\* What an unlinked file leaves of the ghosts.
LEMMA Unlinked ==
  ASSUME TypeOK, Unlink
  PROVE  /\ file' = -1 /\ written' = 0 /\ linked' = FALSE
         /\ ghosts' \subseteq [size : Sizes, done : Nat, linked : BOOLEAN]
         /\ \A g \in ghosts' : g.done <= g.size /\ ~g.linked
<1>1. \A g \in ghosts :
        /\ [g EXCEPT !.linked = FALSE]
             \in [size : Sizes, done : Nat, linked : BOOLEAN]
        /\ [g EXCEPT !.linked = FALSE].done <= [g EXCEPT !.linked = FALSE].size
        /\ ~[g EXCEPT !.linked = FALSE].linked
  BY GhostNumbers
<1>2. /\ ghosts' = {[g EXCEPT !.linked = FALSE] : g \in ghosts}
      /\ file' = -1 /\ written' = 0 /\ linked' = FALSE
  BY DEF Unlink, NoFile
<1> QED
  BY <1>1, <1>2

LEMMA RemovalsTypeStep ==
  ASSUME TypeOK, [Next]_vars
  PROVE  rms' \in [{"file", "marker"} -> Nat]
<1> DEFINE Stages == {"file", "marker"}
<1>1. rms \in [Stages -> Nat]
  BY DEF TypeOK, NodeTypeOK
<1>2. CASE CleanupAbandoned
  <2>1. PICK stage \in Stages : rms' = [rms EXCEPT ![stage] = @ + 1]
    BY <1>2 DEF CleanupAbandoned
  <2> QED
    BY <1>1, <2>1
<1>3. CASE AbandonedRemovesFile
  <2>1. /\ rms' = [rms EXCEPT !["file"] = @ - 1, !["marker"] = @ + 1]
        /\ rms["file"] > 0
    BY <1>3 DEF AbandonedRemovesFile
  <2> QED
    BY <1>1, <2>1
<1>4. CASE AbandonedRemovesMarker
  <2>1. rms' = [rms EXCEPT !["marker"] = @ - 1] /\ rms["marker"] > 0
    BY <1>4 DEF AbandonedRemovesMarker
  <2> QED
    BY <1>1, <2>1
<1>5. CASE Reboot
  <2>1. rms' = [stage \in Stages |-> 0]
    BY <1>1, <1>5 DEF Reboot
  <2> QED
    BY <2>1
<1>6. CASE UNCHANGED rms
  BY <1>1, <1>6
<1>7. TestMarker => UNCHANGED rms
  BY TestMarkerOutcomes DEF remote
<1>8. ASSUME ~CleanupAbandoned, ~AbandonedRemovesFile, ~AbandonedRemovesMarker,
             ~Reboot
      PROVE  UNCHANGED rms
  BY <1>7, <1>8 DEF Next, Work, Begin, StatFile, StatLost, LaunchPrefill,
     WritePrefill, PrefillDone, PrefillFails, PrefillAbandoned, GiveUp, LayOut,
     JobsDone, RemoveFile, RemoveMarker, RemoveFails, GhostWrites, GhostDone,
     GhostDies, vars, remote
<1> QED
  BY <1>2, <1>3, <1>4, <1>5, <1>6, <1>8

LEMMA NodeTypeStep ==
  ASSUME TypeOK, [Next]_vars
  PROVE  NodeTypeOK'
<1> DEFINE Ghost == [size : Sizes, done : Nat, linked : BOOLEAN]
           GhostsOK(G) == G \subseteq Ghost /\ \A g \in G : g.done <= g.size
<1>a. /\ file \in Nat \cup {-1} /\ written \in Nat /\ marker \in BOOLEAN
      /\ GhostsOK(ghosts)
  BY DEF TypeOK, NodeTypeOK, NoFile
<1>b. SUFFICES /\ file' \in Nat \cup {-1} /\ written' \in Nat
               /\ marker' \in BOOLEAN
               /\ GhostsOK(ghosts')
  BY RemovalsTypeStep DEF NodeTypeOK, NoFile
<1>1. CASE LaunchPrefill
  <2>1. UNCHANGED <<marker, ghosts>>
    BY <1>1 DEF LaunchPrefill, remote
  <2>2. file' \in Nat /\ written' \in Nat
    BY <1>1, LaunchedFile
  <2> QED
    BY <1>a, <2>1, <2>2
<1>2. CASE WritePrefill
  <2>1. UNCHANGED <<marker, ghosts>>
    BY <1>2 DEF WritePrefill, remote
  <2> QED
    BY <1>a, <1>2, <2>1, PrefillWrote
<1>3. CASE PrefillDone
  BY <1>a, <1>3 DEF PrefillDone, remote
<1>4. CASE PrefillAbandoned
  <2> DEFINE new == [size |-> size, done |-> done, linked |-> linked]
  <2>1. UNCHANGED node /\ ghosts' = ghosts \cup {new} /\ pc = "prefill"
    BY <1>4 DEF PrefillAbandoned
  <2>2. size \in Sizes /\ linked \in BOOLEAN
    BY <2>1 DEF TypeOK, RunnerTypeOK
  <2>3. new \in Ghost /\ new.done <= new.size
    BY <2>2, Numbers
  <2> HIDE DEF new
  <2> QED
    BY <1>a, <2>1, <2>3 DEF node
<1>5. CASE RemoveFile \/ AbandonedRemovesFile
  <2>1. Unlink /\ marker' = marker
    BY <1>5 DEF RemoveFile, AbandonedRemovesFile
  <2> QED
    BY <1>a, <2>1, Unlinked
<1>6. CASE RemoveMarker \/ AbandonedRemovesMarker
  BY <1>a, <1>6 DEF RemoveMarker, AbandonedRemovesMarker, remote
<1>7. ASSUME NEW g \in ghosts, GhostWrites(g)
      PROVE  /\ file' \in Nat \cup {-1} /\ written' \in Nat
             /\ marker' \in BOOLEAN /\ GhostsOK(ghosts')
  <2> DEFINE new == [g EXCEPT !.done = @ + 1]
  <2>1. /\ g.done < g.size /\ marker' = marker
        /\ ghosts' = (ghosts \ {g}) \cup {new}
    BY <1>7 DEF GhostWrites
  <2>2. new \in Ghost /\ new.done = g.done + 1 /\ new.size = g.size
    BY GhostNumbers
  <2>3. new.done <= new.size
    BY <2>1, <2>2, GhostNumbers
  <2> HIDE DEF new
  <2>4. GhostsOK(ghosts')
    BY <1>a, <2>1, <2>2, <2>3
  <2> QED
    BY <1>7, <1>a, <2>1, <2>4, GhostWrote
<1>8. ASSUME NEW g \in ghosts, GhostDone(g) \/ GhostDies(g)
      PROVE  /\ file' \in Nat \cup {-1} /\ written' \in Nat
             /\ marker' \in BOOLEAN /\ GhostsOK(ghosts')
  <2>1. /\ ghosts' = ghosts \ {g} /\ file' = file /\ written' = written
        /\ marker' = TRUE \/ marker' = marker
    BY <1>8 DEF GhostDone, GhostDies, node
  <2> QED
    BY <1>a, <2>1
<1>9. CASE Reboot
  BY <1>a, <1>9 DEF Reboot, node
<1>10. CASE UNCHANGED <<node, ghosts>>
  BY <1>a, <1>10 DEF node
<1>11. ASSUME \/ \E s \in Sizes : Begin(s)
              \/ StatFile \/ StatLost \/ TestMarker \/ PrefillFails \/ GiveUp
              \/ JobsDone \/ RemoveFails \/ CleanupAbandoned \/ UNCHANGED vars
       PROVE  UNCHANGED <<node, ghosts>>
  BY <1>11, TestMarkerOutcomes DEF Begin, StatFile, StatLost, PrefillFails,
     GiveUp, JobsDone, RemoveFails, CleanupAbandoned, vars, remote
<1>12. CASE LayOut
  <2>1. UNCHANGED <<marker, ghosts>>
    BY <1>12 DEF LayOut, remote
  <2> QED
    BY <1>a, <1>12, <2>1, LaidOut
<1> QED
  BY <1>1, <1>2, <1>3, <1>4, <1>5, <1>6, <1>7, <1>8, <1>9, <1>10, <1>11, <1>12
  DEF Next, Work

LEMMA RunnerTypeStep ==
  ASSUME TypeOK, [Next]_vars
  PROVE  RunnerTypeOK'
<1>a. RunnerTypeOK
  BY DEF TypeOK
<1> USE DEF TypeOK, RunnerTypeOK, NoFile
<1>1. ASSUME NEW s \in Sizes, Begin(s)
      PROVE  RunnerTypeOK'
  BY <1>1 DEF Begin
<1>2. CASE StatFile \/ StatLost
  <2>1. /\ existing' \in {NoFile} \cup Nat /\ pc' \in {"launch", "test"}
        /\ UNCHANGED <<required, size, done, linked>>
    BY <1>2, Numbers DEF StatFile, StatLost
  <2>2. required \in Sizes
    BY <1>2 DEF StatFile, StatLost
  <2> QED
    BY <2>1, <2>2
<1>3. CASE TestMarker
  <2>1. /\ pc = "test" /\ pc' \in {"idle", "jobs", "launch"}
        /\ existing' = NoFile /\ UNCHANGED <<required, size, done, linked>>
    BY <1>3, TestMarkerOutcomes
  <2> QED
    BY <2>1
<1>4. CASE LaunchPrefill
  <2>1. /\ pc' = "prefill" /\ required' = required /\ existing' = existing
        /\ size' = required /\ done' = 0 /\ required \in Sizes
        /\ linked' = TRUE
    BY <1>4 DEF LaunchPrefill
  <2>2. required \in Nat
    BY Numbers
  <2> HIDE DEF TypeOK, RunnerTypeOK
  <2>3. done' \in 0..size'
    BY <2>1, <2>2
  <2> QED
    BY <1>a, <2>1, <2>3 DEF RunnerTypeOK, NoFile
<1>5. CASE WritePrefill
  <2>1. UNCHANGED <<pc, required, existing, size, linked>>
    BY <1>5 DEF WritePrefill
  <2>2. done' \in Nat /\ done' <= size /\ size \in Nat
    BY <1>5, PrefillWrote, Numbers
  <2> HIDE DEF TypeOK, RunnerTypeOK
  <2>3. done' \in 0..size'
    BY <2>1, <2>2
  <2> QED
    BY <1>a, <2>1, <2>3 DEF RunnerTypeOK, NoFile
<1>6. CASE PrefillDone \/ PrefillFails \/ PrefillAbandoned \/ Reboot
  <2>1. 0 \in 0..0
    OBVIOUS
  <2> QED
    BY <1>6, <2>1 DEF PrefillDone, PrefillFails, PrefillAbandoned, Reboot,
       Return, PrefillOver
<1>9. CASE \/ GiveUp \/ LayOut \/ JobsDone \/ RemoveFile \/ RemoveMarker
           \/ RemoveFails \/ CleanupAbandoned
           \/ AbandonedRemovesFile \/ AbandonedRemovesMarker
  BY <1>9 DEF GiveUp, LayOut, JobsDone, RemoveFile, RemoveMarker, RemoveFails,
     CleanupAbandoned, AbandonedRemovesFile, AbandonedRemovesMarker, Unlink,
     Return
<1>7. ASSUME NEW g \in ghosts, GhostWrites(g) \/ GhostDone(g) \/ GhostDies(g)
      PROVE  RunnerTypeOK'
  BY <1>7 DEF GhostWrites, GhostDone, GhostDies
<1>8. CASE UNCHANGED vars
  BY <1>8 DEF vars
<1> QED
  BY <1>1, <1>2, <1>3, <1>4, <1>5, <1>6, <1>7, <1>8, <1>9 DEF Next, Work

LEMMA HistoryTypeStep ==
  ASSUME TypeOK, [Next]_vars
  PROVE  HistoryTypeOK'
<1> DEFINE Causes == {"lost_probe", "smaller_prefill", "ghost",
                      "reboot_in_rm", "abandoned_rm"}
<1>a. /\ verdict \in {"none", "refused", "failed", "measured"}
      /\ leftBy \in Sizes \cup {0} /\ causes \subseteq Causes
      /\ lost \in 0..MaxLost /\ abandoned \in 0..MaxGhosts
      /\ reboots \in 0..MaxReboots
  BY DEF TypeOK, HistoryTypeOK
<1> USE DEF HistoryTypeOK
<1>1. ASSUME NEW s \in Sizes, Begin(s)
      PROVE  HistoryTypeOK'
  BY <1>a, <1>1 DEF Begin, budget
<1>2. CASE StatFile \/ StatLost \/ TestMarker
  <2>1. verdict' \in {verdict, "refused"}
    BY <1>2, TestMarkerOutcomes DEF StatFile, StatLost
  <2>2. lost' = lost \/ (lost < MaxLost /\ lost' = lost + 1)
    BY <1>2, TestMarkerOutcomes DEF StatFile, StatLost, budget
  <2>3. lost' \in 0..MaxLost
    <3> HIDE DEF HistoryTypeOK
    <3>1. lost \in 0..MaxLost
      BY <1>a
    <3>2. MaxLost \in Nat
      BY SizesAreNat
    <3>3. lost' = lost \/ (lost < MaxLost /\ lost' = lost + 1)
      BY <2>2
    <3> QED
      BY <3>1, <3>2, <3>3, CounterStep
  <2>4. UNCHANGED <<leftBy, causes, abandoned, reboots>>
    BY <1>2, TestMarkerOutcomes DEF StatFile, StatLost, budget
  <2> QED
    BY <1>a, <2>1, <2>3, <2>4
<1>3. CASE LaunchPrefill \/ WritePrefill \/ PrefillDone
  <2>1. /\ leftBy' \in {leftBy, 0}
        /\ causes' \in {causes, causes \cup {"lost_probe"},
                        causes \cup {"abandoned_rm"},
                        causes \cup {"smaller_prefill"}}
        /\ UNCHANGED <<verdict, budget>>
    BY <1>3 DEF LaunchPrefill, WritePrefill, PrefillDone
  <2>2. leftBy' \in Sizes \cup {0} /\ causes' \subseteq Causes
    BY <1>a, <2>1
  <2> QED
    BY <1>a, <2>1, <2>2 DEF budget
<1>4. CASE PrefillFails \/ PrefillAbandoned
  <2>1. /\ leftBy' = size /\ verdict' = "failed"
        /\ UNCHANGED <<causes, lost, reboots>>
    BY <1>4 DEF PrefillFails, PrefillAbandoned, Return, budget
  <2>2. \/ abandoned' = abandoned
        \/ abandoned < MaxGhosts /\ abandoned' = abandoned + 1
    BY <1>4 DEF PrefillFails, PrefillAbandoned, budget
  <2>3. abandoned' \in 0..MaxGhosts
    <3> HIDE DEF HistoryTypeOK
    <3>1. abandoned \in 0..MaxGhosts
      BY <1>a
    <3>2. MaxGhosts \in Nat
      BY SizesAreNat
    <3>3. abandoned' = abandoned \/ (abandoned < MaxGhosts /\ abandoned' = abandoned + 1)
      BY <2>2
    <3> QED
      BY <3>1, <3>2, <3>3, CounterStep
  <2>4. leftBy' \in Sizes \cup {0}
    BY <2>1 DEF TypeOK, RunnerTypeOK
  <2> QED
    BY <1>a, <2>1, <2>3, <2>4
<1>5. CASE \/ GiveUp \/ LayOut \/ JobsDone \/ RemoveFile \/ RemoveMarker
           \/ RemoveFails \/ AbandonedRemovesFile \/ AbandonedRemovesMarker
  <2>1. /\ verdict' \in {verdict, "failed", "measured"}
        /\ leftBy' \in {leftBy, 0, required}
        /\ causes' \in {causes, causes \cup {"abandoned_rm"}, {}}
        /\ UNCHANGED budget
    BY <1>5 DEF GiveUp, LayOut, JobsDone, RemoveFile, RemoveMarker, RemoveFails,
       AbandonedRemovesFile, AbandonedRemovesMarker, Return
  <2>2. leftBy' \in Sizes \cup {0}
    BY <1>a, <2>1 DEF TypeOK, RunnerTypeOK
  <2> QED
    BY <1>a, <2>1, <2>2 DEF budget
<1>9. CASE CleanupAbandoned
  <2>1. /\ causes' \in {causes, causes \cup {"abandoned_rm"}}
        /\ UNCHANGED <<verdict, leftBy, lost, reboots>>
        /\ abandoned < MaxGhosts /\ abandoned' = abandoned + 1
    BY <1>9 DEF CleanupAbandoned
  <2>2. abandoned' \in 0..MaxGhosts
    <3> HIDE DEF HistoryTypeOK
    <3> QED
      BY <1>a, <2>1, SizesAreNat, CounterStep
  <2>3. causes' \subseteq Causes
    BY <1>a, <2>1
  <2> QED
    BY <1>a, <2>1, <2>2, <2>3
<1>6. ASSUME NEW g \in ghosts, GhostWrites(g) \/ GhostDone(g) \/ GhostDies(g)
      PROVE  HistoryTypeOK'
  <2>1. /\ causes' \in {causes, causes \cup {"ghost"}}
        /\ UNCHANGED <<verdict, leftBy, budget>>
    BY <1>6 DEF GhostWrites, GhostDone, GhostDies
  <2>2. causes' \subseteq Causes
    BY <1>a, <2>1
  <2> QED
    BY <1>a, <2>1, <2>2 DEF budget
<1>7. CASE Reboot
  <2>1. /\ causes' \in {causes, causes \cup {"reboot_in_rm"}}
        /\ leftBy' \in {size, leftBy} /\ verdict' \in {verdict, "failed"}
        /\ UNCHANGED <<lost, abandoned>>
    BY <1>7 DEF Reboot, Return
  <2>2. reboots < MaxReboots /\ reboots' = reboots + 1
    BY <1>7 DEF Reboot
  <2>3. reboots' \in 0..MaxReboots
    <3> HIDE DEF HistoryTypeOK
    <3>1. reboots \in 0..MaxReboots
      BY <1>a
    <3>2. MaxReboots \in Nat
      BY SizesAreNat
    <3>3. reboots' = reboots \/ (reboots < MaxReboots /\ reboots' = reboots + 1)
      BY <2>2
    <3> QED
      BY <3>1, <3>2, <3>3, CounterStep
  <2>4. leftBy' \in Sizes \cup {0}
    BY <1>a, <2>1 DEF TypeOK, RunnerTypeOK
  <2>5. causes' \subseteq Causes
    BY <1>a, <2>1
  <2> QED
    BY <1>a, <2>1, <2>3, <2>4, <2>5
<1>8. CASE UNCHANGED vars
  BY <1>a, <1>8 DEF vars, budget
<1> QED
  BY <1>1, <1>2, <1>3, <1>4, <1>5, <1>6, <1>7, <1>8, <1>9 DEF Next, Work

-----------------------------------------------------------------------------
(* The strengthening: each part is preserved by every step.                *)

\* The file is removed, or it only grows, and so does what is written of it.
LEMMA FileGrows ==
  ASSUME TypeOK, [Next]_vars, ~RemoveFile, ~AbandonedRemovesFile
  PROVE  file' >= file /\ (file # NoFile => written' >= written)
<1>1. CASE LaunchPrefill
  BY <1>1, LaunchedFile, Numbers
<1>2. CASE WritePrefill
  BY <1>2, PrefillWrote
<1>3. CASE LayOut
  BY <1>3, LaidOut
<1>4. ASSUME NEW g \in ghosts, GhostWrites(g)
      PROVE  file' >= file /\ written' >= written
  BY <1>4, GhostWrote
<1>5. CASE UNCHANGED <<file, written>>
  BY <1>5, Numbers
<1> QED
  BY <1>1, <1>2, <1>3, <1>4, <1>5, FileSteps

\* Where a step that reaches "stat", "test", "launch" or "prefill" comes
\* from.
LEMMA HowReached ==
  ASSUME [Next]_vars, pc' # pc
  PROVE  /\ pc' = "test" => StatFile
         /\ pc' = "launch" => StatFile \/ StatLost \/ TestMarker
         /\ pc' = "prefill" => LaunchPrefill
         /\ pc' = "jobs" => TestMarker \/ PrefillDone
<1>1. \/ StatFile \/ StatLost \/ TestMarker \/ LaunchPrefill \/ PrefillDone
      \/ pc' \notin {"test", "launch", "prefill", "jobs"}
  BY DEF Next, Work, Begin, WritePrefill, PrefillFails, PrefillAbandoned, GiveUp,
     LayOut, JobsDone, RemoveFile, RemoveMarker, RemoveFails, CleanupAbandoned,
     GhostWrites, GhostDone, GhostDies, AbandonedRemovesFile,
     AbandonedRemovesMarker, Reboot, Return, vars
<1>2. StatFile => pc' \in {"launch", "test"}
  BY DEF StatFile
<1>3. StatLost => pc' = "launch"
  BY DEF StatLost
<1>4. TestMarker => pc' \in {"idle", "jobs", "launch"}
  BY TestMarkerOutcomes
<1>5. LaunchPrefill => pc' = "prefill"
  BY DEF LaunchPrefill
<1>6. PrefillDone => pc' = "jobs"
  BY DEF PrefillDone
<1> QED
  BY <1>1, <1>2, <1>3, <1>4, <1>5, <1>6

\* A step that leaves the runner in prepare() or its jobs leaves what the
\* scenario asked for and what the runner found.
LEMMA RunnerStays ==
  ASSUME [Next]_vars, pc' = pc, pc # "idle"
  PROVE  /\ UNCHANGED <<required, existing, size>>
         /\ done' = done \/ WritePrefill
         /\ linked' = linked \/ AbandonedRemovesFile
         /\ lost' = lost
<1>1. ~TestMarker
  BY TestMarkerOutcomes
<1> QED
  BY <1>1 DEF Next, Work, Begin, StatFile, StatLost, LaunchPrefill, WritePrefill,
     PrefillDone, PrefillFails, PrefillAbandoned, GiveUp, LayOut, JobsDone,
     RemoveFile, RemoveMarker, RemoveFails, CleanupAbandoned, GhostWrites,
     GhostDone, GhostDies, AbandonedRemovesFile, AbandonedRemovesMarker,
     Reboot, Return, vars, budget

\* Only a prefill that starts or a job makes a file where there is none.
LEMMA NoFileStays ==
  ASSUME TypeOK, PrefillInv, LinkInv, [Next]_vars, file = NoFile,
         ~LaunchPrefill, pc # "jobs"
  PROVE  file' = NoFile
<1>1. CASE RemoveFile \/ AbandonedRemovesFile
  BY <1>1 DEF RemoveFile, AbandonedRemovesFile, Unlink
<1>2. CASE WritePrefill
  <2>1. ~linked
    BY <1>2 DEF PrefillInv, WritePrefill
  <2> QED
    BY <1>2, <2>1, PrefillWrote
<1>3. ASSUME NEW g \in ghosts, GhostWrites(g)
      PROVE  file' = NoFile
  BY <1>3, GhostWrote DEF LinkInv
<1>4. ~LayOut
  BY DEF LayOut
<1> QED
  BY <1>1, <1>2, <1>3, <1>4, FileSteps

LEMMA StatStep ==
  ASSUME TypeOK, PrefillInv, LinkInv, StatInv, [Next]_vars
  PROVE  StatInv'
<1> SUFFICES ASSUME pc' = "test"
             PROVE  existing' # NoFile /\ (file' = NoFile \/ file' >= existing')
  BY DEF StatInv
<1>1. CASE pc = "test"
  <2>1. /\ existing # NoFile /\ (file = NoFile \/ file >= existing)
        /\ existing' = existing /\ ~RemoveFile
    BY <1>1, RunnerStays DEF StatInv, RemoveFile
  <2>2. CASE AbandonedRemovesFile \/ file = NoFile
    <3>1. file' = NoFile
      BY <1>1, <2>2, NoFileStays DEF AbandonedRemovesFile, Unlink, LaunchPrefill
    <3> QED
      BY <2>1, <3>1
  <2>3. CASE ~AbandonedRemovesFile /\ file # NoFile
    <3>1. file' >= file
      BY <2>1, <2>3, FileGrows
    <3>2. file' \in Nat \cup {-1}
      BY NodeTypeStep DEF NodeTypeOK, NoFile
    <3> QED
      BY <2>1, <2>3, <3>1, <3>2, Numbers
  <2> QED
    BY <2>2, <2>3
<1>2. CASE pc # "test"
  <2>1. StatFile
    BY <1>2, HowReached
  <2>2. existing' = file /\ file' = file /\ file # NoFile
    BY <2>1 DEF StatFile, node
  <2> QED
    BY <2>2, Numbers
<1> QED
  BY <1>1, <1>2

LEMMA LinkStep ==
  ASSUME TypeOK, PrefillInv, LinkInv, [Next]_vars
  PROVE  LinkInv'
<1> SUFFICES ASSUME file' = NoFile
             PROVE  \A g \in ghosts' : ~g.linked
  BY DEF LinkInv
<1>1. CASE RemoveFile \/ AbandonedRemovesFile
  <2>1. Unlink
    BY <1>1 DEF RemoveFile, AbandonedRemovesFile
  <2> QED
    BY <2>1, Unlinked
<1>2. CASE ~RemoveFile /\ ~AbandonedRemovesFile
  <2>1. file = NoFile
    BY <1>2, FileGrows, Numbers
  <2>2. \A g \in ghosts : ~g.linked
    BY <2>1 DEF LinkInv
  <2>3. CASE PrefillAbandoned
    <3>1. /\ ghosts' = ghosts \cup {[size |-> size, done |-> done, linked |-> linked]}
          /\ pc = "prefill"
      BY <2>3 DEF PrefillAbandoned
    <3>2. ~linked
      BY <2>1, <3>1 DEF PrefillInv
    <3> QED
      BY <2>2, <3>1, <3>2
  <2>4. ASSUME NEW g \in ghosts, GhostWrites(g)
        PROVE  \A h \in ghosts' : ~h.linked
    <3>1. [g EXCEPT !.done = @ + 1].linked = g.linked
      BY GhostNumbers
    <3>2. ghosts' = (ghosts \ {g}) \cup {[g EXCEPT !.done = @ + 1]}
      BY <2>4 DEF GhostWrites
    <3> QED
      BY <2>2, <3>1, <3>2
  <2>5. ASSUME ~PrefillAbandoned, ~\E g \in ghosts : GhostWrites(g)
        PROVE  ghosts' \subseteq ghosts
    <3>1. TestMarker => ghosts' = ghosts
      BY TestMarkerOutcomes DEF remote
    <3> QED
      BY <1>2, <2>5, <3>1 DEF Next, Work, Begin, StatFile, StatLost,
         LaunchPrefill, WritePrefill, PrefillDone, PrefillFails, GiveUp, LayOut,
         JobsDone, RemoveMarker, RemoveFails, CleanupAbandoned, GhostDone,
         GhostDies, AbandonedRemovesMarker, Reboot, vars, remote
  <2> QED
    BY <2>2, <2>3, <2>4, <2>5
<1> QED
  BY <1>1, <1>2

LEMMA PrefillStep ==
  ASSUME TypeOK, PrefillInv, LinkInv, [Next]_vars
  PROVE  PrefillInv'
<1> SUFFICES ASSUME pc' = "prefill"
             PROVE  IF linked'
                    THEN file' # NoFile /\ file' >= done' /\ written' >= done'
                    ELSE file' = NoFile
  BY DEF PrefillInv
<1>1. CASE WritePrefill /\ linked
  <2>1. linked' = linked
    BY <1>1 DEF WritePrefill
  <2> QED
    BY <1>1, <2>1, PrefillWrote DEF NoFile
<1>2. CASE AbandonedRemovesFile
  BY <1>2 DEF AbandonedRemovesFile, Unlink
<1>3. CASE pc = "prefill" /\ ~AbandonedRemovesFile /\ ~linked
  <2>1. linked' = linked
    BY <1>3, RunnerStays
  <2>2. file = NoFile /\ ~LaunchPrefill
    BY <1>3 DEF PrefillInv, LaunchPrefill
  <2> QED
    BY <1>3, <2>1, <2>2, NoFileStays
<1>4. CASE pc = "prefill" /\ ~AbandonedRemovesFile /\ linked /\ ~WritePrefill
  <2>1. file # NoFile /\ file >= done /\ written >= done
    BY <1>4 DEF PrefillInv
  <2>2. done' = done /\ linked' = linked /\ ~RemoveFile
    BY <1>4, RunnerStays DEF RemoveFile
  <2>3. file' >= file /\ written' >= written
    BY <1>4, <2>1, <2>2, FileGrows
  <2>4. file' \in Nat \cup {-1} /\ written' \in Nat
    BY NodeTypeStep DEF NodeTypeOK, NoFile
  <2> QED
    BY <1>4, <2>1, <2>2, <2>3, <2>4, Numbers
<1>5. CASE pc # "prefill"
  <2>1. LaunchPrefill
    BY <1>5, HowReached
  <2>2. done' = 0 /\ linked' = TRUE
    BY <2>1 DEF LaunchPrefill
  <2> QED
    BY <2>1, <2>2, LaunchedFile DEF NoFile
<1> QED
  BY <1>1, <1>2, <1>3, <1>4, <1>5

LEMMA LaunchStep ==
  ASSUME TypeOK, PrefillInv, StatInv, LinkInv, LaunchInv, [Next]_vars
  PROVE  LaunchInv'
<1> SUFFICES ASSUME pc' = "launch", lost' = 0
             PROVE  file' = NoFile \/ file' >= required'
  BY DEF LaunchInv
<1>1. CASE pc = "launch"
  <2>1. required' = required /\ lost = 0 /\ ~LaunchPrefill /\ ~RemoveFile
    BY <1>1, RunnerStays DEF LaunchPrefill, RemoveFile
  <2>2. CASE file = NoFile
    BY <1>1, <2>1, <2>2, NoFileStays
  <2>3. CASE AbandonedRemovesFile
    BY <2>3 DEF AbandonedRemovesFile, Unlink
  <2>4. CASE file # NoFile /\ ~AbandonedRemovesFile
    <3>1. file >= required
      BY <1>1, <2>1, <2>4 DEF LaunchInv
    <3>2. file' >= file
      BY <2>1, <2>4, FileGrows
    <3>3. file' \in Nat \cup {-1}
      BY NodeTypeStep DEF NodeTypeOK, NoFile
    <3> QED
      BY <2>1, <3>1, <3>2, <3>3, Numbers
  <2> QED
    BY <2>2, <2>3, <2>4
<1>2. CASE pc # "launch"
  <2>1. CASE StatFile
    BY <2>1 DEF StatFile, node
  <2>2. ~StatLost
    <3>1. lost \in 0..MaxLost
      BY DEF TypeOK, HistoryTypeOK
    <3>2. lost \in Nat
      BY <3>1, SizesAreNat
    <3>3. lost + 1 # 0
      BY <3>2
    <3> QED
      BY <3>3 DEF StatLost
  <2>3. CASE TestMarker
    <3>1. /\ pc = "test" /\ ~(existing < required) /\ required' = required
          /\ UNCHANGED node
      BY <2>3, TestMarkerOutcomes
    <3>2. existing # NoFile /\ (file = NoFile \/ file >= existing)
      BY <3>1 DEF StatInv
    <3>3. file = NoFile \/ file >= required
      BY <3>1, <3>2, Numbers
    <3> QED
      BY <3>1, <3>3 DEF node
  <2> QED
    BY <1>2, <2>1, <2>2, <2>3, HowReached
<1> QED
  BY <1>1, <1>2

\* What could have falsified the marker is forgotten with the marker only,
\* and never while jobs run over its file.
LEMMA CausesStay ==
  ASSUME [Next]_vars, ~RemoveMarker, ~AbandonedRemovesMarker \/ pc = "jobs"
  PROVE  causes \subseteq causes'
<1>1. TestMarker => causes' = causes
  BY TestMarkerOutcomes
<1>2. AbandonedRemovesMarker => causes' = causes
  BY DEF AbandonedRemovesMarker
<1>3. PrefillDone => causes \subseteq causes'
  BY DEF PrefillDone
<1> QED
  BY <1>1, <1>2, <1>3 DEF Next, Work, Begin, StatFile, StatLost, LaunchPrefill,
     WritePrefill, PrefillFails, PrefillAbandoned, GiveUp, LayOut, JobsDone,
     RemoveFile, RemoveFails, CleanupAbandoned, GhostWrites, GhostDone,
     GhostDies, AbandonedRemovesFile, Reboot, vars

\* A prefill that ends without a cause has written the testfile.
LEMMA LinkedWhenClean ==
  ASSUME PrefillDone, causes' = {}
  PROVE  linked /\ ~(size < file /\ written < file)
<1>1. causes' = CASE ~linked -> causes \cup {"abandoned_rm"}
                  [] linked /\ size < file /\ written < file
                       -> causes \cup {"smaller_prefill"}
                  [] OTHER -> causes
  BY DEF PrefillDone
<1> QED
  BY <1>1

LEMMA MarkerStep ==
  ASSUME TypeOK, PrefillInv, MarkerSound, MeasuredWritten, [Next]_vars
  PROVE  MarkerSound'
<1> SUFFICES ASSUME causes' = {}, pc' # "rm_marker", marker'
             PROVE  file' # NoFile /\ written' >= file'
  BY DEF MarkerSound, Sound
<1>1. ~RemoveMarker /\ ~AbandonedRemovesMarker
  BY DEF RemoveMarker, AbandonedRemovesMarker
<1>2. causes = {}
  BY <1>1, CausesStay
<1>3. ASSUME pc # "rm_marker", marker
      PROVE  file # NoFile /\ written >= file
  BY <1>2, <1>3 DEF MarkerSound, Sound
<1>4. CASE LaunchPrefill
  <2>1. pc # "rm_marker" /\ marker
    BY <1>4 DEF LaunchPrefill
  <2>2. file # NoFile /\ written >= file
    BY <1>3, <2>1
  <2>3. ~(file < required)
    BY <1>4, <2>1, <2>2 DEF LaunchPrefill
  <2>4. file' = file /\ written' = written
    BY <1>4, <2>2, <2>3, LaunchedFile, Numbers
  <2> QED
    BY <2>2, <2>4
<1>5. CASE WritePrefill
  <2>1. pc # "rm_marker" /\ marker
    BY <1>5 DEF WritePrefill
  <2> QED
    BY <1>3, <1>5, <2>1, PrefillWrote
<1>6. CASE PrefillDone
  <2>1. /\ pc = "prefill" /\ done = size /\ file' = file /\ written' = written
        /\ linked /\ ~(size < file /\ written < file)
    BY <1>6, LinkedWhenClean DEF MayTouch, PrefillDone
  <2>2. file # NoFile /\ file >= done /\ written >= done
    BY <2>1 DEF PrefillInv
  <2> QED
    BY <2>1, <2>2, Numbers
<1>7. ~RemoveFile /\ ~AbandonedRemovesFile
  BY DEF RemoveFile, AbandonedRemovesFile
<1>8. ASSUME NEW g \in ghosts, GhostWrites(g)
      PROVE  file' # NoFile /\ written' >= file'
  <2>1. pc # "rm_marker" /\ marker
    BY <1>8 DEF GhostWrites
  <2> QED
    BY <1>3, <1>8, <2>1, GhostWrote
<1>9. ASSUME NEW g \in ghosts, GhostDone(g)
      PROVE  file' # NoFile /\ written' >= file'
  <2>1. file # NoFile /\ ~(written < file) /\ file' = file /\ written' = written
    BY <1>9 DEF GhostDone
  <2> QED
    BY <2>1, Numbers
<1>10. CASE Reboot
  <2>1. UNCHANGED node /\ ~(pc = "rm_marker" /\ marker)
    BY <1>10 DEF Reboot
  <2> QED
    BY <1>3, <2>1 DEF node
<1>11. CASE UNCHANGED <<file, written, marker>> /\ pc # "rm_marker"
  BY <1>3, <1>11
<1>13. ~LayOut
  <2>1. pc = "jobs" => file >= required
    BY <1>2 DEF MeasuredWritten
  <2>2. LayOut => pc = "jobs" /\ file < required
    BY DEF LayOut
  <2>3. file \in Int /\ required \in Int
    BY Numbers
  <2>4. ~(file >= required /\ file < required)
    BY <2>3
  <2> QED
    BY <2>1, <2>2, <2>4
<1>12. ASSUME ~LaunchPrefill, ~WritePrefill, ~PrefillDone, ~Reboot,
              ~\E g \in ghosts : GhostWrites(g) \/ GhostDone(g)
       PROVE  UNCHANGED <<file, written, marker>> /\ pc # "rm_marker"
  <2>1. TestMarker => pc = "test" /\ UNCHANGED node
    BY TestMarkerOutcomes
  <2>2. CleanupAbandoned => UNCHANGED node /\ ~(pc = "rm_marker" /\ marker)
    BY DEF CleanupAbandoned
  <2>3. pc = "rm_marker" /\ CleanupAbandoned => FALSE
    BY <2>2 DEF node
  <2> QED
    BY <1>1, <1>7, <1>12, <1>13, <2>1, <2>2, <2>3 DEF Next, Work, Begin, StatFile,
       StatLost, PrefillFails, PrefillAbandoned, GiveUp, JobsDone, RemoveFails,
       GhostDies, vars, node
<1> QED
  BY <1>4, <1>5, <1>6, <1>8, <1>9, <1>10, <1>11, <1>12

LEMMA MeasuredStep ==
  ASSUME TypeOK, PrefillInv, StatInv, MarkerSound, MeasuredWritten,
         [Next]_vars
  PROVE  MeasuredWritten'
<1> SUFFICES ASSUME pc' = "jobs", causes' = {}
             PROVE  file' >= required' /\ written' >= required'
  BY DEF MeasuredWritten
<1>1. ~RemoveMarker
  BY DEF RemoveMarker
<1>2. causes = {} \/ (pc # "jobs" /\ AbandonedRemovesMarker)
  BY <1>1, CausesStay
<1>6. AbandonedRemovesMarker => pc' = pc
  BY DEF AbandonedRemovesMarker
<1>3. CASE pc = "jobs"
  <2>1. file >= required /\ written >= required /\ required' = required
    BY <1>2, <1>3, RunnerStays DEF MeasuredWritten
  <2>2. file # NoFile /\ ~RemoveFile /\ ~AbandonedRemovesFile
    BY <1>3, <2>1, Numbers DEF RemoveFile, AbandonedRemovesFile
  <2>3. file' >= file /\ written' >= written
    BY <1>3, <2>2, FileGrows
  <2>4. file' \in Nat \cup {-1} /\ written' \in Nat
    BY NodeTypeStep DEF NodeTypeOK, NoFile
  <2> QED
    BY <2>1, <2>3, <2>4, Numbers
<1>4. CASE pc # "jobs" /\ TestMarker
  <2>1. /\ pc = "test" /\ ~(existing < required) /\ required' = required
        /\ marker /\ UNCHANGED node
    BY <1>4, TestMarkerOutcomes
  <2>4. causes = {}
    BY <1>2, <1>4, <1>6
  <2>2. existing # NoFile /\ (file = NoFile \/ file >= existing)
    BY <2>1 DEF StatInv
  <2>3. file # NoFile /\ written >= file
    BY <2>1, <2>4 DEF MarkerSound, Sound
  <2> QED
    BY <2>1, <2>2, <2>3, Numbers DEF node
<1>5. CASE pc # "jobs" /\ PrefillDone
  <2>1. /\ pc = "prefill" /\ done = size /\ linked
        /\ UNCHANGED <<file, written, required>>
    BY <1>5, LinkedWhenClean DEF PrefillDone, MayTouch
  <2>2. file # NoFile /\ file >= done /\ written >= done
    BY <2>1 DEF PrefillInv
  <2>3. size = required
    BY <2>1 DEF TypeOK, RunnerTypeOK
  <2> QED
    BY <2>1, <2>2, <2>3
<1> QED
  BY <1>3, <1>4, <1>5, HowReached

-----------------------------------------------------------------------------
(* The theorems.                                                           *)

LEMMA InitIInv == ASSUME Init PROVE IInv
<1>1. TypeOK
  <2>1. NodeTypeOK
    BY DEF Init, NodeTypeOK
  <2>5. 0 \in 0..0
    OBVIOUS
  <2>2. RunnerTypeOK
    BY <2>5 DEF Init, RunnerTypeOK
  <2>3. lost \in 0..MaxLost /\ abandoned \in 0..MaxGhosts
        /\ reboots \in 0..MaxReboots
    BY SizesAreNat DEF Init
  <2>4. HistoryTypeOK
    BY <2>3 DEF Init, HistoryTypeOK
  <2> QED
    BY <2>1, <2>2, <2>4 DEF TypeOK
<1>2. /\ PrefillInv /\ StatInv /\ LaunchInv /\ LinkInv
      /\ MarkerSound /\ MeasuredWritten
  BY DEF Init, PrefillInv, StatInv, LaunchInv, LinkInv, MarkerSound, Sound,
     MeasuredWritten
<1> QED
  BY <1>1, <1>2 DEF IInv

LEMMA IInvStep == ASSUME IInv, [Next]_vars PROVE IInv'
<1>1. /\ TypeOK /\ PrefillInv /\ StatInv /\ LaunchInv /\ LinkInv
      /\ MarkerSound /\ MeasuredWritten
  BY DEF IInv
<1>2. TypeOK'
  BY <1>1, NodeTypeStep, RunnerTypeStep, HistoryTypeStep DEF TypeOK
<1>3. PrefillInv' /\ StatInv' /\ LaunchInv' /\ LinkInv'
  BY <1>1, PrefillStep, StatStep, LaunchStep, LinkStep
<1>4. MarkerSound' /\ MeasuredWritten'
  BY <1>1, MarkerStep, MeasuredStep
<1> QED
  BY <1>2, <1>3, <1>4 DEF IInv

\* The strengthening holds of every reachable state.
THEOREM TestfileInvariance == Spec => []IInv
<1>1. Init => IInv
  BY InitIInv
<1>2. IInv /\ [Next]_vars => IInv'
  BY IInvStep
<1> QED
  BY <1>1, <1>2, PTL DEF Spec

\* prepare(), the jobs, cleanup() and the ghosts keep every variable's type;
\* in particular a prefill in progress is for the size the scenario asked
\* for.
THEOREM TestfileTypeCorrect == Spec => []TypeOK
<1>1. IInv => TypeOK
  BY DEF IInv
<1> QED
  BY <1>1, TestfileInvariance, PTL

\* The ".prefilled" marker that _check_prefilled() trusts is only wrong for
\* one of the five named reasons.
THEOREM MarkerIsSound == Spec => []MarkerSound
<1>1. IInv => MarkerSound
  BY DEF IInv
<1> QED
  BY <1>1, TestfileInvariance, PTL

\* run_jobs() measures a file of the size asked for, all of that size
\* written, unless the marker went wrong for one of those reasons.
THEOREM MeasuredIsWritten == Spec => []MeasuredWritten
<1>1. IInv => MeasuredWritten
  BY DEF IInv
<1> QED
  BY <1>1, TestfileInvariance, PTL

\* _allocate_testfile() never starts on a smaller file, unless a lost probe
\* hid it from prepare().
THEOREM PrefillNeverExtends == Spec => NeverExtends
<1>1. ASSUME IInv, [Next]_vars
      PROVE  [pc = "launch" /\ pc' = "prefill" /\ file # NoFile /\ lost = 0
                => file >= required]_vars
  BY <1>1 DEF IInv, LaunchInv
<1> QED
  BY <1>1, TestfileInvariance, PTL DEF Spec, NeverExtends

-----------------------------------------------------------------------------
(* A campaign is one order of scenarios.                                   *)

LEMMA PlansAreSizes ==
  ASSUME NEW c \in Campaigns
  PROVE  /\ c \in Seq(Sizes) /\ c # << >>
BY TargetAssumption DEF TargetAssumption

CampaignTypeOK ==
  /\ plan \in Seq(Sizes) /\ begun \subseteq Sizes
  /\ accepted \in BOOLEAN /\ hidden \in BOOLEAN

\* What a step of the campaign is for the testfile.
LEMMA StepImplements ==
  ASSUME CampaignTypeOK, [TargetNext]_targetVars
  PROVE  [Next]_vars
<1>1. ASSUME NEW c \in Campaigns, StartChecked(c) \/ StartUnchecked(c)
      PROVE  UNCHANGED vars
  BY <1>1 DEF StartChecked, StartUnchecked
<1>2. CASE NextBinding
  <2>1. Head(plan) \in Sizes
    BY <1>2 DEF NextBinding, CampaignTypeOK
  <2> QED
    BY <1>2, <2>1 DEF NextBinding, Next
<1>3. CASE CampaignDies
  BY <1>3 DEF CampaignDies
<1>4. CASE Work
  BY <1>4 DEF Next
<1>5. CASE UNCHANGED targetVars
  BY <1>5 DEF targetVars
<1> QED
  BY <1>1, <1>2, <1>3, <1>4, <1>5 DEF TargetNext

LEMMA CampaignTypeStep ==
  ASSUME CampaignTypeOK, [TargetNext]_targetVars
  PROVE  CampaignTypeOK'
<1> USE DEF CampaignTypeOK
<1>1. ASSUME NEW c \in Campaigns, StartChecked(c)
      PROVE  CampaignTypeOK'
  <2>1. plan' \in Seq(Sizes) /\ begun' \subseteq Sizes
    BY <1>1, PlansAreSizes DEF StartChecked
  <2>2. accepted' \in BOOLEAN /\ hidden' \in BOOLEAN
    BY <1>1 DEF StartChecked
  <2> QED
    BY <2>1, <2>2
<1>2. ASSUME NEW c \in Campaigns, StartUnchecked(c)
      PROVE  CampaignTypeOK'
  BY <1>2, PlansAreSizes DEF StartUnchecked
<1>3. CASE NextBinding
  BY <1>3 DEF NextBinding
<1>4. CASE CampaignDies
  BY <1>4 DEF CampaignDies
<1>5. CASE UNCHANGED <<plan, begun, accepted, hidden>>
  BY <1>5
<1>6. CASE UNCHANGED targetVars
  BY <1>6 DEF targetVars, campaign
<1> HIDE DEF CampaignTypeOK
<1> QED
  BY <1>1, <1>2, <1>3, <1>4, <1>5, <1>6 DEF TargetNext, campaign

\* The campaign's actions are scenarios in their order, and nothing that
\* FioTestfile does not do: preflight, resume and the end of an orchestrator
\* leave the node as it is.
THEOREM CampaignImplements == TargetSpec => Spec
<1>1. TargetInit => Init /\ CampaignTypeOK
  <2>1. << >> \in Seq(Sizes)
    OBVIOUS
  <2> QED
    BY <2>1 DEF TargetInit, CampaignTypeOK
<1>2. CampaignTypeOK /\ [TargetNext]_targetVars => CampaignTypeOK'
  BY CampaignTypeStep
<1>3. CampaignTypeOK /\ [TargetNext]_targetVars => [Next]_vars
  BY StepImplements
<1> QED
  BY <1>1, <1>2, <1>3, PTL DEF TargetSpec, Spec

\* In every campaign, jobs measure written extents, outside the five named
\* ways in which the marker goes wrong.
THEOREM CampaignMeasuresWritten == TargetSpec => []MeasuredWritten
BY CampaignImplements, MeasuredIsWritten, PTL

-----------------------------------------------------------------------------
(* Why a binding is refused.                                               *)

\* A file of e units is large enough for a campaign that begun bindings of
\* sizes b and has plan p left: for all of them, or it is no smaller than one
\* that was begun.
Fits(p, b, e) ==
  \/ (\A s \in b : s <= e) /\ (\A i \in DOMAIN p : p[i] <= e)
  \/ \E s \in b : s <= e

\* The preflight passed on what it saw, and no prefill was interrupted.
Fair == accepted /\ ~hidden /\ leftBy = 0

FileFits  == Fair /\ file # NoFile /\ pc # "prefill" => Fits(plan, begun, file)
FoundFits == Fair /\ pc = "test" => Fits(plan, begun, existing)
AskedInv  == pc # "idle" => required \in begun
EndInv    == verdict = "refused" => pc = "idle"

FitInv ==
  /\ CampaignTypeOK /\ FileFits /\ FoundFits /\ AskedInv /\ EndInv
  /\ RefusedForItsOwnFile

LEMMA SizesOf ==
  ASSUME NEW p \in Seq(Sizes), NEW i \in DOMAIN p
  PROVE  p[i] \in Int
<1>1. p[i] \in Sizes
  OBVIOUS
<1>2. \A s \in Sizes : s \in Int
  BY SizesAreNat
<1> QED
  BY <1>1, <1>2

LEMMA FitsGrows ==
  ASSUME NEW p \in Seq(Sizes), NEW b \in SUBSET Sizes,
         NEW e \in Int, NEW f \in Int, f >= e, Fits(p, b, e)
  PROVE  Fits(p, b, f)
<1>1. (\A s \in b : s \in Int) /\ (\A i \in DOMAIN p : p[i] \in Int)
  BY SizesAreNat, SizesOf
<1> QED
  BY <1>1 DEF Fits

LEMMA FitsNext ==
  ASSUME NEW p \in Seq(Sizes), p # << >>, NEW b \in SUBSET Sizes,
         NEW e \in Int, Fits(p, b, e)
  PROVE  Fits(Tail(p), b \cup {Head(p)}, e)
<1>1. CASE \E s \in b : s <= e
  BY <1>1 DEF Fits
<1>2. CASE (\A s \in b : s <= e) /\ (\A i \in DOMAIN p : p[i] <= e)
  <2>1. 1 \in DOMAIN p /\ Head(p) = p[1]
    OBVIOUS
  <2>2. ASSUME NEW i \in DOMAIN Tail(p)
        PROVE  i + 1 \in DOMAIN p /\ Tail(p)[i] = p[i + 1]
    OBVIOUS
  <2> QED
    BY <1>2, <2>1, <2>2 DEF Fits
<1> QED
  BY <1>1, <1>2 DEF Fits

LEMMA FitsCut ==
  ASSUME NEW p, NEW b, NEW e, Fits(p, b, e)
  PROVE  Fits(<< >>, b, e)
<1>1. DOMAIN << >> = {}
  OBVIOUS
<1> QED
  BY <1>1 DEF Fits

\* What the preflight accepts.
LEMMA AcceptedFits ==
  ASSUME NEW c \in Campaigns, NEW e, e # NoFile, NEW free,
         Passes(e, Requirement(c), free), e \in Int
  PROVE  Fits(c, {}, e)
<1>1. \A s \in {c[i] : i \in DOMAIN c} : e >= s
  BY DEF Passes, Requirement
<1>2. ASSUME NEW i \in DOMAIN c
      PROVE  c[i] <= e
  <2>1. c[i] \in Int
    BY PlansAreSizes, SizesOf
  <2> QED
    BY <1>1, <2>1
<1> QED
  BY <1>2 DEF Fits

LEMMA TooSmall ==
  ASSUME NEW p, NEW b \in SUBSET Sizes, NEW e \in Int, Fits(p, b, e),
         NEW r \in b, e < r
  PROVE  \E s \in b : s < r
<1>1. \A s \in b : s \in Int
  BY SizesAreNat
<1> QED
  BY <1>1 DEF Fits

-----------------------------------------------------------------------------
(* Steps of the testfile, within a campaign.                               *)

\* A job that was not cut short has laid out all its scenario asks for.
LEMMA LaidOutAll ==
  ASSUME TypeOK, LayOut, leftBy' = 0
  PROVE  pc = "jobs" /\ ~(file' < required)
<1>1. /\ pc = "jobs" /\ file < required
      /\ leftBy' = IF file' < required THEN required ELSE 0
  BY DEF LayOut
<1>2. required # 0
  BY <1>1, TestfileAssumption DEF TestfileAssumption, TypeOK, RunnerTypeOK
<1> QED
  BY <1>1, <1>2

\* A file that waits for no prefill only grows, or it is removed.
LEMMA FileAfterWork ==
  ASSUME TypeOK, PrefillInv, LinkInv, AskedInv, Work,
         pc' # "prefill", file' # NoFile, leftBy' = 0
  PROVE  /\ file' \in Int
         /\ \/ /\ pc # "prefill" /\ file # NoFile /\ leftBy = 0
               /\ file' >= file
            \/ \E s \in begun : s <= file'
<1>1. file' \in Int
  <2>1. NodeTypeOK'
    BY NodeTypeStep DEF Next
  <2> QED
    BY <2>1 DEF NodeTypeOK, NoFile
<1>2. CASE PrefillDone
  <2>1. file >= done /\ done = size /\ file' = file /\ pc = "prefill"
    BY <1>2 DEF PrefillDone, PrefillInv, MayTouch
  <2>2. size = required /\ required \in begun
    BY <2>1 DEF TypeOK, RunnerTypeOK, AskedInv
  <2> QED
    BY <1>1, <2>1, <2>2, Numbers
<1>3. CASE PrefillFails \/ PrefillAbandoned \/ (Reboot /\ pc = "prefill")
  <2>1. pc = "prefill" /\ leftBy' = size
    BY <1>3 DEF PrefillFails, PrefillAbandoned, Reboot
  <2>2. size \in Sizes
    BY <2>1 DEF TypeOK, RunnerTypeOK
  <2> QED
    BY <2>1, <2>2, TestfileAssumption DEF TestfileAssumption
<1>4. ASSUME NEW g \in ghosts, GhostWrites(g)
      PROVE  /\ pc # "prefill" /\ file # NoFile /\ leftBy = 0
             /\ file' >= file
  BY <1>4, GhostWrote DEF GhostWrites, LinkInv
<1>5. /\ ~RemoveFile /\ ~AbandonedRemovesFile /\ ~LaunchPrefill
      /\ ~WritePrefill
  BY DEF RemoveFile, AbandonedRemovesFile, Unlink, LaunchPrefill, WritePrefill
<1>7. CASE LayOut
  <2>1. pc = "jobs" /\ file' <= required /\ ~(file' < required)
    BY <1>7, LaidOut, LaidOutAll
  <2>2. required \in begun /\ required \in Int
    BY <2>1, Numbers DEF AskedInv
  <2> QED
    BY <1>1, <2>1, <2>2
<1>6. ASSUME ~PrefillDone, ~PrefillFails, ~PrefillAbandoned, ~LayOut,
             ~(Reboot /\ pc = "prefill"), ~\E g \in ghosts : GhostWrites(g)
      PROVE  pc # "prefill" /\ file' = file /\ leftBy' = leftBy
  <2>1. TestMarker => pc = "test" /\ UNCHANGED <<node, leftBy>>
    BY TestMarkerOutcomes
  <2> QED
    BY <1>5, <1>6, <2>1 DEF Work, StatFile, StatLost, GiveUp, JobsDone,
       RemoveMarker, RemoveFails, CleanupAbandoned, GhostDone, GhostDies,
       AbandonedRemovesMarker, Reboot, node
<1> QED
  BY <1>1, <1>2, <1>3, <1>4, <1>6, <1>7, Numbers

\* What a binding is refused for, and what it found.
LEMMA VerdictAfterWork ==
  ASSUME TypeOK, AskedInv, EndInv, Work
  PROVE  /\ pc' # "idle" => pc # "idle" /\ required' = required
         /\ pc' = "test" =>
              \/ pc = "test" /\ existing' = existing /\ leftBy' = leftBy
              \/ /\ pc = "stat" /\ existing' = file /\ file # NoFile
                 /\ leftBy' = leftBy
         /\ verdict' = "refused" =>
              \/ pc = "idle" /\ verdict = "refused" /\ pc' = "idle"
                 /\ required' = required /\ leftBy' = leftBy
              \/ /\ pc = "test" /\ existing < required /\ pc' = "idle"
                 /\ required' = required /\ leftBy' = leftBy
<1>1. CASE TestMarker
  BY <1>1, TestMarkerOutcomes DEF EndInv
<1>2. CASE StatFile \/ StatLost \/ LaunchPrefill \/ WritePrefill
  BY <1>2 DEF StatFile, StatLost, LaunchPrefill, WritePrefill, EndInv
<1>3. CASE PrefillDone \/ PrefillFails \/ PrefillAbandoned \/ GiveUp
  BY <1>3 DEF PrefillDone, PrefillFails, PrefillAbandoned, GiveUp, Return,
     EndInv
<1>4. CASE JobsDone \/ RemoveFile \/ RemoveMarker \/ RemoveFails
  BY <1>4 DEF JobsDone, RemoveFile, RemoveMarker, RemoveFails, Return, EndInv
<1>7. CASE \/ LayOut \/ CleanupAbandoned \/ AbandonedRemovesFile
           \/ AbandonedRemovesMarker
  BY <1>7 DEF LayOut, CleanupAbandoned, AbandonedRemovesFile,
     AbandonedRemovesMarker, EndInv
<1>5. CASE \E g \in ghosts : GhostWrites(g) \/ GhostDone(g) \/ GhostDies(g)
  BY <1>5 DEF GhostWrites, GhostDone, GhostDies, EndInv
<1>6. CASE Reboot
  BY <1>6 DEF Reboot, Return, EndInv
<1> QED
  BY <1>1, <1>2, <1>3, <1>4, <1>5, <1>6, <1>7 DEF Work

\* A step of the campaign around its bindings.
LEMMA FileFitsAround ==
  ASSUME TypeOK, CampaignTypeOK, FileFits,
         NEW c, \/ c \in Campaigns /\ (StartChecked(c) \/ StartUnchecked(c))
                \/ NextBinding \/ CampaignDies
  PROVE  FileFits' /\ pc' # "test"
<1>1. /\ plan \in Seq(Sizes) /\ begun \in SUBSET Sizes /\ file \in Int
  BY Numbers DEF CampaignTypeOK
<1>2. CASE c \in Campaigns /\ StartChecked(c)
  <2>1. PICK found \in {file, NoFile}, free \in FreeSpace :
          Passes(found, Requirement(c), free) /\ hidden' = (found # file)
    BY <1>2 DEF StartChecked
  <2>2. /\ plan' = c /\ begun' = {} /\ file' = file /\ pc' = "idle"
    BY <1>2 DEF StartChecked, vars, node
  <2>3. CASE hidden'
    BY <2>2, <2>3 DEF FileFits, Fair
  <2>4. CASE ~hidden' /\ file # NoFile
    <3>1. Passes(file, Requirement(c), free)
      BY <2>1, <2>4
    <3>2. Fits(c, {}, file)
      BY <1>1, <1>2, <2>4, <3>1, AcceptedFits
    <3> QED
      BY <2>2, <3>2 DEF FileFits
  <2>5. CASE file = NoFile
    BY <2>2, <2>5 DEF FileFits
  <2> QED
    BY <2>2, <2>3, <2>4, <2>5
<1>3. CASE StartUnchecked(c)
  BY <1>3 DEF StartUnchecked, FileFits, Fair, vars
<1>4. CASE NextBinding
  <2>1. /\ plan # << >> /\ plan' = Tail(plan)
        /\ begun' = begun \cup {Head(plan)} /\ pc = "idle" /\ pc' = "stat"
        /\ file' = file /\ UNCHANGED <<accepted, hidden, leftBy>>
    BY <1>4 DEF NextBinding, Begin, node
  <2>2. Fits(plan, begun, file) => Fits(plan', begun', file')
    BY <1>1, <2>1, FitsNext
  <2> QED
    BY <2>1, <2>2 DEF FileFits, Fair
<1>5. CASE CampaignDies
  <2>1. /\ plan' = << >> /\ pc = "idle" /\ pc' = "idle" /\ file' = file
        /\ UNCHANGED <<begun, accepted, hidden, leftBy>>
    BY <1>5 DEF CampaignDies, vars, node
  <2>2. Fits(plan, begun, file) => Fits(plan', begun', file')
    BY <2>1, FitsCut
  <2> QED
    BY <2>1, <2>2 DEF FileFits, Fair
<1> QED
  BY <1>2, <1>3, <1>4, <1>5

LEMMA FileFitsWork ==
  ASSUME TypeOK, PrefillInv, LinkInv, CampaignTypeOK, AskedInv, FileFits,
         Work, UNCHANGED campaign
  PROVE  FileFits'
<1> SUFFICES ASSUME Fair', file' # NoFile, pc' # "prefill"
             PROVE  Fits(plan', begun', file')
  BY DEF FileFits
<1>1. /\ plan' = plan /\ begun' = begun /\ accepted /\ ~hidden
      /\ leftBy' = 0 /\ plan \in Seq(Sizes) /\ begun \in SUBSET Sizes
  BY DEF campaign, Fair, CampaignTypeOK
<1>2. file' \in Int /\ file \in Int
  BY <1>1, FileAfterWork, Numbers
<1>3. CASE \E s \in begun : s <= file'
  BY <1>1, <1>3 DEF Fits
<1>4. CASE /\ pc # "prefill" /\ file # NoFile /\ leftBy = 0
           /\ file' >= file
  <2>1. Fits(plan, begun, file)
    BY <1>1, <1>4 DEF FileFits, Fair
  <2>2. Fits(plan, begun, file')
    BY <1>1, <1>2, <1>4, <2>1, FitsGrows
  <2> QED
    BY <1>1, <2>2
<1> QED
  BY <1>1, <1>3, <1>4, FileAfterWork

\* Steps in which the runner is between scenarios, or enters one.
LEMMA FitAround ==
  ASSUME TypeOK, FitInv,
         NEW c, \/ c \in Campaigns /\ (StartChecked(c) \/ StartUnchecked(c))
                \/ NextBinding \/ CampaignDies
  PROVE  FitInv'
<1>1. CampaignTypeOK'
  BY CampaignTypeStep DEF FitInv, TargetNext
<1>2. FileFits' /\ FoundFits'
  BY FileFitsAround DEF FitInv, FoundFits
<1>3. AskedInv' /\ EndInv' /\ RefusedForItsOwnFile'
  <2>1. CASE StartChecked(c) \/ StartUnchecked(c)
    BY <2>1 DEF FitInv, StartChecked, StartUnchecked, AskedInv, EndInv,
       RefusedForItsOwnFile, vars
  <2>2. CASE NextBinding
    BY <2>2 DEF NextBinding, Begin, AskedInv, EndInv, RefusedForItsOwnFile
  <2>3. CASE CampaignDies
    BY <2>3 DEF FitInv, CampaignDies, AskedInv, EndInv, RefusedForItsOwnFile,
       vars
  <2> QED
    BY <2>1, <2>2, <2>3
<1> QED
  BY <1>1, <1>2, <1>3 DEF FitInv

\* Steps of a binding, of the node and of what an earlier one left running.
LEMMA FitWork ==
  ASSUME TypeOK, PrefillInv, StatInv, LinkInv, FitInv,
         Work, UNCHANGED campaign
  PROVE  FitInv'
<1>1. /\ CampaignTypeOK /\ FileFits /\ FoundFits /\ AskedInv /\ EndInv
      /\ RefusedForItsOwnFile
  BY DEF FitInv
<1>2. /\ plan' = plan /\ begun' = begun /\ accepted' = accepted
      /\ hidden' = hidden
  BY DEF campaign
<1>3. CampaignTypeOK'
  BY <1>1, <1>2 DEF CampaignTypeOK
<1>4. FileFits'
  BY <1>1, FileFitsWork
<1>5. FoundFits'
  <2>1. CASE pc = "test" /\ existing' = existing /\ leftBy' = leftBy
    BY <1>1, <1>2, <2>1 DEF FoundFits, Fair
  <2>2. CASE /\ pc = "stat" /\ existing' = file /\ file # NoFile
             /\ leftBy' = leftBy
    BY <1>1, <1>2, <2>2 DEF FileFits, FoundFits, Fair
  <2>3. CASE pc' # "test"
    BY <2>3 DEF FoundFits
  <2> QED
    BY <1>1, <2>1, <2>2, <2>3, VerdictAfterWork
<1>6. AskedInv' /\ EndInv'
  BY <1>1, <1>2, VerdictAfterWork DEF AskedInv, EndInv
<1>7. RefusedForItsOwnFile'
  <2> SUFFICES ASSUME accepted, ~hidden, leftBy' = 0, begun # {},
                      verdict' = "refused"
               PROVE  \E s \in begun' : s < required'
    BY <1>2 DEF RefusedForItsOwnFile
  <2>1. CASE /\ verdict = "refused" /\ required' = required
             /\ leftBy' = leftBy
    BY <1>1, <1>2, <2>1 DEF RefusedForItsOwnFile
  <2>2. CASE /\ pc = "test" /\ existing < required /\ required' = required
             /\ leftBy' = leftBy
    <3>1. Fits(plan, begun, existing)
      BY <1>1, <2>2 DEF FoundFits, Fair
    <3>2. required \in begun /\ existing \in Int /\ begun \in SUBSET Sizes
      BY <1>1, <2>2, Numbers DEF AskedInv, CampaignTypeOK
    <3> QED
      BY <1>2, <2>2, <3>1, <3>2, TooSmall
  <2> QED
    BY <1>1, <2>1, <2>2, VerdictAfterWork
<1> QED
  BY <1>3, <1>4, <1>5, <1>6, <1>7 DEF FitInv

LEMMA FitStep ==
  ASSUME TypeOK, PrefillInv, StatInv, LinkInv, FitInv,
         [TargetNext]_targetVars
  PROVE  FitInv'
<1>1. ASSUME NEW c \in Campaigns, StartChecked(c) \/ StartUnchecked(c)
      PROVE  FitInv'
  BY <1>1, FitAround
<1>2. CASE NextBinding \/ CampaignDies
  BY <1>2, FitAround
<1>3. CASE Work /\ UNCHANGED campaign
  BY <1>3, FitWork
<1>4. CASE UNCHANGED targetVars
  BY <1>4 DEF targetVars, campaign, vars, node, FitInv, CampaignTypeOK,
     FileFits, FoundFits, AskedInv, EndInv, RefusedForItsOwnFile, Fair
<1> QED
  BY <1>1, <1>2, <1>3, <1>4 DEF TargetNext

\* Over a preflight that passed, a binding is refused only for the file of an
\* earlier, smaller binding, of an interrupted prefill or job, or because the
\* preflight did not see the file.
THEOREM RefusalsAreHomeMade == TargetSpec => []RefusedForItsOwnFile
<1>1. TargetInit => FitInv
  <2>1. << >> \in Seq(Sizes)
    OBVIOUS
  <2> QED
    BY <2>1 DEF TargetInit, Init, FitInv, CampaignTypeOK, FileFits, FoundFits,
       AskedInv, EndInv, RefusedForItsOwnFile, Fair
<1>2. IInv /\ FitInv /\ [TargetNext]_targetVars => FitInv'
  BY FitStep DEF IInv
<1>3. FitInv => RefusedForItsOwnFile
  BY DEF FitInv
<1>4. TargetSpec => []IInv
  BY CampaignImplements, TestfileInvariance, PTL
<1> QED
  BY <1>1, <1>2, <1>3, <1>4, PTL DEF TargetSpec
=============================================================================
