---------------------------- MODULE FioTestfile ----------------------------
(***************************************************************************)
(* The workspace file of one storage target and its ".prefilled" marker,   *)
(* as FioRunner (runners/fio.py) creates, trusts, reuses and removes them  *)
(* over ssh.                                                               *)
(*                                                                         *)
(* A file of n units has extents 1..n; an extent is "written" once data    *)
(* was written to it.  fio may preallocate a file it writes, which leaves  *)
(* unwritten extents, and it writes sequentially, so the written extents   *)
(* are a prefix.  A local timeout (ssh.py) ends the ssh client only: the   *)
(* remote command goes on.  An abandoned prefill is a ghost, which touches *)
(* the marker when it is done; an abandoned cleanup still removes what it  *)
(* has not removed yet, under whatever the runner does by then.            *)
(***************************************************************************)
EXTENDS Integers

CONSTANTS
  Sizes,      \* sizes the scenarios on this target ask for
  MaxGhosts,  \* bound: prefills and removals abandoned
  MaxLost,    \* bound: probes (stat, test -f) whose ssh fails
  MaxReboots  \* bound: reboots of the node

ASSUME TestfileAssumption ==
  /\ Sizes \subseteq Nat \ {0}
  /\ MaxGhosts \in Nat /\ MaxLost \in Nat /\ MaxReboots \in Nat

NoFile == -1

VARIABLES
  file,      \* size of the testfile, or NoFile
  written,   \* its written extents are 1..written
  marker,    \* the .prefilled marker exists
  pc,        \* where the runner is; "idle": between scenarios
  required,  \* size the scenario asks for
  existing,  \* the file's size, as prepare() has found it
  size,      \* size of the prefill the runner waits for, or 0
  done,      \* units that prefill has written
  linked,    \* it writes the testfile, and not one removed under it
  ghosts,    \* abandoned prefills still running: [size, done, linked]
  rms,       \* how many abandoned removals have the file, or only the
             \* marker, still before them
  verdict,   \* how the last scenario ended
  leftBy,    \* size of the interrupted prefill or job that left the file, or 0
  causes,    \* why the marker may be wrong
  lost, abandoned, reboots

node   == <<file, written, marker>>
budget == <<lost, abandoned, reboots>>
remote == <<ghosts, rms>>
vars   == <<node, pc, required, existing, size, done, linked, remote, verdict,
            leftBy, causes, budget>>

AtLeast(m, n) == IF m < n THEN n ELSE m

\* The marker tells the truth: the file is there, all of it written.
Sound == marker => file # NoFile /\ written >= file

Init ==
  /\ file = NoFile /\ written = 0 /\ marker = FALSE
  /\ pc = "idle" /\ required = 0 /\ existing = NoFile
  /\ size = 0 /\ done = 0 /\ linked = FALSE
  /\ ghosts = {} /\ rms = [stage \in {"file", "marker"} |-> 0]
  /\ verdict = "none" /\ leftBy = 0
  /\ causes = {}
  /\ lost = 0 /\ abandoned = 0 /\ reboots = 0

\* The scenario ends and the runner goes back to the orchestrator.
Return(v) ==
  /\ pc' = "idle" /\ verdict' = v /\ existing' = NoFile
  /\ UNCHANGED required

-----------------------------------------------------------------------------
(* prepare()                                                               *)

\* A scenario that asks for s units reaches prepare().
Begin(s) ==
  /\ pc = "idle"
  /\ required' = s
  /\ pc' = "stat" /\ verdict' = "none"
  /\ UNCHANGED <<node, existing, size, done, linked, remote, leftBy, causes, budget>>

\* _existing_testfile_gib()
StatFile ==
  /\ pc = "stat"
  /\ existing' = file
  /\ pc' = IF file = NoFile THEN "launch" ELSE "test"
  /\ UNCHANGED <<node, required, size, done, linked, remote, verdict, leftBy, causes,
                 budget>>

\* ssh failed: the output is empty, which reads as "no file".
StatLost ==
  /\ pc = "stat" /\ lost < MaxLost
  /\ existing' = NoFile
  /\ pc' = "launch"
  /\ lost' = lost + 1
  /\ UNCHANGED <<node, required, size, done, linked, remote, verdict, leftBy, causes,
                 abandoned, reboots>>

\* What prepare() does with an existing file of size e, given the marker.
\* Variant: the marker is not asked for.
Decision_SizeOnly(e, prefilled) == IF e < required THEN "refuse" ELSE "jobs"
\* Variant: an unmarked file sends the runner back to allocate it anew,
\* which is no place it can be at.
Decision_Reallocate(e, prefilled) ==
  IF e < required THEN "refuse" ELSE IF prefilled THEN "jobs" ELSE "allocate"
\* Variant: the undersized file is extended.
Decision_Extend(e, prefilled) ==
  IF prefilled /\ e >= required THEN "jobs" ELSE "launch"
Decision(e, prefilled) ==
  IF e < required THEN "refuse" ELSE IF prefilled THEN "jobs" ELSE "launch"

\* _check_prefilled(), whose ssh may fail (which reads as "no marker").
TestMarker ==
  /\ pc = "test"
  /\ \E prefilled \in BOOLEAN :
       /\ \/ prefilled = marker /\ UNCHANGED lost
          \/ ~prefilled /\ lost < MaxLost /\ lost' = lost + 1
       /\ IF Decision(existing, prefilled) = "refuse"
          THEN Return("refused")
          ELSE /\ pc' = Decision(existing, prefilled) /\ existing' = NoFile
               /\ UNCHANGED <<required, verdict>>
  /\ UNCHANGED <<node, size, done, linked, remote, leftBy, causes, abandoned, reboots>>

\* _allocate_testfile(): the remote fio opens the file, creates it if need
\* be, and preallocates it where the filesystem can.
LaunchPrefill ==
  /\ pc = "launch"
  /\ \E preallocated \in BOOLEAN :
       file' = IF preallocated THEN AtLeast(file, required)
                               ELSE AtLeast(file, 0)
  /\ written' = IF file = NoFile THEN 0 ELSE written
  /\ leftBy' = IF file = NoFile THEN 0 ELSE leftBy
  /\ size' = required /\ done' = 0 /\ linked' = TRUE
  /\ pc' = "prefill"
  /\ causes' = IF marker /\ file # NoFile /\ file < required
               THEN causes \cup {"lost_probe"} ELSE causes
  /\ UNCHANGED <<marker, required, existing, remote, verdict, budget>>

\* fio writes the next unit.
WritePrefill ==
  /\ pc = "prefill" /\ done < size
  /\ done' = done + 1
  /\ IF linked
     THEN /\ written' = AtLeast(written, done')
          /\ file' = AtLeast(file, done')
     ELSE UNCHANGED <<written, file>>
  /\ UNCHANGED <<marker, pc, required, existing, size, linked, remote, verdict,
                 leftBy, causes, budget>>

\* The runner does not wait for a prefill any more.
PrefillOver == size' = 0 /\ done' = 0 /\ linked' = FALSE

\* When the remote command may run "&& touch marker".
\* Variant: "; touch marker", whatever fio's exit status.
MayTouch_Always(d, s) == TRUE
MayTouch(d, s) == d = s

\* fio is done: the remote shell touches the marker and the runner goes on.
PrefillDone ==
  /\ pc = "prefill" /\ MayTouch(done, size)
  /\ marker' = TRUE
  /\ leftBy' = 0
  /\ causes' = CASE ~linked -> causes \cup {"abandoned_rm"}
                 [] linked /\ size < file /\ written < file
                      -> causes \cup {"smaller_prefill"}
                 [] OTHER -> causes
  /\ pc' = "jobs"
  /\ PrefillOver
  /\ UNCHANGED <<file, written, required, existing, remote, verdict, budget>>

\* fio fails (or is killed) on the node: no marker, prepare() raises.
PrefillFails ==
  /\ pc = "prefill"
  /\ leftBy' = size
  /\ Return("failed") /\ PrefillOver
  /\ UNCHANGED <<node, remote, causes, budget>>

\* The ssh client is gone (timeout of 1800 s, lost connection) or the
\* orchestrator died: the remote fio goes on.
PrefillAbandoned ==
  /\ pc = "prefill" /\ abandoned < MaxGhosts
  /\ abandoned' = abandoned + 1
  /\ ghosts' = ghosts \cup {[size |-> size, done |-> done, linked |-> linked]}
  /\ leftBy' = size
  /\ Return("failed") /\ PrefillOver
  /\ UNCHANGED <<node, rms, causes, lost, reboots>>

\* The orchestrator dies, or its ssh fails, where nothing runs remotely.
GiveUp ==
  /\ pc \in {"stat", "test", "launch", "jobs"}
  /\ Return("failed")
  /\ UNCHANGED <<node, size, done, linked, remote, leftBy, causes, budget>>

-----------------------------------------------------------------------------
(* Jobs and cleanup()                                                      *)

\* A job's fio lays out what its file lacks of the scenario's size, or dies on
\* the way.
LayOut ==
  /\ pc = "jobs" /\ file < required
  /\ file' \in AtLeast(file, 0)..required
  /\ written' \in written..file'
  /\ leftBy' = IF file' < required THEN required ELSE 0
  /\ UNCHANGED <<marker, pc, required, existing, size, done, linked, remote,
                 verdict, causes, budget>>

\* The scenario's jobs ran over the first `required' units.
JobsDone ==
  /\ pc = "jobs"
  /\ \/ Return("measured")
     \/ /\ pc' = "rm_file" /\ verdict' = "measured"
        /\ UNCHANGED <<required, existing>>
  /\ UNCHANGED <<node, size, done, linked, remote, leftBy, causes, budget>>

\* The testfile is removed; who writes it keeps the unlinked file.
Unlink ==
  /\ file' = NoFile /\ written' = 0
  /\ ghosts' = {[g EXCEPT !.linked = FALSE] : g \in ghosts}
  /\ linked' = FALSE

\* rm -f testfile marker, in this order.
RemoveFile ==
  /\ pc = "rm_file"
  /\ Unlink
  /\ pc' = "rm_marker"
  /\ UNCHANGED <<marker, required, existing, size, done, rms, verdict, leftBy,
                 causes, budget>>

\* Variant: cleanup() removes the testfile only.
RemoveMarker_Forgotten ==
  /\ pc = "rm_marker"
  /\ pc' = "idle"
  /\ UNCHANGED <<node, required, existing, size, done, linked, remote, verdict,
                 leftBy, causes, budget>>

RemoveMarker ==
  /\ pc = "rm_marker"
  /\ marker' = FALSE
  /\ causes' = {}
  /\ pc' = "idle"
  /\ UNCHANGED <<file, written, required, existing, size, done, linked, remote,
                 verdict, leftBy, budget>>

\* The rm never ran; check=False hides it.
RemoveFails ==
  /\ pc = "rm_file"
  /\ pc' = "idle"
  /\ UNCHANGED <<node, required, existing, size, done, linked, remote, verdict,
                 leftBy, causes, budget>>

\* The ssh client is gone (timeout of 30 s, lost connection) and check=False
\* hides it, or the orchestrator died: the runner goes on beside the removal.
CleanupAbandoned ==
  /\ pc \in {"rm_file", "rm_marker"} /\ abandoned < MaxGhosts
  /\ abandoned' = abandoned + 1
  /\ LET stage == IF pc = "rm_file" THEN "file" ELSE "marker"
     IN  rms' = [rms EXCEPT ![stage] = @ + 1]
  /\ causes' = IF pc = "rm_marker" /\ marker
               THEN causes \cup {"abandoned_rm"} ELSE causes
  /\ pc' = "idle"
  /\ UNCHANGED <<node, required, existing, size, done, linked, ghosts, verdict,
                 leftBy, lost, reboots>>

-----------------------------------------------------------------------------
(* The node                                                                *)

GhostWrites(g) ==
  /\ g.done < g.size
  /\ ghosts' = (ghosts \ {g}) \cup {[g EXCEPT !.done = @ + 1]}
  /\ UNCHANGED rms
  /\ IF g.linked
     THEN /\ written' = AtLeast(written, g.done + 1)
          /\ file' = AtLeast(file, g.done + 1)
     ELSE UNCHANGED <<written, file>>
  /\ UNCHANGED <<marker, pc, required, existing, size, done, linked, verdict,
                 leftBy, causes, budget>>

GhostDone(g) ==
  /\ g.done = g.size
  /\ ghosts' = ghosts \ {g}
  /\ marker' = TRUE
  /\ causes' = IF file = NoFile \/ written < file
               THEN causes \cup {"ghost"} ELSE causes
  /\ UNCHANGED <<file, written, pc, required, existing, size, done, linked, rms,
                 verdict, leftBy, budget>>

GhostDies(g) ==
  /\ ghosts' = ghosts \ {g}
  /\ UNCHANGED <<node, pc, required, existing, size, done, linked, rms, verdict,
                 leftBy, causes, budget>>

\* An abandoned cleanup removes the testfile, whoever has made or is using
\* the one that is there by then.
AbandonedRemovesFile ==
  /\ rms["file"] > 0
  /\ rms' = [rms EXCEPT !["file"] = @ - 1, !["marker"] = @ + 1]
  /\ Unlink
  /\ causes' = IF marker \/ pc = "jobs"
               THEN causes \cup {"abandoned_rm"} ELSE causes
  /\ UNCHANGED <<marker, pc, required, existing, size, done, verdict, leftBy,
                 budget>>

\* ... and then the marker.  Jobs that run over a bad file go on over it.
AbandonedRemovesMarker ==
  /\ rms["marker"] > 0
  /\ rms' = [rms EXCEPT !["marker"] = @ - 1]
  /\ marker' = FALSE
  /\ causes' = IF pc = "jobs" THEN causes ELSE {}
  /\ UNCHANGED <<file, written, pc, required, existing, size, done, linked,
                 ghosts, verdict, leftBy, budget>>

\* The node reboots: every remote command ends where it is.
Reboot ==
  /\ reboots < MaxReboots
  /\ reboots' = reboots + 1
  /\ ghosts' = {} /\ rms' = [stage \in DOMAIN rms |-> 0]
  /\ causes' = IF pc = "rm_marker" /\ marker
               THEN causes \cup {"reboot_in_rm"} ELSE causes
  /\ leftBy' = IF pc = "prefill" THEN size ELSE leftBy
  /\ Return(IF pc \in {"idle", "rm_file", "rm_marker"} THEN verdict
                                                       ELSE "failed")
  /\ PrefillOver
  /\ UNCHANGED <<node, lost, abandoned>>

-----------------------------------------------------------------------------

\* Everything but the arrival of a scenario.
Work ==
  \/ StatFile \/ StatLost \/ TestMarker
  \/ LaunchPrefill \/ WritePrefill \/ PrefillDone
  \/ PrefillFails \/ PrefillAbandoned \/ GiveUp
  \/ LayOut \/ JobsDone
  \/ RemoveFile \/ RemoveMarker \/ RemoveFails \/ CleanupAbandoned
  \/ \E g \in ghosts : GhostWrites(g) \/ GhostDone(g) \/ GhostDies(g)
  \/ AbandonedRemovesFile \/ AbandonedRemovesMarker
  \/ Reboot

Next == (\E s \in Sizes : Begin(s)) \/ Work

Spec == Init /\ [][Next]_vars

-----------------------------------------------------------------------------
(* Properties.                                                             *)

NodeTypeOK ==
  /\ file \in {NoFile} \cup Nat /\ written \in Nat /\ marker \in BOOLEAN
  /\ ghosts \subseteq [size : Sizes, done : Nat, linked : BOOLEAN]
  /\ \A g \in ghosts : g.done <= g.size
  /\ rms \in [{"file", "marker"} -> Nat]

RunnerTypeOK ==
  /\ pc \in {"idle", "stat", "test", "launch", "prefill", "jobs", "rm_file",
             "rm_marker"}
  /\ required \in Sizes \cup {0} /\ existing \in {NoFile} \cup Nat
  /\ size \in Sizes \cup {0} /\ done \in 0..size /\ linked \in BOOLEAN
  /\ pc \in {"stat", "test", "launch", "prefill", "jobs"} => required \in Sizes
  /\ pc = "prefill" => size = required

HistoryTypeOK ==
  /\ verdict \in {"none", "refused", "failed", "measured"}
  /\ leftBy \in Sizes \cup {0}
  /\ causes \subseteq {"lost_probe", "smaller_prefill", "ghost",
                       "reboot_in_rm", "abandoned_rm"}
  /\ lost \in 0..MaxLost /\ abandoned \in 0..MaxGhosts
  /\ reboots \in 0..MaxReboots

TypeOK == NodeTypeOK /\ RunnerTypeOK /\ HistoryTypeOK

\* Jobs are never measured over unwritten extents (README, methodology
\* guard 1), as long as the marker has not gone wrong in one of the five
\* ways the code leaves open, the last of which can also take the file from
\* under the jobs themselves.
MeasuredWritten ==
  pc = "jobs" /\ causes = {} => file >= required /\ written >= required

\* The marker is wrong only after a probe lost on a marked, too small file,
\* a prefill smaller than the file, a ghost that outlived its file or its
\* file's size, a reboot between the two removals of cleanup(), or a cleanup
\* that was abandoned and removed the file of a later binding.
MarkerSound == causes = {} /\ pc # "rm_marker" => Sound

\* A prefill never extends an existing smaller file (README, methodology
\* guard 2), unless a lost probe hid the file.
NeverExtends ==
  [][pc = "launch" /\ pc' = "prefill" /\ file # NoFile /\ lost = 0
       => file >= required]_vars

\* The same promise as MeasuredWritten, as the README makes it.
AlwaysMeasuredWritten == pc = "jobs" => written >= required
=============================================================================
