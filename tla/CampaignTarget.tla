--------------------------- MODULE CampaignTarget ---------------------------
(***************************************************************************)
(* One target of a campaign, from the preflight (cli.py, preflight_target  *)
(* in ssh.py) to its last binding: FioTestfile, with the scenarios in the  *)
(* order of the campaign instead of any.                                   *)
(*                                                                         *)
(* What the preflight finds is never looked at again: the bindings meet    *)
(* the file that the earlier ones, or the prefills of earlier campaigns,   *)
(* have made of it.                                                        *)
(***************************************************************************)
EXTENDS FioTestfile, Sequences

CONSTANTS
  Campaigns, \* testfile sizes of the bindings on the target, in order
  FreeSpace, \* free units df may report
  Margin     \* safety_margin_gib

ASSUME TargetAssumption ==
  /\ Campaigns \subseteq Seq(Sizes) \ {<< >>}
  /\ FreeSpace \subseteq Nat
  /\ Margin \in Nat

VARIABLES
  plan,      \* sizes of the bindings still to come
  begun,     \* sizes of the bindings that were begun
  accepted,  \* the campaign was started over a preflight that passed
  hidden     \* ... whose stat was lost, so that it did not see the file

campaign   == <<plan, begun, accepted, hidden>>
targetVars == <<vars, campaign>>

TargetInit ==
  /\ Init
  /\ plan = << >> /\ begun = {} /\ accepted = FALSE /\ hidden = FALSE

\* The testfile sizes of a campaign.  Variant: the last one only.
Requirement_Last(c) == {c[Len(c)]}
Requirement(c) == {c[i] : i \in DOMAIN c}

\* preflight_target(), with the largest size: a file that is large enough is
\* reused, a smaller one fails the check, and what is still needed has to
\* fit, with the margin.
Passes(found, sizes, free) ==
  IF found = NoFile THEN \A s \in sizes : free >= s + Margin
                    ELSE free >= Margin /\ \A s \in sizes : found >= s

\* harness run: the preflight, whose stat may be lost ("no file"), and then
\* the campaign.
StartChecked(c) ==
  /\ pc = "idle" /\ plan = << >>
  /\ \E found \in {file, NoFile}, free \in FreeSpace :
       /\ Passes(found, Requirement(c), free)
       /\ hidden' = (found # file)
  /\ plan' = c /\ begun' = {} /\ accepted' = TRUE
  /\ UNCHANGED vars

\* harness run --no-preflight, and harness resume, which has none.
StartUnchecked(c) ==
  /\ pc = "idle" /\ plan = << >>
  /\ plan' = c /\ begun' = {} /\ accepted' = FALSE
  /\ UNCHANGED <<vars, hidden>>

\* The next binding; a refused or failed one does not stop the campaign.
NextBinding ==
  /\ plan # << >>
  /\ Begin(Head(plan))
  /\ plan' = Tail(plan)
  /\ begun' = begun \cup {Head(plan)}
  /\ UNCHANGED <<accepted, hidden>>

\* The orchestrator is gone: no binding follows.
CampaignDies ==
  /\ pc = "idle" /\ plan # << >>
  /\ plan' = << >>
  /\ UNCHANGED <<vars, begun, accepted, hidden>>

TargetNext ==
  \/ \E c \in Campaigns : StartChecked(c) \/ StartUnchecked(c)
  \/ NextBinding \/ CampaignDies
  \/ Work /\ UNCHANGED campaign

TargetSpec == TargetInit /\ [][TargetNext]_targetVars

-----------------------------------------------------------------------------
(* Properties.                                                             *)

\* A campaign whose preflight passed is refused a binding for its testfile
\* only if an earlier, smaller binding of the same campaign made the file, a
\* prefill or a job that laid it out was interrupted, or the stat of the
\* preflight was lost: whatever
\* it saw on the target is never the reason ("file < req: runner
\* will refuse; fail preflight now", preflight_target).
RefusedForItsOwnFile ==
  (accepted /\ begun # {} /\ verdict = "refused") =>
    \/ \E s \in begun : s < required
    \/ leftBy # 0
    \/ hidden
=============================================================================
