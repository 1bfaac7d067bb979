----------------------------- MODULE RunLifecycle -----------------------------
(***************************************************************************)
(* The life of a run as its users see it: what each command may do to the  *)
(* status, one orchestrator at a time.  "partial" stands for a completed   *)
(* run whose outcome is partial.  The last three actions are no part of    *)
(* the intention: they are the ways in which a command that decided before *)
(* it held the lock departs from it, and the only ones.                    *)
(***************************************************************************)
VARIABLES
  status,
  executing,       \* a live orchestrator is at work
  past             \* the final statuses the run has had

vars == <<status, executing, past>>

Over == {"completed", "partial", "failed", "cancelled"}

Init == status = "awaiting_approval" /\ executing = FALSE /\ past = {}

Approve == status = "awaiting_approval" /\ status' = "approved" /\ executing' = executing

Begin ==
  /\ ~executing /\ status \in {"approved", "paused"}
  /\ status' = "running" /\ executing' = TRUE

\* Only the orchestrator ends what it executes, and it leaves with it or later.
End ==
  /\ executing /\ status = "running"
  /\ status' \in Over \cup {"paused"}
  /\ executing' \in {executing, FALSE}

Leave == executing /\ executing' = FALSE /\ status' = status

Recover ==
  /\ ~executing /\ status \in {"running", "paused"}
  /\ status' = "approved" /\ executing' = executing

ResumeFailed ==
  /\ ~executing /\ status \in {"failed", "partial"}
  /\ status' = "approved" /\ executing' = executing

Cancel ==
  /\ ~executing /\ status \notin {"completed", "partial", "cancelled"}
  /\ status' = "cancelled" /\ executing' = executing

Next == Approve \/ Begin \/ End \/ Leave \/ Recover \/ ResumeFailed \/ Cancel

\* cancel overtaken by the end of the run
CancelLate ==
  /\ ~executing /\ status \in {"completed", "partial"}
  /\ status' = "cancelled" /\ executing' = executing

\* resume --resume-failed overtaken by another command
ResumeLate ==
  /\ ~executing /\ status \in {"cancelled", "completed"}
  /\ status' = "approved" /\ executing' = executing

\* the note of a resume with nothing to do, which carries the state it read; it
\* may come to light when the orchestrator dies
NoteLate == status' \in past /\ executing' \in {executing, FALSE}

Late == CancelLate \/ ResumeLate \/ NoteLate

Spec == Init /\ [][(Next \/ Late) /\ past' = past \cup ({status'} \cap Over)]_vars
=============================================================================
