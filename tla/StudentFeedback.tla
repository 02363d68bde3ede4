-------------------------- MODULE StudentFeedback --------------------------
(***************************************************************************)
(* Feedback of students on a resolved complaint (services/                 *)
(* feedback_service.py), beside the other calls of StudentAccounts.  What  *)
(* the service has read is asked again by the triggers on `feedback` of    *)
(* database/migrations/005_functions.sql.  The trigger of an INSERT reads  *)
(* the complaint without a lock, so the complaint can change before the    *)
(* row is there; that of an UPDATE looks at the row being updated, which   *)
(* is locked.                                                              *)
(*                                                                         *)
(* One complaint; ComplaintLifecycle says how it comes to be resolved,     *)
(* reopened and deleted.  Ratings and comments are left out.               *)
(***************************************************************************)
EXTENDS StudentAccounts

VARIABLES
  complaint,  \* its status, or "deleted"
  feedback    \* of each student: "none", or how often it was edited

vars == <<studentVars, complaint, feedback>>

TypeOK ==
  /\ StudentsTypeOK
  /\ complaint \in {"open", "Resolved", "deleted"}
  /\ feedback \in [Rolls -> {"none", "made", "edited", "edited twice"}]

Init ==
  /\ StudentsInit
  /\ complaint \in {"open", "Resolved"}
  /\ feedback = [r \in Rolls |-> "none"]

\* submit_feedback_v2
BeginFeedback(w, r) ==
  /\ Exists(r)
  /\ ~student[r].locked
  /\ complaint = "Resolved"
  /\ feedback[r] = "none"
  /\ Start(w, [Idle EXCEPT !.op = "feedback", !.step = "insert", !.r = r])
  /\ UNCHANGED <<tables, ghosts, complaint, feedback>>

\* Mutant: verify_feedback_eligibility is not installed.
VerifyNothing(w) ==
  /\ At(w, "feedback", "insert")
  /\ Goto(w, "store")
  /\ UNCHANGED <<tables, ghosts, begun, complaint, feedback>>

\* verify_feedback_eligibility, before the INSERT: it raises unless the complaint
\* is resolved.
Verify(w) ==
  /\ At(w, "feedback", "insert")
  /\ IF complaint = "Resolved" THEN Goto(w, "store") ELSE Return(w)
  /\ UNCHANGED <<tables, ghosts, begun, complaint, feedback>>

\* The pair of student and complaint is unique.
InsertFeedback(w) ==
  LET r == call[w].r IN
  /\ At(w, "feedback", "store")
  /\ feedback' = IF feedback[r] = "none" THEN [feedback EXCEPT ![r] = "made"] ELSE feedback
  /\ Return(w)
  /\ UNCHANGED <<tables, ghosts, begun, complaint>>

\* edit_feedback: neither the student nor the complaint is looked at.
BeginEdit(w, r) ==
  /\ feedback[r] = "made"
  /\ Start(w, [Idle EXCEPT !.op = "edit", !.step = "write", !.r = r])
  /\ UNCHANGED <<tables, ghosts, complaint, feedback>>

Edited(s) == IF s = "made" THEN "edited" ELSE "edited twice"

\* enforce_feedback_single_edit
Editable(r) == feedback[r] = "made"

WriteEdit(w) ==
  LET r == call[w].r IN
  /\ At(w, "edit", "write")
  /\ feedback' = IF Editable(r) THEN [feedback EXCEPT ![r] = Edited(@)] ELSE feedback
  /\ Return(w)
  /\ UNCHANGED <<tables, ghosts, begun, complaint>>

\* update_status, soft_delete_complaint
ComplaintMoves ==
  /\ complaint # "deleted"
  /\ complaint' \in {"open", "Resolved", "deleted"} \ {complaint}
  /\ UNCHANGED <<studentVars, feedback>>

Next ==
  \/ StudentsNext /\ UNCHANGED <<complaint, feedback>>
  \/ \E w \in Calls, r \in Rolls : BeginFeedback(w, r) \/ BeginEdit(w, r)
  \/ \E w \in Calls : Verify(w) \/ InsertFeedback(w) \/ WriteEdit(w)
  \/ ComplaintMoves

Spec == Init /\ [][Next]_vars
-----------------------------------------------------------------------------
\* The complaint is reopened or deleted, and no INSERT is past its trigger.
Closed == complaint # "Resolved" /\ \A w \in Calls : ~At(w, "feedback", "store")

\* Reopening or deleting a complaint ends its feedback: once the INSERTs past the
\* trigger have drained, no student who has given none gives one, whatever the
\* service read before, until the complaint is resolved again.  And of the edits
\* under way on one feedback a single one changes it.
\* (submit_feedback_v2, edit_feedback against update_status)
FeedbackCloses ==
  [][/\ Closed => /\ Closed' \/ complaint' = "Resolved"
                  /\ \A r \in Rolls : feedback[r] = "none" => feedback'[r] = "none"
     /\ \A r \in Rolls : feedback[r] = "edited" => feedback'[r] = "edited"]_vars
=============================================================================
