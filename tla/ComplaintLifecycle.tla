------------------------- MODULE ComplaintLifecycle -------------------------
(***************************************************************************)
(* The life of rows of the `complaints` table under concurrent calls of    *)
(* services/complaint_service.py.                                          *)
(*                                                                         *)
(* A service method is a chain of PostgREST requests.  Each request is     *)
(* atomic, the chain is not: there is no transaction around it and no      *)
(* version check on the UPDATEs.  A method therefore is a process here: it *)
(* begins with the SELECT on which it decides (all its refusals depend on  *)
(* that snapshot, so a refused call is a call that does not begin), then   *)
(* writes the row, then appends to `complaint_history`, then notifies.     *)
(* Between two of its steps any other call may run, and it may die at any  *)
(* of them, since every `.execute()` can raise.                            *)
(*                                                                         *)
(* Titles and descriptions are abstracted to a revision number, time to    *)
(* "the ten-minute window is still open", the staff scope test to InScope. *)
(* Priorities and issue groups are in IssueGroups.                         *)
(***************************************************************************)
EXTENDS Naturals

CONSTANTS
  Complaints,  \* ids the complaint sequence hands out
  Students,
  Staff,
  Calls,       \* service calls that can be in flight at once
  RoleOf,      \* RoleOf[a] is the role of staff member a
  InScope,     \* InScope[a]: rows _is_staff_authorized_for_complaint admits
  Nobody,      \* SQL NULL where an id is expected
  MaxCalls     \* bound: service calls begun in a behaviour

StaffRoles == {"Principal", "HOD", "Coordinator", "Hostel Incharge",
               "Library Incharge", "General Department HOD"}
Statuses   == {"Pending", "In Progress", "Resolved", "Rejected"}

ASSUME LifecycleAssumption ==
  /\ Nobody \notin Students \union Staff \union Complaints
  /\ Students \intersect Staff = {}
  /\ "Anonymous" \notin Students \union Staff
  /\ RoleOf \in [Staff -> StaffRoles]
  /\ InScope \in [Staff -> SUBSET Complaints]
  /\ MaxCalls \in Nat

VARIABLES
  row,            \* table complaints, with the owner of anonymous_complaint_owners
  student,        \* table students: the columns submission looks at
  assigned,       \* complaints with a row in complaint_assignments
  history,        \* table complaint_history, per complaint, as a set of entries
  notifications,  \* <<student, complaint, status>> in table notifications
  call,           \* the calls in flight
  aborted,        \* <<complaint, step>>: a call died before that step (ghost)
  begun           \* how many calls have begun (bounded by MaxCalls)

vars == <<row, student, assigned, history, notifications, call, aborted, begun>>

Row == [filer: Students \union {Nobody}, anonymous: BOOLEAN, hostel: BOOLEAN,
        status: Statuses, resolvedAt: BOOLEAN, hasAdminAction: BOOLEAN,
        isDeleted: BOOLEAN, deletedBy: Staff \union {Nobody},
        deletedByRole: StaffRoles \union {"Student", "None"},
        revision: Nat, windowOpen: BOOLEAN]

\* A row as submit_complaint_atomic inserts it.
NewRow(s, anon, hostel) ==
  [filer |-> s, anonymous |-> anon, hostel |-> hostel,
   status |-> "Pending", resolvedAt |-> FALSE, hasAdminAction |-> FALSE,
   isDeleted |-> FALSE, deletedBy |-> Nobody, deletedByRole |-> "None",
   revision |-> 0, windowOpen |-> TRUE]

\* The id has not been handed out yet.
NoRow == NewRow(Nobody, FALSE, FALSE)

Exists(c) == row[c].filer # Nobody

\* complaints.student_id, which is NULL on an anonymous complaint
StudentId(c) == IF row[c].anonymous THEN Nobody ELSE row[c].filer

-----------------------------------------------------------------------------
(* Calls: what a method keeps in its local variables.                      *)

Ops   == {"none", "submit", "edit", "studentDelete", "status", "softDelete",
          "assign", "priority"}
Steps == {"idle", "check", "insert", "write", "mark", "log", "notify"}

Call == [op: Ops, step: Steps, c: Complaints \union {Nobody},
         by: Students \union Staff \union {Nobody}, to: Statuses,
         anonymous: BOOLEAN, hostel: BOOLEAN]

Idle == [op |-> "none", step |-> "idle", c |-> Nobody, by |-> Nobody,
         to |-> "Pending", anonymous |-> FALSE, hostel |-> FALSE]

\* Call w begins with local state k: its SELECT is done, its write is next.
Start(w, k) ==
  /\ call[w] = Idle
  /\ begun < MaxCalls
  /\ begun' = begun + 1
  /\ call' = [call EXCEPT ![w] = k]
  /\ UNCHANGED <<row, student, assigned, history, notifications, aborted>>

\* The local state of operation op of user u on complaint c.
On(op, u, c) == [Idle EXCEPT !.op = op, !.step = "write", !.c = c, !.by = u]

At(w, op, step) == call[w].op = op /\ call[w].step = step

Goto(w, step) == call' = [call EXCEPT ![w].step = step]

Return(w) == call' = [call EXCEPT ![w] = Idle]

\* Some call of one of these operations on c has this step next.
InFlight(c, ops, step) ==
  \E w \in Calls : call[w].c = c /\ call[w].op \in ops /\ call[w].step = step

Submission(s, anon) == [action |-> "SUBMITTED", to |-> "Pending",
                        actor |-> IF anon THEN "Anonymous" ELSE s]

\* The table holds some complaints already, as their submission left them.
Init ==
  /\ row \in [Complaints -> {NoRow} \union {NewRow(s, TRUE, FALSE) : s \in Students}
                                  \union {NewRow(s, FALSE, FALSE) : s \in Students}]
  /\ student = [s \in Students |-> [locked |-> FALSE, hostelApproved |-> TRUE]]
  /\ assigned = {}
  /\ history = [c \in Complaints |->
                  IF row[c].filer = Nobody THEN {}
                  ELSE {Submission(row[c].filer, row[c].anonymous)}]
  /\ notifications = {}
  /\ call = [w \in Calls |-> Idle]
  /\ aborted = {}
  /\ begun = 0

-----------------------------------------------------------------------------
(* submit_complaint: Python checks the student row, then the RPC checks it *)
(* again.  The RPC is one transaction of several statements: its SELECT of *)
(* the student takes no lock, so another transaction can commit a change   *)
(* of that row before the INSERT (READ COMMITTED).                         *)

Eligible(s, hostel) ==
  /\ ~student[s].locked
  /\ hostel => student[s].hostelApproved

\* The category may be the hostel one on a complaint not marked is_hostel:
\* Python then asks for hostel approval too, the RPC does not.
BeginSubmit(w, s, anon, hostel, hostelCategory) ==
  /\ Eligible(s, hostel \/ hostelCategory)
  /\ Start(w, [On("submit", s, Nobody) EXCEPT !.step = "check", !.anonymous = anon,
                                              !.hostel = hostel])

\* Mutant: the RPC trusts the check made in Python.
CheckNothing(w) ==
  /\ At(w, "submit", "check")
  /\ Goto(w, "insert")
  /\ UNCHANGED <<row, student, assigned, history, notifications, aborted, begun>>

CheckStudent(w) ==
  /\ At(w, "submit", "check")
  /\ Eligible(call[w].by, call[w].hostel)
  /\ Goto(w, "insert")
  /\ UNCHANGED <<row, student, assigned, history, notifications, aborted, begun>>

\* The RPC raises: the student was locked or lost the hostel approval meanwhile.
SubmitRejected(w) ==
  /\ At(w, "submit", "check")
  /\ ~Eligible(call[w].by, call[w].hostel)
  /\ Return(w)
  /\ UNCHANGED <<row, student, assigned, history, notifications, aborted, begun>>

\* The complaint, its owner and its first entry are committed together.
InsertComplaint(w, c) ==
  /\ At(w, "submit", "insert")
  /\ ~Exists(c)
  /\ row' = [row EXCEPT ![c] = NewRow(call[w].by, call[w].anonymous, call[w].hostel)]
  /\ history' = [history EXCEPT ![c] = @ \union {Submission(call[w].by, call[w].anonymous)}]
  /\ Return(w)
  /\ UNCHANGED <<student, assigned, notifications, aborted, begun>>

-----------------------------------------------------------------------------
(* edit_complaint and delete_complaint_by_student.                         *)

\* Mutant: only the status is looked at.
UntouchedByStatus(c) == ~row[c].isDeleted /\ row[c].status = "Pending"

Untouched(c) ==
  /\ ~row[c].isDeleted
  /\ ~row[c].hasAdminAction
  /\ row[c].status = "Pending"

BeginEdit(w, s, c) ==
  /\ Exists(c)
  /\ StudentId(c) \in {s, Nobody}  \* a NULL student_id is not compared
  /\ Untouched(c)
  /\ row[c].windowOpen
  /\ Start(w, On("edit", s, c))

\* Mutant: an edit leaves no entry.
WriteEditUnlogged(w) ==
  LET c == call[w].c IN
  /\ At(w, "edit", "write")
  /\ row' = [row EXCEPT ![c].revision = @ + 1]
  /\ Return(w)
  /\ UNCHANGED <<student, assigned, history, notifications, aborted, begun>>

WriteEdit(w) ==
  LET c == call[w].c IN
  /\ At(w, "edit", "write")
  /\ row' = [row EXCEPT ![c].revision = @ + 1]
  /\ Goto(w, "log")
  /\ UNCHANGED <<student, assigned, history, notifications, aborted, begun>>

BeginStudentDelete(w, s, c) ==
  /\ Exists(c)
  /\ row[c].filer = s  \* student_id, or the row of anonymous_complaint_owners
  /\ Untouched(c)
  /\ Start(w, On("studentDelete", s, c))

\* deleted_by is not among the columns written.
WriteStudentDelete(w) ==
  LET c == call[w].c IN
  /\ At(w, "studentDelete", "write")
  /\ row' = [row EXCEPT ![c].isDeleted = TRUE, ![c].deletedByRole = "Student"]
  /\ Goto(w, "log")
  /\ UNCHANGED <<student, assigned, history, notifications, aborted, begun>>

-----------------------------------------------------------------------------
(* update_status, soft_delete_complaint, assign_complaint, change_priority.*)

NeedsRemark(from, to) ==
  \/ to \in {"Resolved", "Rejected"}
  \/ from \in {"Resolved", "Rejected", "In Progress"} /\ to = "Pending"

\* A deleted complaint is not refused.
BeginStatus(w, a, c, to, remark) ==
  /\ Exists(c)
  /\ c \in InScope[a]
  /\ NeedsRemark(row[c].status, to) => remark
  /\ Start(w, [On("status", a, c) EXCEPT !.to = to])

\* Mutant: has_admin_action is left alone.
WriteStatusUnmarked(w) ==
  LET c == call[w].c  to == call[w].to IN
  /\ At(w, "status", "write")
  /\ row' = [row EXCEPT ![c].status = to, ![c].resolvedAt = @ \/ to = "Resolved"]
  /\ Goto(w, "log")
  /\ UNCHANGED <<student, assigned, history, notifications, aborted, begun>>

\* resolved_at is set by every resolution and never cleared.
WriteStatus(w) ==
  LET c == call[w].c  to == call[w].to IN
  /\ At(w, "status", "write")
  /\ row' = [row EXCEPT ![c].status = to, ![c].hasAdminAction = TRUE,
                        ![c].resolvedAt = @ \/ to = "Resolved"]
  /\ Goto(w, "log")
  /\ UNCHANGED <<student, assigned, history, notifications, aborted, begun>>

\* Mutant: coordinators are not refused.
BeginSoftDeleteAnyRole(w, a, c) ==
  /\ Exists(c)
  /\ c \in InScope[a]
  /\ Start(w, On("softDelete", a, c))

BeginSoftDelete(w, a, c) ==
  /\ RoleOf[a] # "Coordinator"
  /\ Exists(c)
  /\ c \in InScope[a]
  /\ Start(w, On("softDelete", a, c))

WriteSoftDelete(w) ==
  LET c == call[w].c  a == call[w].by IN
  /\ At(w, "softDelete", "write")
  /\ row' = [row EXCEPT ![c].isDeleted = TRUE, ![c].deletedBy = a,
                        ![c].deletedByRole = RoleOf[a]]
  /\ Goto(w, "log")
  /\ UNCHANGED <<student, assigned, history, notifications, aborted, begun>>

BeginAssign(w, a, c) ==
  /\ RoleOf[a] # "Coordinator"
  /\ Exists(c)
  /\ c \in InScope[a]
  /\ Start(w, On("assign", a, c))

InsertAssignment(w) ==
  /\ At(w, "assign", "write")
  /\ assigned' = assigned \union {call[w].c}
  /\ Goto(w, "mark")
  /\ UNCHANGED <<row, student, history, notifications, aborted, begun>>

\* assign_complaint's second write.
MarkAssigned(w) ==
  LET c == call[w].c IN
  /\ At(w, "assign", "mark")
  /\ row' = [row EXCEPT ![c].hasAdminAction = TRUE]
  /\ Goto(w, "log")
  /\ UNCHANGED <<student, assigned, history, notifications, aborted, begun>>

\* The levels, and the refusal below the automatic minimum, are in IssueGroups.
BeginPriority(w, a, c) ==
  /\ RoleOf[a] # "Principal"
  /\ Exists(c)
  /\ c \in InScope[a]
  /\ Start(w, On("priority", a, c))

WritePriority(w) ==
  LET c == call[w].c IN
  /\ At(w, "priority", "write")
  /\ row' = [row EXCEPT ![c].hasAdminAction = TRUE]
  /\ Goto(w, "log")
  /\ UNCHANGED <<student, assigned, history, notifications, aborted, begun>>

-----------------------------------------------------------------------------
(* The tail of every call: complaint_history, then the student's message.  *)

ActionName == [edit |-> "EDITED", studentDelete |-> "DELETED_BY_STUDENT",
               status |-> "STATUS_CHANGED", softDelete |-> "SOFT_DELETED",
               assign |-> "ASSIGNED", priority |-> "PRIORITY_CHANGED"]

\* Mutant: only edits of anonymous complaints are masked.
ActorOfDeletion(k) == IF k.op = "edit" /\ row[k.c].anonymous THEN "Anonymous" ELSE k.by

Actor(k) == IF k.op \in {"edit", "studentDelete"} /\ row[k.c].anonymous
              THEN "Anonymous" ELSE k.by

Entry(k) == [action |-> ActionName[k.op], to |-> k.to, actor |-> Actor(k)]

\* Mutant: nobody is notified.
LogSilent(w) ==
  LET k == call[w] IN
  /\ k.step = "log"
  /\ history' = [history EXCEPT ![k.c] = @ \union {Entry(k)}]
  /\ Return(w)
  /\ UNCHANGED <<row, student, assigned, notifications, aborted, begun>>

Log(w) ==
  LET k == call[w] IN
  /\ k.step = "log"
  /\ history' = [history EXCEPT ![k.c] = @ \union {Entry(k)}]
  /\ IF k.op = "status" /\ StudentId(k.c) # Nobody THEN Goto(w, "notify") ELSE Return(w)
  /\ UNCHANGED <<row, student, assigned, notifications, aborted, begun>>

\* Mutant: the message names the status the row has now.
NotifyCurrent(w) ==
  LET k == call[w] IN
  /\ k.step = "notify"
  /\ notifications' = notifications \union {<<StudentId(k.c), k.c, row[k.c].status>>}
  /\ Return(w)
  /\ UNCHANGED <<row, student, assigned, history, aborted, begun>>

Notify(w) ==
  LET k == call[w] IN
  /\ k.step = "notify"
  /\ notifications' = notifications \union {<<StudentId(k.c), k.c, k.to>>}
  /\ Return(w)
  /\ UNCHANGED <<row, student, assigned, history, aborted, begun>>

\* A request raises: nothing after it happens and nothing before it is undone.
Fail(w) ==
  /\ call[w] # Idle
  /\ aborted' = IF call[w].step \in {"mark", "log", "notify"}
                  THEN aborted \union {<<call[w].c, call[w].step>>} ELSE aborted
  /\ Return(w)
  /\ UNCHANGED <<row, student, assigned, history, notifications, begun>>

-----------------------------------------------------------------------------
(* The rest of the system, as far as these calls see it.                   *)

WindowExpires(c) ==
  /\ Exists(c)
  /\ row[c].windowOpen
  /\ row' = [row EXCEPT ![c].windowOpen = FALSE]
  /\ UNCHANGED <<student, assigned, history, notifications, call, aborted, begun>>

\* Calls of other services, which write the student row in one request.
SetLocked(s, locked) ==
  /\ begun < MaxCalls
  /\ begun' = begun + 1
  /\ student' = [student EXCEPT ![s].locked = locked]
  /\ UNCHANGED <<row, assigned, history, notifications, call, aborted>>

SetHostelApproved(s, approved) ==
  /\ begun < MaxCalls
  /\ begun' = begun + 1
  /\ student' = [student EXCEPT ![s].hostelApproved = approved]
  /\ UNCHANGED <<row, assigned, history, notifications, call, aborted>>

-----------------------------------------------------------------------------
StudentBegins(w, s) ==
  \/ \E anon, hostel, cat \in BOOLEAN : BeginSubmit(w, s, anon, hostel, cat)
  \/ \E c \in Complaints : BeginEdit(w, s, c) \/ BeginStudentDelete(w, s, c)

StaffBegins(w, a) ==
  \E c \in Complaints :
    \/ \E to \in Statuses, remark \in BOOLEAN : BeginStatus(w, a, c, to, remark)
    \/ BeginSoftDelete(w, a, c)
    \/ BeginAssign(w, a, c)
    \/ BeginPriority(w, a, c)

Continue(w) ==
  \/ CheckStudent(w)
  \/ SubmitRejected(w)
  \/ \E c \in Complaints : InsertComplaint(w, c)
  \/ WriteEdit(w)
  \/ WriteStudentDelete(w)
  \/ WriteStatus(w)
  \/ WriteSoftDelete(w)
  \/ InsertAssignment(w)
  \/ MarkAssigned(w)
  \/ WritePriority(w)
  \/ Log(w)
  \/ Notify(w)

Environment ==
  \/ \E c \in Complaints : WindowExpires(c)
  \/ \E s \in Students, b \in BOOLEAN : SetLocked(s, b) \/ SetHostelApproved(s, b)

Next ==
  \/ \E w \in Calls :
       \/ \E s \in Students : StudentBegins(w, s)
       \/ \E a \in Staff : StaffBegins(w, a)
       \/ Continue(w)
       \/ Fail(w)
  \/ Environment

\* A thread that has begun a call runs it to its end or to an exception.
Spec == Init /\ [][Next]_vars /\ \A w \in Calls : WF_vars(Continue(w))

-----------------------------------------------------------------------------
(* What the local state of a call promises about the tables: the inductive *)
(* part of the invariants below.                                           *)

\* A call past its last write of the row has left its mark there.
Effect(k) ==
  CASE k.op = "edit"          -> row[k.c].revision > 0
    [] k.op = "studentDelete" -> row[k.c].isDeleted
    [] k.op = "softDelete"    -> row[k.c].isDeleted
    [] k.op = "status"        -> /\ row[k.c].hasAdminAction
                                 /\ k.to = "Resolved" => row[k.c].resolvedAt
    [] k.op = "assign"        -> row[k.c].hasAdminAction /\ k.c \in assigned
    [] k.op = "priority"      -> row[k.c].hasAdminAction
    [] OTHER                  -> TRUE

Logged(c, action, to) ==
  \E e \in history[c] : e.action = action /\ e.to = to

SubmitCall(k) == /\ k.op = "submit"
                 /\ k.step \in {"check", "insert"}
                 /\ k.c = Nobody
                 /\ k.by \in Students

StudentCall(k) == /\ k.op \in {"edit", "studentDelete"}
                  /\ k.step \in {"write", "log"}
                  /\ k.c \in Complaints
                  /\ Exists(k.c)
                  /\ k.by \in Students
                  /\ k.to = "Pending"
                  /\ k.by # row[k.c].filer => k.op = "edit" /\ row[k.c].anonymous
                  /\ k.step = "log" => Effect(k)

StaffCall(k) == /\ k.op \in {"status", "softDelete", "assign", "priority"}
                /\ k.step \in {"write", "mark", "log", "notify"}
                /\ k.c \in Complaints
                /\ Exists(k.c)
                /\ k.by \in Staff
                /\ k.c \in InScope[k.by]
                /\ k.op # "status" => k.to = "Pending"
                /\ k.op \in {"softDelete", "assign"} => RoleOf[k.by] # "Coordinator"
                /\ k.op = "priority" => RoleOf[k.by] # "Principal"
                /\ k.step = "mark" => k.op = "assign" /\ k.c \in assigned
                /\ k.step = "log" => Effect(k)
                /\ k.step = "notify" => /\ k.op = "status"
                                        /\ ~row[k.c].anonymous
                                        /\ Logged(k.c, "STATUS_CHANGED", k.to)

\* The local state k of a call in flight is what the tables say it can be.
Placed(k) == SubmitCall(k) \/ StudentCall(k) \/ StaffCall(k)

CallInv ==
  /\ \A w \in Calls : call[w] = Idle \/ Placed(call[w])
  /\ \A c \in Complaints : ~Exists(c) => row[c] = NoRow /\ history[c] = {}

-----------------------------------------------------------------------------
(* Properties.                                                             *)

Entries == [action: {"SUBMITTED", "EDITED", "DELETED_BY_STUDENT", "STATUS_CHANGED",
                     "SOFT_DELETED", "ASSIGNED", "PRIORITY_CHANGED"},
            to: Statuses, actor: Students \union Staff \union {"Anonymous"}]

\* Every variable has its type, and a call past its SELECT is about a row
\* that exists.
TypeOK ==
  /\ row \in [Complaints -> Row]
  /\ student \in [Students -> [locked: BOOLEAN, hostelApproved: BOOLEAN]]
  /\ assigned \subseteq Complaints
  /\ history \in [Complaints -> SUBSET Entries]
  /\ notifications \subseteq (Students \X Complaints \X Statuses)
  /\ call \in [Calls -> Call]
  /\ aborted \subseteq (Complaints \X {"mark", "log", "notify"})
  /\ begun \in Nat

\* A complaint whose review has begun carries the flag that locks the student
\* out: no status but Pending, and no assignment whose call is over and did not
\* die before its second write, without has_admin_action.  A Resolved complaint
\* has its resolution time.  (update_status, assign_complaint, change_priority)
ReviewIsMarked ==
  \A c \in Complaints :
    /\ row[c].status # "Pending" => row[c].hasAdminAction
    /\ row[c].status = "Resolved" => row[c].resolvedAt
    /\ c \in assigned => \/ row[c].hasAdminAction
                         \/ InFlight(c, {"assign"}, "mark")
                         \/ <<c, "mark">> \in aborted

\* Nothing a student does to c is still on its way, and review has begun.
LockedFor(c) ==
  /\ row[c].hasAdminAction
  /\ ~InFlight(c, {"edit", "studentDelete"}, "write")

\* Once review has begun and the student calls that were already past their
\* check have drained, the complaint is the staff's for good: the lock is never
\* given back, no edit and no student deletion changes the row again, whatever
\* staff do to its status.  (edit_complaint, delete_complaint_by_student)
LockIsFinal ==
  [][\A c \in Complaints : LockedFor(c) =>
       /\ LockedFor(c)'
       /\ row'[c].revision = row[c].revision
       /\ row'[c].deletedByRole = "Student" => row[c].deletedByRole = "Student"]_vars

\* What the row of c says was done has its entry, written or on its way.
Audited(c) ==
  /\ row[c].status # "Pending" =>
       \/ Logged(c, "STATUS_CHANGED", row[c].status)
       \/ \E w \in Calls : /\ At(w, "status", "log")
                           /\ call[w].c = c
                           /\ call[w].to = row[c].status
  /\ row[c].isDeleted =>
       IF row[c].deletedByRole = "Student"
         THEN \/ Logged(c, "DELETED_BY_STUDENT", "Pending")
              \/ InFlight(c, {"studentDelete"}, "log")
         ELSE \/ Logged(c, "SOFT_DELETED", "Pending")
              \/ InFlight(c, {"softDelete"}, "log")
  /\ row[c].revision > 0 =>
       Logged(c, "EDITED", "Pending") \/ InFlight(c, {"edit"}, "log")
  /\ row[c].hasAdminAction =>
       \/ \E e \in history[c] : e.actor \in Staff
       \/ InFlight(c, {"status", "assign", "priority"}, "log")

\* The audit trail misses nothing but what an exception between a write and its
\* history insert has lost: the present status, the deletion, the edits and the
\* first administrative action are all in it or about to be.
AuditComplete == \A c \in Complaints : <<c, "log">> \notin aborted => Audited(c)

\* What an entry of the audit trail says happened, and it was done by whom the
\* method that wrote it admits: staff in whose scope the complaint is and whose
\* role may do it, or the student who filed it.  That a student may delete at
\* all is delete_complaint_by_student's word against the README's.
EntryBacked(c, e) ==
  /\ e.action = "EDITED" => /\ row[c].revision > 0
                            /\ e.actor = "Anonymous" \/ e.actor = row[c].filer
  /\ e.action = "DELETED_BY_STUDENT" =>
       row[c].isDeleted /\ e.actor \in {"Anonymous", row[c].filer}
  /\ e.action = "SOFT_DELETED" => row[c].isDeleted /\ RoleOf[e.actor] # "Coordinator"
  /\ e.action = "STATUS_CHANGED" =>
       row[c].hasAdminAction /\ (e.to = "Resolved" => row[c].resolvedAt)
  /\ e.action = "ASSIGNED" =>
       row[c].hasAdminAction /\ c \in assigned /\ RoleOf[e.actor] # "Coordinator"
  /\ e.action = "PRIORITY_CHANGED" =>
       row[c].hasAdminAction /\ RoleOf[e.actor] # "Principal"
  /\ e.actor \in Staff => c \in InScope[e.actor]

\* No entry of complaint_history without the change it reports, made by someone
\* the method admits, and no deletion by staff on a row without the person of
\* that role who did it.  A student may delete a complaint of his own: README.md:18
\* says that students cannot, but delete_complaint_by_student does it and logs it.
AuditSound ==
  \A c \in Complaints :
    /\ \A e \in history[c] : EntryBacked(c, e)
    /\ row[c].isDeleted /\ row[c].deletedByRole # "Student" =>
         /\ row[c].deletedBy \in Staff
         /\ RoleOf[row[c].deletedBy] = row[c].deletedByRole
         /\ c \in InScope[row[c].deletedBy]

\* Along no path (submission, edit, deletion, status messages) does the trail of
\* an anonymous complaint name a student or a message about it go to one.
AnonymityPreserved ==
  \A c \in Complaints : row[c].anonymous =>
    /\ \A e \in history[c] : e.actor \notin Students
    /\ \A n \in notifications : n[2] # c

\* A student is told of a status only after the trail has it, and only the
\* student who filed the complaint.  (update_status)
MessageBacked ==
  \A n \in notifications :
    /\ n[1] = row[n[2]].filer
    /\ Logged(n[2], "STATUS_CHANGED", n[3])

\* s may not file such a complaint, and no submission of one is past the check.
Barred(s, hostel) ==
  /\ ~Eligible(s, hostel)
  /\ \A w \in Calls : call[w].by = s /\ call[w].hostel = hostel => ~At(w, "submit", "insert")

\* A lock, or a hostel approval withdrawn, closes the table to the student: once
\* the submissions already past the RPC's check have drained, none of that kind
\* enters it, begun before or not, until the student is eligible again.
\* (submit_complaint against the lock and the review of hostel requests)
BarredStaysOut ==
  [][\A s \in Students, hostel \in BOOLEAN : Barred(s, hostel) =>
       /\ Barred(s, hostel)' \/ Eligible(s, hostel)'
       /\ \A c \in Complaints :
            row'[c].filer = s /\ row'[c].hostel = hostel => row[c].filer = s]_vars

\* A resolution is reported: it reaches the trail and, on a complaint that is
\* not anonymous, the student, unless an exception cut a call short.
ResolutionReported ==
  \A c \in Complaints :
    row[c].status = "Resolved" ~>
      \/ /\ Logged(c, "STATUS_CHANGED", "Resolved")
         /\ ~row[c].anonymous => <<row[c].filer, c, "Resolved">> \in notifications
      \/ \E step \in {"log", "notify"} : <<c, step>> \in aborted

\* "Sets has_admin_action = True (locking student edit immediately)"
\* (update_status): from the step that sets it on, no edit changes the row.
EditLocksImmediately ==
  [][\A c \in Complaints : row[c].hasAdminAction =>
       row'[c].revision = row[c].revision]_vars

=============================================================================
