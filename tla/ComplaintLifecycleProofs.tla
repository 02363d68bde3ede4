---------------------- MODULE ComplaintLifecycleProofs ----------------------
(***************************************************************************)
(* Proofs about ComplaintLifecycle for any number of complaints, students, *)
(* staff and concurrent calls.                                             *)
(***************************************************************************)
EXTENDS ComplaintLifecycle, TLAPS

-----------------------------------------------------------------------------
(* Type correctness.                                                       *)

LEMMA IdleIsCall == Idle \in Call
BY DEF Idle, Call, Ops, Steps, Statuses

\* What Start, Goto and Return do to the calls.
LEMMA StartType ==
  ASSUME TypeOK, NEW w \in Calls, NEW k \in Call, Start(w, k)
  PROVE  TypeOK'
BY DEF TypeOK, Start

LEMMA GotoType ==
  ASSUME call \in [Calls -> Call], NEW w \in Calls, NEW step \in Steps, Goto(w, step)
  PROVE  call' \in [Calls -> Call]
BY DEF Goto, Call

LEMMA ReturnType ==
  ASSUME call \in [Calls -> Call], NEW w \in Calls, Return(w)
  PROVE  call' \in [Calls -> Call]
BY IdleIsCall DEF Return

LEMMA TypeStudentBegins ==
  ASSUME TypeOK, NEW w \in Calls, NEW s \in Students, StudentBegins(w, s)
  PROVE  TypeOK'
<1>1. ASSUME NEW anon \in BOOLEAN, NEW hostel \in BOOLEAN, NEW cat \in BOOLEAN,
             BeginSubmit(w, s, anon, hostel, cat)
      PROVE  TypeOK'
  <2>1. [On("submit", s, Nobody) EXCEPT !.step = "check", !.anonymous = anon,
                                        !.hostel = hostel] \in Call
    BY DEF On, Idle, Call, Ops, Steps, Statuses
  <2>. QED BY <1>1, <2>1, StartType DEF BeginSubmit
<1>2. ASSUME NEW c \in Complaints, NEW op \in {"edit", "studentDelete"},
             Start(w, On(op, s, c))
      PROVE  TypeOK'
  <2>1. On(op, s, c) \in Call
    BY DEF On, Idle, Call, Ops, Steps, Statuses
  <2>. QED BY <1>2, <2>1, StartType
<1>. QED BY <1>1, <1>2 DEF StudentBegins, BeginEdit, BeginStudentDelete

LEMMA TypeStaffBegins ==
  ASSUME TypeOK, NEW w \in Calls, NEW a \in Staff, StaffBegins(w, a)
  PROVE  TypeOK'
<1>1. ASSUME NEW c \in Complaints, NEW to \in Statuses, NEW remark \in BOOLEAN,
             BeginStatus(w, a, c, to, remark)
      PROVE  TypeOK'
  <2>1. [On("status", a, c) EXCEPT !.to = to] \in Call
    BY DEF On, Idle, Call, Ops, Steps, Statuses
  <2>. QED BY <1>1, <2>1, StartType DEF BeginStatus
<1>2. ASSUME NEW c \in Complaints, NEW op \in {"softDelete", "assign", "priority"},
             Start(w, On(op, a, c))
      PROVE  TypeOK'
  <2>1. On(op, a, c) \in Call
    BY DEF On, Idle, Call, Ops, Steps, Statuses
  <2>. QED BY <1>2, <2>1, StartType
<1>. QED BY <1>1, <1>2 DEF StaffBegins, BeginSoftDelete, BeginAssign, BeginPriority

LEMMA TypeSubmit ==
  ASSUME TypeOK, NEW w \in Calls, NEW c \in Complaints, InsertComplaint(w, c),
         CallInv
  PROVE  TypeOK'
<1>1. call[w] \in Call /\ call[w].by \in Students /\ row[c] \in Row
  BY DEF TypeOK, CallInv, InsertComplaint, At, Idle, Placed, SubmitCall, StudentCall, StaffCall
<1>2. call' \in [Calls -> Call]
  BY ReturnType DEF TypeOK, InsertComplaint
<1>3. NewRow(call[w].by, call[w].anonymous, call[w].hostel) \in Row
  BY <1>1 DEF NewRow, Row, Call, Statuses
<1>4. Submission(call[w].by, call[w].anonymous) \in Entries
  BY <1>1 DEF Submission, Entries, Statuses
<1>. QED BY <1>2, <1>3, <1>4 DEF TypeOK, InsertComplaint

\* A call about to write is a student's or a member of staff's, on a complaint.
LEMMA Writing ==
  ASSUME TypeOK, CallInv, NEW w \in Calls,
         \/ WriteEdit(w) \/ WriteStudentDelete(w) \/ WriteStatus(w)
         \/ WriteSoftDelete(w) \/ InsertAssignment(w) \/ MarkAssigned(w)
         \/ WritePriority(w)
  PROVE  /\ call[w] \in Call
         /\ StudentCall(call[w]) \/ StaffCall(call[w])
         /\ call[w].c \in Complaints /\ row[call[w].c] \in Row /\ Exists(call[w].c)
<1>1. call[w].op \notin {"none", "submit"}
  <2>1. CASE WriteEdit(w) \/ WriteStudentDelete(w) \/ WriteStatus(w) \/ WriteSoftDelete(w)
    BY <2>1 DEF WriteEdit, WriteStudentDelete, WriteStatus, WriteSoftDelete, At
  <2>2. CASE InsertAssignment(w) \/ MarkAssigned(w) \/ WritePriority(w)
    BY <2>2 DEF InsertAssignment, MarkAssigned, WritePriority, At
  <2>. QED BY <2>1, <2>2
<1>2. call[w] \in Call
  BY DEF TypeOK
<1>3. StudentCall(call[w]) \/ StaffCall(call[w])
  BY <1>1 DEF CallInv, Placed, Idle, SubmitCall
<1>4. call[w].c \in Complaints /\ Exists(call[w].c)
  BY <1>3 DEF StudentCall, StaffCall
<1>. QED BY <1>2, <1>3, <1>4 DEF TypeOK

LEMMA TypeWrites ==
  ASSUME TypeOK, CallInv, LifecycleAssumption, NEW w \in Calls,
         \/ WriteEdit(w)
         \/ WriteStudentDelete(w)
         \/ WriteStatus(w)
         \/ WriteSoftDelete(w)
         \/ InsertAssignment(w)
         \/ MarkAssigned(w)
         \/ WritePriority(w)
  PROVE  TypeOK'
<1>. DEFINE k == call[w]
<1>1. k \in Call /\ k.c \in Complaints /\ row[k.c] \in Row
  BY Writing
<1>2. k.c \in Complaints /\ row[k.c] \in Row
  BY <1>1
<1>3. call' \in [Calls -> Call]
  <2>1. Goto(w, "log") \/ Goto(w, "mark")
    <3>1. CASE WriteEdit(w) \/ WriteStudentDelete(w) \/ WriteStatus(w) \/ WriteSoftDelete(w)
      BY <3>1 DEF WriteEdit, WriteStudentDelete, WriteStatus, WriteSoftDelete
    <3>2. CASE InsertAssignment(w) \/ MarkAssigned(w) \/ WritePriority(w)
      BY <3>2 DEF InsertAssignment, MarkAssigned, WritePriority
    <3>. QED BY <3>1, <3>2
  <2>. QED BY <2>1, GotoType DEF TypeOK, Steps
<1>4. row' \in [Complaints -> Row]
  <2>1. CASE WriteEdit(w)
    <3>1. row[k.c].revision + 1 \in Nat
      BY <1>2 DEF Row
    <3>2. [row[k.c] EXCEPT !.revision = @ + 1] \in Row
      BY <1>2, <3>1 DEF Row
    <3>3. row' = [row EXCEPT ![k.c] = [row[k.c] EXCEPT !.revision = @ + 1]]
      BY <2>1 DEF WriteEdit
    <3>. QED BY <1>2, <3>2, <3>3 DEF TypeOK
  <2>2. CASE WriteStudentDelete(w)
    <3>1. [row[k.c] EXCEPT !.isDeleted = TRUE, !.deletedByRole = "Student"] \in Row
      BY <1>2 DEF Row
    <3>2. row' = [row EXCEPT ![k.c] =
                    [row[k.c] EXCEPT !.isDeleted = TRUE, !.deletedByRole = "Student"]]
      BY <2>2 DEF WriteStudentDelete
    <3>. QED BY <1>2, <3>1, <3>2 DEF TypeOK
  <2>3. CASE WriteStatus(w)
    BY <1>1, <1>2, <2>3 DEF TypeOK, WriteStatus, Row, Call
  <2>4. CASE WriteSoftDelete(w)
    <3>1. k.by \in Staff
      <4>1. k.op = "softDelete"
        BY <2>4 DEF WriteSoftDelete, At
      <4>. QED BY <4>1, Writing DEF StudentCall, StaffCall
    <3>2. RoleOf[k.by] \in StaffRoles
      BY <3>1 DEF LifecycleAssumption
    <3>3. [row[k.c] EXCEPT !.isDeleted = TRUE, !.deletedBy = k.by,
                           !.deletedByRole = RoleOf[k.by]] \in Row
      BY <1>2, <3>1, <3>2 DEF Row
    <3>4. row' = [row EXCEPT ![k.c] =
                    [row[k.c] EXCEPT !.isDeleted = TRUE, !.deletedBy = k.by,
                                     !.deletedByRole = RoleOf[k.by]]]
      BY <2>4 DEF WriteSoftDelete
    <3>. QED BY <1>2, <3>3, <3>4 DEF TypeOK
  <2>5. CASE InsertAssignment(w)
    BY <2>5 DEF TypeOK, InsertAssignment
  <2>6. CASE MarkAssigned(w) \/ WritePriority(w)
    <3>1. [row[k.c] EXCEPT !.hasAdminAction = TRUE] \in Row
      BY <1>2 DEF Row
    <3>2. row' = [row EXCEPT ![k.c] = [row[k.c] EXCEPT !.hasAdminAction = TRUE]]
      BY <2>6 DEF MarkAssigned, WritePriority
    <3>. QED BY <1>2, <3>1, <3>2 DEF TypeOK
  <2>. QED BY <2>1, <2>2, <2>3, <2>4, <2>5, <2>6
<1>. QED BY <1>2, <1>3, <1>4 DEF TypeOK, WriteEdit, WriteStudentDelete, WriteStatus,
         WriteSoftDelete, InsertAssignment, MarkAssigned, WritePriority

\* The entry a call that is about to log appends.
LEMMA EntryType ==
  ASSUME TypeOK, CallInv, NEW w \in Calls, call[w].step = "log"
  PROVE  /\ call[w].c \in Complaints
         /\ call[w].op \in {"edit", "studentDelete", "status", "softDelete",
                            "assign", "priority"}
         /\ Entry(call[w]) \in Entries
<1>1. call[w] \in Call
  BY DEF TypeOK
<1>2. /\ call[w].c \in Complaints
      /\ call[w].op \in {"edit", "studentDelete", "status", "softDelete",
                         "assign", "priority"}
      /\ call[w].by \in Students \union Staff
  BY DEF CallInv, Idle, Placed, SubmitCall, StudentCall, StaffCall
<1>3. ActionName[call[w].op] \in {"EDITED", "DELETED_BY_STUDENT", "STATUS_CHANGED",
                                  "SOFT_DELETED", "ASSIGNED", "PRIORITY_CHANGED"}
  BY <1>2 DEF ActionName
<1>. QED BY <1>1, <1>2, <1>3 DEF Entry, Actor, Entries, Call

LEMMA TypeTail ==
  ASSUME TypeOK, CallInv, NEW w \in Calls,
         CheckStudent(w) \/ SubmitRejected(w) \/ Log(w) \/ Notify(w) \/ Fail(w)
  PROVE  TypeOK'
<1>0. CASE CheckStudent(w)
  BY <1>0, GotoType DEF TypeOK, CheckStudent, Steps
<1>1. CASE SubmitRejected(w)
  BY <1>1, ReturnType DEF TypeOK, SubmitRejected
<1>2. CASE Log(w)
  <2>1. Entry(call[w]) \in Entries /\ call[w].c \in Complaints
    BY <1>2, EntryType DEF Log
  <2>2. call' \in [Calls -> Call]
    BY <1>2, GotoType, ReturnType DEF TypeOK, Log, Steps
  <2>. QED BY <1>2, <2>1, <2>2 DEF TypeOK, Log
<1>3. CASE Notify(w)
  <2>1. /\ call[w].c \in Complaints
        /\ ~row[call[w].c].anonymous
        /\ row[call[w].c].filer # Nobody
    BY <1>3 DEF Notify, CallInv, Idle, Placed, SubmitCall, StudentCall, StaffCall, Exists
  <2>2. StudentId(call[w].c) \in Students
    BY <2>1 DEF TypeOK, Row, StudentId
  <2>3. call' \in [Calls -> Call] /\ call[w].to \in Statuses
    BY <1>3, ReturnType DEF TypeOK, Notify, Call
  <2>. QED BY <1>3, <2>1, <2>2, <2>3 DEF TypeOK, Notify
<1>4. CASE Fail(w)
  <2>1. call' \in [Calls -> Call]
    BY <1>4, ReturnType DEF TypeOK, Fail
  <2>2. call[w].step \in {"mark", "log", "notify"} => call[w].c \in Complaints
    BY DEF CallInv, Idle, Placed, SubmitCall, StudentCall, StaffCall
  <2>. QED BY <1>4, <2>1, <2>2 DEF TypeOK, Fail
<1>. QED BY <1>0, <1>1, <1>2, <1>3, <1>4

LEMMA TypeEnvironment ==
  ASSUME TypeOK, Environment
  PROVE  TypeOK'
<1>1. ASSUME NEW c \in Complaints, WindowExpires(c)
      PROVE  TypeOK'
  <2>0. row[c] \in Row
    BY DEF TypeOK
  <2>1. [row[c] EXCEPT !.windowOpen = FALSE] \in Row
    BY <2>0 DEF Row
  <2>2. row' = [row EXCEPT ![c] = [row[c] EXCEPT !.windowOpen = FALSE]]
    BY <1>1 DEF WindowExpires
  <2>. QED BY <1>1, <2>1, <2>2 DEF TypeOK, WindowExpires
<1>2. ASSUME NEW s \in Students, NEW b \in BOOLEAN,
             SetLocked(s, b) \/ SetHostelApproved(s, b)
      PROVE  TypeOK'
  BY <1>2 DEF TypeOK, SetLocked, SetHostelApproved
<1>. QED BY <1>1, <1>2 DEF Environment

LEMMA TypeInit ==
  ASSUME Init
  PROVE  TypeOK
<1>1. \A s \in Students, anon \in BOOLEAN : NewRow(s, anon, FALSE) \in Row
  BY DEF NewRow, Row, Statuses
<1>2. NoRow \in Row
  BY DEF NoRow, NewRow, Row, Statuses
<1>3. row \in [Complaints -> Row]
  <2>1. SUFFICES ASSUME NEW c \in Complaints
                 PROVE  row[c] \in Row
    BY DEF Init
  <2>2. \/ row[c] = NoRow
        \/ \E s \in Students, anon \in BOOLEAN : row[c] = NewRow(s, anon, FALSE)
    BY DEF Init
  <2>. QED BY <1>1, <1>2, <2>2
<1>4. ASSUME NEW c \in Complaints, row[c].filer # Nobody
      PROVE  Submission(row[c].filer, row[c].anonymous) \in Entries
  BY <1>3, <1>4 DEF Row, Submission, Entries, Statuses
<1>. QED BY <1>3, <1>4, IdleIsCall DEF Init, TypeOK

LEMMA TypeStep ==
  ASSUME TypeOK, CallInv, LifecycleAssumption, [Next]_vars
  PROVE  TypeOK'
<1>1. CASE UNCHANGED vars
  BY <1>1 DEF vars, TypeOK
<1>2. CASE Environment
  BY <1>2, TypeEnvironment
<1>3. ASSUME NEW w \in Calls, NEW s \in Students, StudentBegins(w, s)
      PROVE  TypeOK'
  BY <1>3, TypeStudentBegins
<1>4. ASSUME NEW w \in Calls, NEW a \in Staff, StaffBegins(w, a)
      PROVE  TypeOK'
  BY <1>4, TypeStaffBegins
<1>5. ASSUME NEW w \in Calls, Continue(w) \/ Fail(w)
      PROVE  TypeOK'
  BY <1>5, TypeSubmit, TypeWrites, TypeTail DEF Continue
<1>. QED BY <1>1, <1>2, <1>3, <1>4, <1>5 DEF Next

-----------------------------------------------------------------------------
(* What no step takes back.  A call relies on it for what it has already   *)
(* done to the tables while other calls write the same row.                *)

Grows(c) ==
  /\ Exists(c)'
  /\ row'[c].filer = row[c].filer
  /\ row'[c].anonymous = row[c].anonymous
  /\ row[c].revision > 0 => row'[c].revision > 0
  /\ row[c].isDeleted => row'[c].isDeleted
  /\ row[c].hasAdminAction => row'[c].hasAdminAction
  /\ row[c].resolvedAt => row'[c].resolvedAt
  /\ assigned \subseteq assigned'
  /\ history[c] \subseteq history'[c]

LEMMA NothingTakenBack ==
  ASSUME TypeOK, CallInv, [Next]_vars, NEW c \in Complaints, Exists(c)
  PROVE  Grows(c)
<1>. row[c] \in Row
  BY DEF TypeOK
<1>1. ASSUME UNCHANGED <<row, assigned, history>>
      PROVE  Grows(c)
  BY <1>1 DEF Grows, Exists
<1>2. ASSUME NEW w \in Calls, WriteEdit(w)
      PROVE  Grows(c)
  BY <1>2 DEF Grows, Exists, WriteEdit, TypeOK, Row
<1>3. ASSUME NEW w \in Calls, WriteStudentDelete(w)
      PROVE  Grows(c)
  BY <1>3 DEF Grows, Exists, WriteStudentDelete, TypeOK, Row
<1>4. ASSUME NEW w \in Calls, WriteStatus(w)
      PROVE  Grows(c)
  BY <1>4 DEF Grows, Exists, WriteStatus, TypeOK, Row
<1>5. ASSUME NEW w \in Calls, WriteSoftDelete(w)
      PROVE  Grows(c)
  BY <1>5 DEF Grows, Exists, WriteSoftDelete, TypeOK, Row
<1>6. ASSUME NEW w \in Calls, MarkAssigned(w) \/ WritePriority(w)
      PROVE  Grows(c)
  BY <1>6 DEF Grows, Exists, MarkAssigned, WritePriority, TypeOK, Row
<1>7. ASSUME NEW w \in Calls, InsertAssignment(w)
      PROVE  Grows(c)
  BY <1>7 DEF Grows, Exists, InsertAssignment
<1>8. ASSUME NEW w \in Calls, NEW d \in Complaints, InsertComplaint(w, d)
      PROVE  Grows(c)
  <2>1. c # d
    BY <1>8 DEF InsertComplaint
  <2>. QED BY <1>8, <2>1 DEF Grows, Exists, InsertComplaint, TypeOK
<1>9. ASSUME NEW w \in Calls, Log(w)
      PROVE  Grows(c)
  BY <1>9 DEF Grows, Exists, Log, TypeOK
<1>10. ASSUME NEW d \in Complaints, WindowExpires(d)
       PROVE  Grows(c)
  BY <1>10 DEF Grows, Exists, WindowExpires, TypeOK, Row
<1>11. ASSUME NEW w \in Calls,
              \/ \E s \in Students : StudentBegins(w, s)
              \/ \E a \in Staff : StaffBegins(w, a)
              \/ CheckStudent(w) \/ SubmitRejected(w) \/ Notify(w) \/ Fail(w)
       PROVE  Grows(c)
  <2>1. CASE \E s \in Students : StudentBegins(w, s)
    BY <1>1, <2>1 DEF StudentBegins, BeginSubmit, BeginEdit, BeginStudentDelete, Start
  <2>2. CASE \E a \in Staff : StaffBegins(w, a)
    BY <1>1, <2>2 DEF StaffBegins, BeginStatus, BeginSoftDelete, BeginAssign,
           BeginPriority, Start
  <2>3. CASE CheckStudent(w) \/ SubmitRejected(w) \/ Notify(w) \/ Fail(w)
    BY <1>1, <2>3 DEF CheckStudent, SubmitRejected, Notify, Fail
  <2>. QED BY <1>11, <2>1, <2>2, <2>3
<1>12. CASE \E s \in Students, b \in BOOLEAN : SetLocked(s, b) \/ SetHostelApproved(s, b)
  BY <1>1, <1>12 DEF SetLocked, SetHostelApproved
<1>13. CASE UNCHANGED vars
  BY <1>1, <1>13 DEF vars
<1>. QED BY <1>2, <1>3, <1>4, <1>5, <1>6, <1>7, <1>8, <1>9, <1>10, <1>11, <1>12, <1>13
         DEF Next, Continue, Environment

LEMMA CallKeepsItsPlace ==
  ASSUME TypeOK, CallInv, [Next]_vars, NEW k \in Call,
         Placed(k)
  PROVE  Placed(k)'
<1>1. CASE SubmitCall(k)
  BY <1>1 DEF Placed, SubmitCall
<1>2. CASE StudentCall(k)
  <2>1. Grows(k.c)
    BY <1>2, NothingTakenBack DEF StudentCall
  <2>2. Effect(k) => Effect(k)'
    <3>1. CASE k.op = "edit"
      BY <2>1, <3>1 DEF Effect, Grows
    <3>2. CASE k.op = "studentDelete"
      BY <2>1, <3>2 DEF Effect, Grows
    <3>. QED BY <1>2, <3>1, <3>2 DEF StudentCall
  <2>. QED BY <1>2, <2>1, <2>2 DEF Placed, StudentCall, Grows
<1>3. CASE StaffCall(k)
  <2>1. Grows(k.c)
    BY <1>3, NothingTakenBack DEF StaffCall
  <2>2. k.step = "log" /\ Effect(k) => Effect(k)'
    BY <1>3, <2>1 DEF Effect, Grows, StaffCall
  <2>3. Logged(k.c, "STATUS_CHANGED", k.to) => Logged(k.c, "STATUS_CHANGED", k.to)'
    BY <2>1 DEF Logged, Grows
  <2>. QED BY <1>3, <2>1, <2>2, <2>3 DEF Placed, StaffCall, Grows
<1>. QED BY <1>1, <1>2, <1>3 DEF Placed

\* A step that gives one call a state in place leaves every call in place.
LEMMA OneCallMoves ==
  ASSUME TypeOK, CallInv, [Next]_vars, NEW w \in Calls, NEW k \in Call,
         k = Idle \/ Placed(k)', call' = [call EXCEPT ![w] = k]
  PROVE  \A v \in Calls : (call[v] = Idle \/ Placed(call[v]))'
<1>1. SUFFICES ASSUME NEW v \in Calls
               PROVE  (call[v] = Idle \/ Placed(call[v]))'
  OBVIOUS
<1>2. CASE v = w
  BY <1>2 DEF TypeOK, Placed, SubmitCall, StudentCall, StaffCall, Effect
<1>3. CASE v # w
  <2>1. PICK j \in Call : j = call[v]
    BY DEF TypeOK
  <2>2. call'[v] = j
    BY <1>3, <2>1 DEF TypeOK
  <2>3. j = Idle \/ Placed(j)
    BY <2>1 DEF CallInv, Placed
  <2>4. j = Idle \/ Placed(j)'
    BY <2>3, CallKeepsItsPlace
  <2>. QED BY <2>2, <2>4
<1>. QED BY <1>2, <1>3

LEMMA StudentCallStarts ==
  ASSUME TypeOK, LifecycleAssumption, NEW w \in Calls, NEW s \in Students,
         StudentBegins(w, s)
  PROVE  \E k \in Call : Placed(k)' /\ call' = [call EXCEPT ![w] = k]
<1>1. ASSUME NEW anon \in BOOLEAN, NEW hostel \in BOOLEAN, NEW cat \in BOOLEAN,
             BeginSubmit(w, s, anon, hostel, cat)
      PROVE  \E k \in Call : Placed(k)' /\ call' = [call EXCEPT ![w] = k]
  <2>. DEFINE k == [On("submit", s, Nobody) EXCEPT !.step = "check", !.anonymous = anon,
                                                   !.hostel = hostel]
  <2>1. k \in Call
    BY DEF On, Idle, Call, Ops, Steps, Statuses
  <2>2. SubmitCall(k)'
    BY DEF On, Idle, SubmitCall
  <2>3. call' = [call EXCEPT ![w] = k]
    BY <1>1 DEF BeginSubmit, Start
  <2>. QED BY <2>1, <2>2, <2>3 DEF Placed
<1>2. ASSUME NEW c \in Complaints, BeginEdit(w, s, c)
      PROVE  \E k \in Call : Placed(k)' /\ call' = [call EXCEPT ![w] = k]
  <2>. DEFINE k == On("edit", s, c)
  <2>1. k \in Call
    BY DEF On, Idle, Call, Ops, Steps, Statuses
  <2>2. row' = row /\ call' = [call EXCEPT ![w] = k] /\ Exists(c)
    BY <1>2 DEF BeginEdit, Start
  <2>3. row[c].filer = s \/ row[c].anonymous
    BY <1>2 DEF BeginEdit, StudentId, Exists
  <2>4. StudentCall(k)'
    BY <2>2, <2>3 DEF On, Idle, StudentCall, Exists
  <2>. QED BY <2>1, <2>2, <2>4 DEF Placed
<1>3. ASSUME NEW c \in Complaints, BeginStudentDelete(w, s, c)
      PROVE  \E k \in Call : Placed(k)' /\ call' = [call EXCEPT ![w] = k]
  <2>. DEFINE k == On("studentDelete", s, c)
  <2>1. k \in Call
    BY DEF On, Idle, Call, Ops, Steps, Statuses
  <2>2. row' = row /\ call' = [call EXCEPT ![w] = k] /\ Exists(c) /\ row[c].filer = s
    BY <1>3 DEF BeginStudentDelete, Start
  <2>3. StudentCall(k)'
    BY <2>2 DEF On, Idle, StudentCall, Exists
  <2>. QED BY <2>1, <2>2, <2>3 DEF Placed
<1>. QED BY <1>1, <1>2, <1>3 DEF StudentBegins

LEMMA StaffCallStarts ==
  ASSUME TypeOK, LifecycleAssumption, NEW w \in Calls, NEW a \in Staff,
         StaffBegins(w, a)
  PROVE  \E k \in Call : Placed(k)' /\ call' = [call EXCEPT ![w] = k]
<1>1. ASSUME NEW c \in Complaints, NEW to \in Statuses, NEW remark \in BOOLEAN,
             BeginStatus(w, a, c, to, remark)
      PROVE  \E k \in Call : Placed(k)' /\ call' = [call EXCEPT ![w] = k]
  <2>. DEFINE k == [On("status", a, c) EXCEPT !.to = to]
  <2>1. k \in Call
    BY DEF On, Idle, Call, Ops, Steps, Statuses
  <2>2. call' = [call EXCEPT ![w] = k] /\ row' = row
    BY <1>1 DEF BeginStatus, Start
  <2>3. StaffCall(k)'
    BY <1>1, <2>2 DEF On, Idle, StaffCall, Exists, BeginStatus
  <2>. QED BY <2>1, <2>2, <2>3 DEF Placed
<1>2. ASSUME NEW c \in Complaints, NEW op \in {"softDelete", "assign", "priority"},
             Start(w, On(op, a, c)), Exists(c), c \in InScope[a],
             op # "priority" => RoleOf[a] # "Coordinator",
             op = "priority" => RoleOf[a] # "Principal"
      PROVE  \E k \in Call : Placed(k)' /\ call' = [call EXCEPT ![w] = k]
  <2>. DEFINE k == On(op, a, c)
  <2>1. k \in Call
    BY DEF On, Idle, Call, Ops, Steps, Statuses
  <2>2. call' = [call EXCEPT ![w] = k] /\ row' = row
    BY <1>2 DEF Start
  <2>3. k.op = op /\ k.step = "write" /\ k.c = c /\ k.by = a /\ k.to = "Pending"
    BY DEF On, Idle
  <2>4. StaffCall(k)'
    <3>. HIDE DEF k
    <3>. QED BY <1>2, <2>2, <2>3 DEF StaffCall, Exists
  <2>. QED BY <2>1, <2>2, <2>4 DEF Placed
<1>. QED BY <1>1, <1>2 DEF StaffBegins, BeginSoftDelete, BeginAssign, BeginPriority

\* The write of the row leaves its call in place before the history insert
\* (or, in assign_complaint, before the second write).
LEMMA WriteLeavesInPlace ==
  ASSUME TypeOK, CallInv, [Next]_vars, NEW w \in Calls,
         \/ WriteEdit(w) \/ WriteStudentDelete(w) \/ WriteStatus(w)
         \/ WriteSoftDelete(w) \/ InsertAssignment(w) \/ MarkAssigned(w)
         \/ WritePriority(w)
  PROVE  \E k \in Call : Placed(k)' /\ call' = [call EXCEPT ![w] = k]
<1>. DEFINE c == call[w].c
<1>1. call[w] \in Call /\ (StudentCall(call[w]) \/ StaffCall(call[w]))
  BY Writing
<1>2. PICK j \in Call : j = call[w]
  BY <1>1
<1>3. j.c \in Complaints /\ row[j.c] \in Row /\ Exists(j.c)
  BY <1>2, Writing
<1>4. Grows(j.c)
  BY <1>3, NothingTakenBack
<1>5. CASE WriteEdit(w)
  <2>. DEFINE k == [j EXCEPT !.step = "log"]
  <2>1. row'[j.c].revision > 0
    BY <1>2, <1>3, <1>5 DEF WriteEdit, TypeOK, Row
  <2>2. StudentCall(k)' /\ k \in Call
    BY <1>1, <1>2, <1>4, <1>5, <2>1 DEF WriteEdit, At, StudentCall, SubmitCall, StaffCall,
       Grows, Effect, Call, Steps
  <2>. QED BY <1>2, <1>5, <2>2 DEF Placed, WriteEdit, Goto
<1>6. CASE WriteStudentDelete(w)
  <2>. DEFINE k == [j EXCEPT !.step = "log"]
  <2>1. row'[j.c].isDeleted
    BY <1>2, <1>3, <1>6 DEF WriteStudentDelete, TypeOK, Row
  <2>2. StudentCall(k)' /\ k \in Call
    BY <1>1, <1>2, <1>4, <1>6, <2>1 DEF WriteStudentDelete, At, StudentCall, SubmitCall,
       StaffCall, Grows, Effect, Call, Steps
  <2>. QED BY <1>2, <1>6, <2>2 DEF Placed, WriteStudentDelete, Goto
<1>7. CASE WriteStatus(w)
  <2>. DEFINE k == [j EXCEPT !.step = "log"]
  <2>1. row'[j.c].hasAdminAction /\ (j.to = "Resolved" => row'[j.c].resolvedAt)
    BY <1>2, <1>3, <1>7 DEF WriteStatus, TypeOK, Row
  <2>2. StaffCall(k)' /\ k \in Call
    BY <1>1, <1>2, <1>4, <1>7, <2>1 DEF WriteStatus, At, StudentCall, SubmitCall,
       StaffCall, Grows, Effect, Call, Steps
  <2>. QED BY <1>2, <1>7, <2>2 DEF Placed, WriteStatus, Goto
<1>8. CASE WriteSoftDelete(w)
  <2>. DEFINE k == [j EXCEPT !.step = "log"]
  <2>1. row'[j.c].isDeleted
    BY <1>2, <1>3, <1>8 DEF WriteSoftDelete, TypeOK, Row
  <2>2. StaffCall(k)' /\ k \in Call
    BY <1>1, <1>2, <1>4, <1>8, <2>1 DEF WriteSoftDelete, At, StudentCall, SubmitCall,
       StaffCall, Grows, Effect, Call, Steps
  <2>. QED BY <1>2, <1>8, <2>2 DEF Placed, WriteSoftDelete, Goto
<1>9. CASE InsertAssignment(w)
  <2>. DEFINE k == [j EXCEPT !.step = "mark"]
  <2>1. j.c \in assigned'
    BY <1>2, <1>9 DEF InsertAssignment
  <2>2. StaffCall(k)' /\ k \in Call
    BY <1>1, <1>2, <1>4, <1>9, <2>1 DEF InsertAssignment, At, StudentCall, SubmitCall,
       StaffCall, Grows, Call, Steps
  <2>. QED BY <1>2, <1>9, <2>2 DEF Placed, InsertAssignment, Goto
<1>10. CASE MarkAssigned(w)
  <2>. DEFINE k == [j EXCEPT !.step = "log"]
  <2>1. row'[j.c].hasAdminAction
    BY <1>2, <1>3, <1>10 DEF MarkAssigned, TypeOK, Row
  <2>2. StaffCall(k)' /\ k \in Call
    BY <1>1, <1>2, <1>4, <1>10, <2>1 DEF MarkAssigned, At, StudentCall, SubmitCall,
       StaffCall, Grows, Effect, Call, Steps
  <2>. QED BY <1>2, <1>10, <2>2 DEF Placed, MarkAssigned, Goto
<1>11. CASE WritePriority(w)
  <2>. DEFINE k == [j EXCEPT !.step = "log"]
  <2>1. row'[j.c].hasAdminAction
    BY <1>2, <1>3, <1>11 DEF WritePriority, TypeOK, Row
  <2>2. StaffCall(k)' /\ k \in Call
    BY <1>1, <1>2, <1>4, <1>11, <2>1 DEF WritePriority, At, StudentCall, SubmitCall,
       StaffCall, Grows, Effect, Call, Steps
  <2>. QED BY <1>2, <1>11, <2>2 DEF Placed, WritePriority, Goto
<1>. QED BY <1>5, <1>6, <1>7, <1>8, <1>9, <1>10, <1>11

LEMMA TailLeavesInPlace ==
  ASSUME TypeOK, CallInv, [Next]_vars, NEW w \in Calls,
         \/ \E c \in Complaints : InsertComplaint(w, c)
         \/ CheckStudent(w) \/ SubmitRejected(w) \/ Log(w) \/ Notify(w) \/ Fail(w)
  PROVE  \E k \in Call : (k = Idle \/ Placed(k)') /\ call' = [call EXCEPT ![w] = k]
<1>1. CASE Return(w)
  BY <1>1, IdleIsCall DEF Return
<1>2. CASE Log(w) /\ Goto(w, "notify")
  <2>1. PICK j \in Call : j = call[w]
    BY DEF TypeOK
  <2>2. j.step = "log" /\ j.op = "status" /\ StudentId(j.c) # Nobody
    BY <1>2, <2>1 DEF Log, Return, Goto, TypeOK, Call, Idle
  <2>3. StaffCall(j)
    BY <2>1, <2>2 DEF CallInv, Placed, Idle, SubmitCall, StudentCall
  <2>4. Grows(j.c)
    BY <2>3, NothingTakenBack DEF StaffCall
  <2>5. Entry(j) \in history'[j.c] /\ Entry(j).action = "STATUS_CHANGED" /\ Entry(j).to = j.to
    BY <1>2, <2>1, <2>2, <2>3 DEF Log, Entry, ActionName, TypeOK, StaffCall
  <2>6. Logged(j.c, "STATUS_CHANGED", j.to)'
    BY <2>5 DEF Logged
  <2>7. ~row[j.c].anonymous
    BY <2>2 DEF StudentId
  <2>. DEFINE k == [j EXCEPT !.step = "notify"]
  <2>8. k \in Call
    BY DEF Call, Steps
  <2>9. k.op = j.op /\ k.step = "notify" /\ k.c = j.c /\ k.by = j.by /\ k.to = j.to
    BY DEF Call
  <2>10. StaffCall(k)'
    <3>. HIDE DEF k
    <3>. QED BY <2>2, <2>3, <2>4, <2>6, <2>7, <2>9 DEF StaffCall, Grows
  <2>. QED BY <1>2, <2>1, <2>8, <2>10 DEF Placed, Goto
<1>3. CASE CheckStudent(w)
  <2>1. PICK j \in Call : j = call[w]
    BY DEF TypeOK
  <2>2. SubmitCall(j)
    BY <1>3, <2>1 DEF CheckStudent, At, CallInv, Placed, Idle, StudentCall, StaffCall
  <2>. DEFINE k == [j EXCEPT !.step = "insert"]
  <2>3. k \in Call /\ SubmitCall(k)'
    BY <2>2 DEF Call, Steps, SubmitCall
  <2>. QED BY <1>3, <2>1, <2>3 DEF Placed, CheckStudent, Goto
<1>. QED BY <1>1, <1>2, <1>3 DEF InsertComplaint, SubmitRejected, Log, Notify, Fail

\* CallInv is inductive relative to the types.
LEMMA CallStep ==
  ASSUME TypeOK, CallInv, LifecycleAssumption, [Next]_vars
  PROVE  CallInv'
<1>1. \A v \in Calls : (call[v] = Idle \/ Placed(call[v]))'
  <2>1. CASE \E w \in Calls, k \in Call :
               (k = Idle \/ Placed(k)') /\ call' = [call EXCEPT ![w] = k]
    BY <2>1, OneCallMoves
  <2>2. CASE call' = call
    <3>1. SUFFICES ASSUME NEW v \in Calls
                   PROVE  (call[v] = Idle \/ Placed(call[v]))'
      OBVIOUS
    <3>2. PICK j \in Call : j = call[v]
      BY DEF TypeOK
    <3>3. j = Idle \/ Placed(j)'
      BY <3>2, CallKeepsItsPlace DEF CallInv
    <3>. QED BY <2>2, <3>2, <3>3
  <2>3. ASSUME NEW w \in Calls, NEW s \in Students, StudentBegins(w, s)
        PROVE  \E k \in Call : (k = Idle \/ Placed(k)') /\ call' = [call EXCEPT ![w] = k]
    BY <2>3, StudentCallStarts
  <2>4. ASSUME NEW w \in Calls, NEW a \in Staff, StaffBegins(w, a)
        PROVE  \E k \in Call : (k = Idle \/ Placed(k)') /\ call' = [call EXCEPT ![w] = k]
    BY <2>4, StaffCallStarts
  <2>5. ASSUME NEW w \in Calls, Continue(w) \/ Fail(w)
        PROVE  \E k \in Call : (k = Idle \/ Placed(k)') /\ call' = [call EXCEPT ![w] = k]
    BY <2>5, WriteLeavesInPlace, TailLeavesInPlace DEF Continue
  <2>6. CASE Environment \/ UNCHANGED vars
    BY <2>2, <2>6 DEF Environment, WindowExpires, SetLocked, SetHostelApproved, vars
  <2>. QED BY <2>1, <2>3, <2>4, <2>5, <2>6 DEF Next
<1>2. ASSUME NEW c \in Complaints, ~Exists(c)'
      PROVE  row'[c] = NoRow /\ history'[c] = {}
  <2>1. ~Exists(c) /\ row[c] = NoRow /\ history[c] = {}
    BY <1>2, NothingTakenBack DEF Grows, CallInv
  <2>2. ASSUME NEW w \in Calls, Continue(w)
        PROVE  row'[c] = row[c] /\ history'[c] = history[c]
    <3>1. CASE \E d \in Complaints : InsertComplaint(w, d)
      <4>1. PICK d \in Complaints : InsertComplaint(w, d)
        BY <3>1
      <4>2. call[w].by \in Students
        BY <4>1 DEF InsertComplaint, At, CallInv, Idle, Placed, SubmitCall, StudentCall, StaffCall
      <4>3. Exists(d)'
        BY <4>1, <4>2 DEF InsertComplaint, Exists, NewRow, TypeOK, LifecycleAssumption
      <4>4. c # d
        BY <1>2, <4>3
      <4>. QED BY <4>1, <4>4 DEF InsertComplaint, TypeOK
    <3>2. CASE CheckStudent(w) \/ SubmitRejected(w) \/ InsertAssignment(w) \/ Notify(w)
      BY <3>2 DEF CheckStudent, SubmitRejected, InsertAssignment, Notify
    <3>3. CASE \/ WriteEdit(w) \/ WriteStudentDelete(w) \/ WriteStatus(w)
               \/ WriteSoftDelete(w) \/ MarkAssigned(w) \/ WritePriority(w) \/ Log(w)
      <4>1. /\ call[w].op # "submit"
            /\ call[w].step # "idle"
        <5>1. CASE ~Log(w)
          BY <3>3, <5>1 DEF WriteEdit, WriteStudentDelete, WriteStatus, WriteSoftDelete,
             MarkAssigned, WritePriority, At
        <5>2. CASE Log(w)
          BY <5>2 DEF Log, CallInv, Placed, Idle, SubmitCall, StudentCall, StaffCall
        <5>. QED BY <5>1, <5>2
      <4>2. call[w].c # c
        BY <2>1, <4>1 DEF CallInv, Placed, Idle, SubmitCall, StudentCall, StaffCall
      <4>. QED BY <3>3, <4>2 DEF WriteEdit, WriteStudentDelete, WriteStatus, WriteSoftDelete,
           MarkAssigned, WritePriority, Log, TypeOK
    <3>. QED BY <2>2, <3>1, <3>2, <3>3 DEF Continue
  <2>3. CASE UNCHANGED <<row, history>>
    BY <2>1, <2>3
  <2>4. CASE \E d \in Complaints : WindowExpires(d)
    BY <2>1, <2>4 DEF WindowExpires, TypeOK
  <2>5. ASSUME NEW w \in Calls, \E s \in Students : StudentBegins(w, s)
        PROVE  UNCHANGED <<row, history>>
    BY <2>5 DEF StudentBegins, BeginSubmit, BeginEdit, BeginStudentDelete, Start
  <2>6. ASSUME NEW w \in Calls, \E a \in Staff : StaffBegins(w, a)
        PROVE  UNCHANGED <<row, history>>
    BY <2>6 DEF StaffBegins, BeginStatus, BeginSoftDelete, BeginAssign, BeginPriority, Start
  <2>7. ASSUME NEW w \in Calls, Fail(w)
        PROVE  UNCHANGED <<row, history>>
    BY <2>7 DEF Fail
  <2>8. CASE Environment
    BY <2>3, <2>4, <2>8 DEF Environment, SetLocked, SetHostelApproved
  <2>9. CASE UNCHANGED vars
    BY <2>3, <2>9 DEF vars
  <2>. QED BY <2>1, <2>2, <2>3, <2>5, <2>6, <2>7, <2>8, <2>9 DEF Next
<1>. QED BY <1>1, <1>2 DEF CallInv

LEMMA CallInit ==
  ASSUME Init
  PROVE  CallInv
<1>1. ASSUME NEW c \in Complaints, ~Exists(c)
      PROVE  row[c] = NoRow /\ history[c] = {}
  <2>1. \A s \in Students, anon \in BOOLEAN : NewRow(s, anon, FALSE).filer # Nobody
    BY LifecycleAssumption DEF LifecycleAssumption, NewRow
  <2>2. \/ row[c] = NoRow
        \/ \E s \in Students, anon \in BOOLEAN : row[c] = NewRow(s, anon, FALSE)
    BY DEF Init
  <2>. QED BY <1>1, <2>1, <2>2 DEF Init, Exists
<1>. QED BY <1>1 DEF Init, CallInv

\* In every reachable state every variable has its type, whatever the number of
\* complaints, students, staff and calls in flight; and every call in flight
\* holds the id of an existing row, written by someone entitled to.
THEOREM TypeCorrect == Spec => [](TypeOK /\ CallInv)
<1>1. Init => TypeOK /\ CallInv
  BY TypeInit, CallInit
<1>2. TypeOK /\ CallInv /\ [Next]_vars => (TypeOK /\ CallInv)'
  BY TypeStep, CallStep, LifecycleAssumption
<1>. QED BY <1>1, <1>2, PTL DEF Spec
=============================================================================
