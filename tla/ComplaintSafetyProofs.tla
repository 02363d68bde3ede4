----------------------- MODULE ComplaintSafetyProofs -----------------------
(***************************************************************************)
(* The safety properties of ComplaintLifecycle, proved from its inductive  *)
(* invariant TypeOK /\ CallInv.  The first lemmas say which step of which  *)
(* call changes a row, its history or another call; each property then has *)
(* one lemma, over the few steps that can disturb it.                      *)
(***************************************************************************)
EXTENDS ComplaintLifecycleProofs

-----------------------------------------------------------------------------
(* Who changes what.                                                       *)

\* The step of call w that writes the row of the complaint it is about.
Writes(w) == \/ WriteEdit(w) \/ WriteStudentDelete(w) \/ WriteStatus(w)
             \/ WriteSoftDelete(w) \/ MarkAssigned(w) \/ WritePriority(w)

LEMMA BeginLeavesTables ==
  ASSUME NEW w \in Calls,
         \/ \E s \in Students : StudentBegins(w, s)
         \/ \E a \in Staff : StaffBegins(w, a)
  PROVE  /\ UNCHANGED <<row, student, assigned, history, notifications, aborted>>
         /\ call[w] = Idle
         /\ \E k : call' = [call EXCEPT ![w] = k]
<1>1. CASE \E s \in Students : StudentBegins(w, s)
  BY <1>1 DEF StudentBegins, BeginSubmit, BeginEdit, BeginStudentDelete, Start
<1>2. CASE \E a \in Staff : StaffBegins(w, a)
  BY <1>2 DEF StaffBegins, BeginStatus, BeginSoftDelete, BeginAssign, BeginPriority, Start
<1>. QED BY <1>1, <1>2

LEMMA RowChange ==
  ASSUME TypeOK, CallInv, [Next]_vars, NEW c \in Complaints, row'[c] # row[c]
  PROVE  \/ \E w \in Calls : call[w].c = c /\ Writes(w)
         \/ \E w \in Calls : InsertComplaint(w, c)
         \/ WindowExpires(c)
<1>1. ASSUME NEW w \in Calls, Writes(w)
      PROVE  call[w].c = c
  BY <1>1 DEF Writes, WriteEdit, WriteStudentDelete, WriteStatus, WriteSoftDelete,
         MarkAssigned, WritePriority, TypeOK
<1>2. ASSUME NEW w \in Calls, NEW d \in Complaints, InsertComplaint(w, d)
      PROVE  d = c
  BY <1>2 DEF InsertComplaint, TypeOK
<1>3. ASSUME NEW d \in Complaints, WindowExpires(d)
      PROVE  d = c
  BY <1>3 DEF WindowExpires, TypeOK
<1>4. ASSUME NEW w \in Calls,
             \/ \E s \in Students : StudentBegins(w, s)
             \/ \E a \in Staff : StaffBegins(w, a)
             \/ CheckStudent(w) \/ SubmitRejected(w) \/ InsertAssignment(w) \/ Log(w)
             \/ Notify(w) \/ Fail(w)
      PROVE  FALSE
  BY <1>4, BeginLeavesTables DEF CheckStudent, SubmitRejected, InsertAssignment, Log, Notify, Fail
<1>5. CASE Environment
  BY <1>3, <1>5 DEF Environment, SetLocked, SetHostelApproved
<1>6. CASE UNCHANGED vars
  BY <1>6 DEF vars
<1>. QED BY <1>1, <1>2, <1>4, <1>5, <1>6 DEF Next, Continue, Writes

LEMMA HistoryChange ==
  ASSUME TypeOK, CallInv, [Next]_vars, NEW c \in Complaints, history'[c] # history[c]
  PROVE  \/ \E w \in Calls : InsertComplaint(w, c)
         \/ \E w \in Calls : call[w].c = c /\ Log(w)
<1>1. ASSUME NEW w \in Calls, Log(w)
      PROVE  call[w].c = c
  BY <1>1 DEF Log, TypeOK
<1>2. ASSUME NEW w \in Calls, NEW d \in Complaints, InsertComplaint(w, d)
      PROVE  d = c
  BY <1>2 DEF InsertComplaint, TypeOK
<1>3. ASSUME NEW w \in Calls,
             \/ \E s \in Students : StudentBegins(w, s)
             \/ \E a \in Staff : StaffBegins(w, a)
             \/ CheckStudent(w) \/ SubmitRejected(w) \/ InsertAssignment(w) \/ Notify(w)
             \/ Fail(w) \/ Writes(w)
      PROVE  FALSE
  BY <1>3, BeginLeavesTables DEF CheckStudent, SubmitRejected, InsertAssignment, Notify, Fail, Writes,
         WriteEdit, WriteStudentDelete, WriteStatus, WriteSoftDelete, MarkAssigned, WritePriority
<1>4. CASE Environment
  BY <1>4 DEF Environment, WindowExpires, SetLocked, SetHostelApproved
<1>5. CASE UNCHANGED vars
  BY <1>5 DEF vars
<1>. QED BY <1>1, <1>2, <1>3, <1>4, <1>5 DEF Next, Continue, Writes

\* A call in flight only moves by its own next step, or by dying.
LEMMA CallChange ==
  ASSUME TypeOK, [Next]_vars, NEW w \in Calls, call[w] # Idle, call'[w] # call[w]
  PROVE  Continue(w) \/ Fail(w)
<1>1. ASSUME NEW v \in Calls,
             \/ \E s \in Students : StudentBegins(v, s)
             \/ \E a \in Staff : StaffBegins(v, a)
      PROVE  FALSE
  BY <1>1, BeginLeavesTables DEF TypeOK
<1>2. ASSUME NEW v \in Calls, Continue(v) \/ Fail(v)
      PROVE  v = w
  <2>1. \E k : call' = [call EXCEPT ![v] = k]
    BY <1>2 DEF Continue, CheckStudent, InsertComplaint, SubmitRejected, WriteEdit, WriteStudentDelete,
       WriteStatus, WriteSoftDelete, InsertAssignment, MarkAssigned, WritePriority, Log,
       Notify, Fail, Goto, Return
  <2>. QED BY <2>1 DEF TypeOK
<1>3. CASE Environment \/ UNCHANGED vars
  BY <1>3 DEF Environment, WindowExpires, SetLocked, SetHostelApproved, vars
<1>. QED BY <1>1, <1>2, <1>3 DEF Next

\* What the step of a call in place that writes a row does to it.
LEMMA WriteEffect ==
  ASSUME TypeOK, CallInv, NEW w \in Calls, NEW c \in Complaints,
         call[w].c = c, Writes(w)
  PROVE  /\ row'[c].filer = row[c].filer
         /\ row'[c].anonymous = row[c].anonymous
         /\ WriteEdit(w) \/ row'[c].revision = row[c].revision
         /\ \/ WriteStudentDelete(w) \/ WriteSoftDelete(w)
            \/ /\ row'[c].isDeleted = row[c].isDeleted
               /\ row'[c].deletedBy = row[c].deletedBy
               /\ row'[c].deletedByRole = row[c].deletedByRole
         /\ WriteStudentDelete(w) => /\ row'[c].isDeleted
                                     /\ row'[c].deletedByRole = "Student"
         /\ WriteSoftDelete(w) => /\ row'[c].isDeleted
                                  /\ row'[c].deletedBy = call[w].by
                                  /\ row'[c].deletedByRole = RoleOf[call[w].by]
         /\ \/ /\ WriteStatus(w)
               /\ row'[c].status = call[w].to
               /\ row'[c].hasAdminAction
               /\ row'[c].resolvedAt = (row[c].resolvedAt \/ call[w].to = "Resolved")
            \/ /\ ~WriteStatus(w)
               /\ row'[c].status = row[c].status
               /\ row'[c].resolvedAt = row[c].resolvedAt
         /\ row[c].hasAdminAction => row'[c].hasAdminAction
         /\ WriteEdit(w) \/ WriteStudentDelete(w) \/ WriteSoftDelete(w) =>
              row'[c].hasAdminAction = row[c].hasAdminAction
<1>. row[c] \in Row
  BY DEF TypeOK
<1>1. CASE WriteEdit(w)
  BY <1>1 DEF WriteEdit, WriteStudentDelete, WriteStatus, WriteSoftDelete, At, TypeOK, Row
<1>2. CASE WriteStudentDelete(w)
  BY <1>2 DEF WriteStudentDelete, WriteStatus, WriteSoftDelete, At, TypeOK, Row
<1>3. CASE WriteStatus(w)
  BY <1>3 DEF WriteStatus, WriteEdit, WriteStudentDelete, WriteSoftDelete, At, TypeOK, Row
<1>4. CASE WriteSoftDelete(w)
  BY <1>4 DEF WriteSoftDelete, WriteStudentDelete, WriteStatus, At, TypeOK, Row
<1>5. CASE MarkAssigned(w) \/ WritePriority(w)
  BY <1>5 DEF MarkAssigned, WritePriority, WriteEdit, WriteStatus, WriteStudentDelete,
         WriteSoftDelete, At, TypeOK, Row
<1>. QED BY <1>1, <1>2, <1>3, <1>4, <1>5 DEF Writes

-----------------------------------------------------------------------------
(* The action properties.                                                  *)

LEMMA OwnStep ==
  ASSUME TypeOK, CallInv, NEW w \in Calls, Continue(w) \/ Fail(w)
  PROVE  call[w] # Idle /\ \E k : call' = [call EXCEPT ![w] = k]
<1>1. call[w] # Idle
  <2>1. CASE Log(w) \/ Notify(w) \/ Fail(w)
    BY <2>1 DEF Log, Notify, Fail, Idle
  <2>2. CASE \E d \in Complaints : InsertComplaint(w, d)
    BY <2>2 DEF InsertComplaint, At, Idle
  <2>3. CASE CheckStudent(w) \/ SubmitRejected(w) \/ InsertAssignment(w)
    BY <2>3 DEF CheckStudent, SubmitRejected, InsertAssignment, At, Idle
  <2>4. CASE Writes(w)
    <3>1. StudentCall(call[w]) \/ StaffCall(call[w])
      BY <2>4, Writing DEF Writes
    <3>. QED BY <3>1 DEF StudentCall, StaffCall, Idle
  <2>. QED BY <2>1, <2>2, <2>3, <2>4 DEF Continue, Writes
<1>2. \E k : call' = [call EXCEPT ![w] = k]
  BY DEF Continue, CheckStudent, InsertComplaint, SubmitRejected, WriteEdit,
     WriteStudentDelete, WriteStatus, WriteSoftDelete, InsertAssignment, MarkAssigned,
     WritePriority, Log, Notify, Fail, Goto, Return
<1>. QED BY <1>1, <1>2

\* A call that begins has its check or its write before it.
LEMMA CallBegins ==
  ASSUME TypeOK, CallInv, [Next]_vars, NEW w \in Calls, call[w] = Idle, call'[w] # Idle
  PROVE  call'[w].step \in {"check", "write"}
<1>1. ASSUME NEW v \in Calls, Continue(v) \/ Fail(v)
      PROVE  call'[w] = call[w]
  <2>1. call[v] # Idle /\ \E k : call' = [call EXCEPT ![v] = k]
    BY <1>1, OwnStep
  <2>. QED BY <2>1 DEF TypeOK
<1>2. ASSUME NEW v \in Calls, NEW a \in Staff, StaffBegins(v, a)
      PROVE  call'[w] = call[w] \/ call'[w].step = "write"
  <2>1. ASSUME NEW d \in Complaints, NEW to \in Statuses, NEW remark \in BOOLEAN,
               BeginStatus(v, a, d, to, remark)
        PROVE  call'[w] = call[w] \/ call'[w].step = "write"
    BY <2>1 DEF BeginStatus, Start, On, Idle, TypeOK
  <2>2. ASSUME NEW d \in Complaints, NEW op \in {"softDelete", "assign", "priority"},
               Start(v, On(op, a, d))
        PROVE  call'[w] = call[w] \/ call'[w].step = "write"
    BY <2>2 DEF Start, On, Idle, TypeOK
  <2>. QED BY <1>2, <2>1, <2>2 DEF StaffBegins, BeginSoftDelete, BeginAssign, BeginPriority
<1>3. ASSUME NEW v \in Calls, NEW s \in Students, StudentBegins(v, s)
      PROVE  call'[w] = call[w] \/ call'[w].step \in {"check", "write"}
  <2>1. ASSUME NEW anon \in BOOLEAN, NEW hostel \in BOOLEAN, NEW cat \in BOOLEAN,
               BeginSubmit(v, s, anon, hostel, cat)
        PROVE  call'[w] = call[w] \/ call'[w].step = "check"
    BY <2>1 DEF BeginSubmit, Start, On, Idle, TypeOK
  <2>2. ASSUME NEW d \in Complaints, NEW op \in {"edit", "studentDelete"},
               Start(v, On(op, s, d))
        PROVE  call'[w] = call[w] \/ call'[w].step = "write"
    BY <2>2 DEF Start, On, Idle, TypeOK
  <2>. QED BY <1>3, <2>1, <2>2 DEF StudentBegins, BeginEdit, BeginStudentDelete
<1>4. CASE Environment \/ UNCHANGED vars
  BY <1>4 DEF Environment, WindowExpires, SetLocked, SetHostelApproved, vars
<1>. QED BY <1>1, <1>2, <1>3, <1>4 DEF Next

\* Only the RPC's check brings a submission before its INSERT.
LEMMA PastTheCheck ==
  ASSUME TypeOK, CallInv, [Next]_vars, NEW w \in Calls,
         call'[w] # call[w], call'[w].step = "insert"
  PROVE  /\ Eligible(call[w].by, call[w].hostel)
         /\ call'[w].by = call[w].by
         /\ call'[w].hostel = call[w].hostel
<1>1. call[w] # Idle
  <2>1. call'[w] # Idle
    BY DEF Idle
  <2>. QED BY <2>1, CallBegins
<1>2. Continue(w) \/ Fail(w)
  BY <1>1, CallChange
<1>3. ASSUME Return(w) \/ Goto(w, "log") \/ Goto(w, "mark") \/ Goto(w, "notify")
      PROVE  FALSE
  BY <1>3 DEF Return, Goto, Idle, TypeOK, Call
<1>4. CheckStudent(w)
  <2>1. CASE SubmitRejected(w) \/ InsertAssignment(w) \/ Log(w) \/ Notify(w) \/ Fail(w)
    BY <1>3, <2>1 DEF SubmitRejected, InsertAssignment, Log, Notify, Fail
  <2>2. CASE Writes(w)
    BY <1>3, <2>2 DEF Writes, WriteEdit, WriteStudentDelete, WriteStatus, WriteSoftDelete,
       MarkAssigned, WritePriority
  <2>3. CASE \E c \in Complaints : InsertComplaint(w, c)
    BY <1>3, <2>3 DEF InsertComplaint
  <2>. QED BY <1>2, <2>1, <2>2, <2>3 DEF Continue, Writes
<1>. QED BY <1>4 DEF CheckStudent, Goto, TypeOK, Call

LEMMA BarredStep ==
  ASSUME TypeOK, CallInv, [Next]_vars, NEW s \in Students, NEW hostel \in BOOLEAN,
         Barred(s, hostel)
  PROVE  /\ Barred(s, hostel)' \/ Eligible(s, hostel)'
         /\ \A c \in Complaints :
              row'[c].filer = s /\ row'[c].hostel = hostel => row[c].filer = s
<1>1. ASSUME NEW w \in Calls, call'[w].by = s, call'[w].hostel = hostel,
             At(w, "submit", "insert")'
      PROVE  FALSE
  <2>1. CASE call'[w] = call[w]
    BY <1>1, <2>1 DEF Barred, At
  <2>2. CASE call'[w] # call[w]
    BY <1>1, <2>2, PastTheCheck DEF Barred, At
  <2>. QED BY <2>1, <2>2
<1>2. ASSUME NEW c \in Complaints, row'[c].filer = s, row'[c].hostel = hostel,
             row[c].filer # s
      PROVE  FALSE
  <2>1. ASSUME NEW w \in Calls, InsertComplaint(w, c)
        PROVE  FALSE
    <3>1. call[w].by = s /\ call[w].hostel = hostel
      BY <1>2, <2>1 DEF InsertComplaint, NewRow, TypeOK
    <3>. QED BY <2>1, <3>1 DEF Barred, InsertComplaint
  <2>2. ASSUME NEW w \in Calls, call[w].c = c, Writes(w)
        PROVE  FALSE
    BY <1>2, <2>2, WriteEffect
  <2>3. ASSUME WindowExpires(c)
        PROVE  FALSE
    BY <1>2, <2>3 DEF WindowExpires, TypeOK, Row
  <2>. QED BY <1>2, <2>1, <2>2, <2>3, RowChange
<1>. QED BY <1>1, <1>2 DEF Barred

\* Submissions that had not passed the RPC's check when their student was locked,
\* or lost the hostel approval, never enter the table, however many are in
\* flight; those past it still can, and no new one follows them.
THEOREM BarredStaysOutTheorem == Spec => BarredStaysOut
<1>1. TypeOK /\ CallInv /\ [Next]_vars =>
        [\A s \in Students, hostel \in BOOLEAN : Barred(s, hostel) =>
           /\ Barred(s, hostel)' \/ Eligible(s, hostel)'
           /\ \A c \in Complaints :
                row'[c].filer = s /\ row'[c].hostel = hostel => row[c].filer = s]_vars
  BY BarredStep
<1>. QED BY <1>1, TypeCorrect, PTL DEF Spec, BarredStaysOut

LEMMA LockStep ==
  ASSUME TypeOK, CallInv, [Next]_vars, NEW c \in Complaints, LockedFor(c)
  PROVE  /\ LockedFor(c)'
         /\ row'[c].revision = row[c].revision
         /\ row'[c].deletedByRole = "Student" => row[c].deletedByRole = "Student"
<1>0. Exists(c)
  BY DEF LockedFor, CallInv, NoRow, NewRow
<1>1. ASSUME NEW w \in Calls, call[w].c = c, WriteEdit(w) \/ WriteStudentDelete(w)
      PROVE  FALSE
  BY <1>1 DEF LockedFor, InFlight, WriteEdit, WriteStudentDelete, At
<1>2. ASSUME NEW w \in Calls, call[w].c = c, WriteSoftDelete(w)
      PROVE  row'[c].deletedByRole # "Student"
  <2>1. call[w].by \in Staff
    BY <1>2 DEF WriteSoftDelete, At, CallInv, Placed, Idle, SubmitCall, StudentCall, StaffCall
  <2>2. RoleOf[call[w].by] \in StaffRoles
    BY <2>1, LifecycleAssumption DEF LifecycleAssumption
  <2>. QED BY <1>2, <2>2, WriteEffect DEF Writes, StaffRoles
<1>3. /\ row'[c].revision = row[c].revision
      /\ row'[c].deletedByRole = "Student" => row[c].deletedByRole = "Student"
  <2>1. CASE row'[c] = row[c]
    BY <2>1
  <2>2. CASE \E w \in Calls : call[w].c = c /\ Writes(w)
    BY <1>1, <1>2, <2>2, WriteEffect
  <2>3. CASE \E w \in Calls : InsertComplaint(w, c)
    BY <1>0, <2>3 DEF InsertComplaint
  <2>4. CASE WindowExpires(c)
    BY <2>4 DEF WindowExpires, TypeOK, Row
  <2>. QED BY <2>1, <2>2, <2>3, <2>4, RowChange
<1>4. row'[c].hasAdminAction
  BY <1>0, NothingTakenBack DEF LockedFor, Grows
<1>5. ~InFlight(c, {"edit", "studentDelete"}, "write")'
  <2>1. SUFFICES ASSUME NEW w \in Calls, call'[w].c = c, call'[w].step = "write",
                        call'[w].op \in {"edit", "studentDelete"}
                 PROVE  FALSE
    BY DEF InFlight
  <2>2. call'[w] # call[w]
    BY <2>1 DEF LockedFor, InFlight
  <2>3. CASE call[w] # Idle
    <3>1. Continue(w) \/ Fail(w)
      BY <2>2, <2>3, CallChange
    <3>2. \/ Goto(w, "insert") \/ Goto(w, "mark") \/ Goto(w, "log") \/ Goto(w, "notify")
          \/ Return(w)
      <4>1. CASE \E d \in Complaints : InsertComplaint(w, d)
        BY <4>1 DEF InsertComplaint
      <4>2. CASE \/ CheckStudent(w) \/ SubmitRejected(w) \/ InsertAssignment(w) \/ Log(w)
                 \/ Notify(w) \/ Fail(w)
        BY <4>2 DEF CheckStudent, SubmitRejected, InsertAssignment, Log, Notify, Fail
      <4>3. CASE WriteEdit(w) \/ WriteStudentDelete(w) \/ WriteStatus(w) \/ WriteSoftDelete(w)
        BY <4>3 DEF WriteEdit, WriteStudentDelete, WriteStatus, WriteSoftDelete
      <4>4. CASE MarkAssigned(w) \/ WritePriority(w)
        BY <4>4 DEF MarkAssigned, WritePriority
      <4>. QED BY <3>1, <4>1, <4>2, <4>3, <4>4 DEF Continue
    <3>. QED BY <2>1, <3>2 DEF Goto, Return, Idle, TypeOK, Call
  <2>4. CASE call[w] = Idle
    <3>1. ASSUME NEW v \in Calls, Continue(v) \/ Fail(v)
          PROVE  call'[w] = call[w] \/ call'[w] = Idle
      <4>1. call[v] # Idle /\ \E k : call' = [call EXCEPT ![v] = k]
        BY <3>1, OwnStep
      <4>. QED BY <2>4, <4>1 DEF TypeOK
    <3>2. ASSUME NEW v \in Calls, NEW a \in Staff, StaffBegins(v, a)
          PROVE  call'[w] = call[w] \/ call'[w].op \notin {"edit", "studentDelete"}
      <4>1. ASSUME NEW d \in Complaints, NEW to \in Statuses, NEW remark \in BOOLEAN,
                   BeginStatus(v, a, d, to, remark)
            PROVE  call'[w] = call[w] \/ call'[w].op \notin {"edit", "studentDelete"}
        BY <4>1 DEF BeginStatus, Start, On, Idle, TypeOK
      <4>2. ASSUME NEW d \in Complaints, NEW op \in {"softDelete", "assign", "priority"},
                   Start(v, On(op, a, d))
            PROVE  call'[w] = call[w] \/ call'[w].op \notin {"edit", "studentDelete"}
        BY <4>2 DEF Start, On, Idle, TypeOK
      <4>. QED BY <3>2, <4>1, <4>2 DEF StaffBegins, BeginSoftDelete, BeginAssign, BeginPriority
    <3>3. ASSUME NEW v \in Calls, NEW s \in Students, StudentBegins(v, s)
          PROVE  call'[w] = call[w] \/ call'[w].op = "submit" \/ call'[w].c # c
      <4>1. ASSUME NEW anon \in BOOLEAN, NEW hostel \in BOOLEAN, NEW cat \in BOOLEAN,
                   BeginSubmit(v, s, anon, hostel, cat)
            PROVE  call'[w] = call[w] \/ call'[w].op = "submit"
        BY <4>1 DEF BeginSubmit, Start, On, Idle, TypeOK
      <4>2. ASSUME NEW d \in Complaints, BeginEdit(v, s, d) \/ BeginStudentDelete(v, s, d)
            PROVE  call'[w] = call[w] \/ call'[w].c # c
        <5>1. d # c
          BY <4>2 DEF BeginEdit, BeginStudentDelete, Untouched, LockedFor
        <5>2. ASSUME NEW op \in {"edit", "studentDelete"}, Start(v, On(op, s, d))
              PROVE  call'[w] = call[w] \/ call'[w].c # c
          BY <5>1, <5>2 DEF Start, On, Idle, TypeOK
        <5>. QED BY <4>2, <5>2 DEF BeginEdit, BeginStudentDelete
      <4>. QED BY <3>3, <4>1, <4>2 DEF StudentBegins
    <3>4. CASE Environment \/ UNCHANGED vars
      BY <2>2, <3>4 DEF Environment, WindowExpires, SetLocked, SetHostelApproved, vars
    <3>. QED BY <2>1, <2>2, <2>4, <3>1, <3>2, <3>3, <3>4 DEF Next, Idle
  <2>. QED BY <2>3, <2>4
<1>. QED BY <1>3, <1>4, <1>5 DEF LockedFor

\* The student's way out is closed for good once review has begun and the student
\* calls past their check have drained, for any number of concurrent calls.
THEOREM LockIsFinalTheorem == Spec => LockIsFinal
<1>1. TypeOK /\ CallInv /\ [Next]_vars =>
        [\A c \in Complaints : LockedFor(c) =>
           /\ LockedFor(c)'
           /\ row'[c].revision = row[c].revision
           /\ row'[c].deletedByRole = "Student" => row[c].deletedByRole = "Student"]_vars
  BY LockStep
<1>. QED BY <1>1, TypeCorrect, PTL DEF Spec, LockIsFinal

-----------------------------------------------------------------------------
(* ReviewIsMarked.                                                         *)

LEMMA InitialRow ==
  ASSUME Init, NEW c \in Complaints
  PROVE  \E s \in Students \union {Nobody}, anon \in BOOLEAN : row[c] = NewRow(s, anon, FALSE)
BY DEF Init, NoRow

LEMMA InsertedRow ==
  ASSUME TypeOK, CallInv, NEW w \in Calls, NEW c \in Complaints, InsertComplaint(w, c)
  PROVE  /\ ~Exists(c)
         /\ row'[c] = NewRow(call[w].by, call[w].anonymous, call[w].hostel)
         /\ history'[c] = {Submission(call[w].by, call[w].anonymous)}
         /\ call[w].by \in Students
         /\ call[w].anonymous \in BOOLEAN
<1>1. call[w].by \in Students /\ call[w].anonymous \in BOOLEAN
  BY DEF InsertComplaint, At, TypeOK, Call, CallInv, Idle, Placed, SubmitCall, StudentCall, StaffCall
<1>2. ~Exists(c) /\ history[c] = {}
  BY DEF InsertComplaint, CallInv
<1>. QED BY <1>1, <1>2 DEF InsertComplaint, TypeOK

LEMMA AbortedGrows ==
  ASSUME [Next]_vars
  PROVE  aborted \subseteq aborted'
<1>1. ASSUME NEW w \in Calls,
             \/ \E s \in Students : StudentBegins(w, s)
             \/ \E a \in Staff : StaffBegins(w, a)
      PROVE  aborted' = aborted
  BY <1>1, BeginLeavesTables
<1>2. ASSUME NEW w \in Calls, Continue(w)
      PROVE  aborted' = aborted
  BY <1>2 DEF Continue, CheckStudent, InsertComplaint, SubmitRejected, WriteEdit, WriteStudentDelete,
     WriteStatus, WriteSoftDelete, InsertAssignment, MarkAssigned, WritePriority, Log, Notify
<1>3. ASSUME NEW w \in Calls, Fail(w)
      PROVE  aborted \subseteq aborted'
  BY <1>3 DEF Fail
<1>4. CASE Environment \/ UNCHANGED vars
  BY <1>4 DEF Environment, WindowExpires, SetLocked, SetHostelApproved, vars
<1>. QED BY <1>1, <1>2, <1>3, <1>4 DEF Next

LEMMA ReviewStep ==
  ASSUME TypeOK, CallInv, ReviewIsMarked, [Next]_vars, TypeOK', NEW c \in Complaints
  PROVE  /\ row'[c].status # "Pending" => row'[c].hasAdminAction
         /\ row'[c].status = "Resolved" => row'[c].resolvedAt
<1>1. CASE row'[c] = row[c]
  BY <1>1 DEF ReviewIsMarked
<1>2. CASE \E w \in Calls : call[w].c = c /\ Writes(w)
  BY <1>2, WriteEffect DEF ReviewIsMarked
<1>3. CASE \E w \in Calls : InsertComplaint(w, c)
  <2>1. PICK w \in Calls : InsertComplaint(w, c)
    BY <1>3
  <2>2. row'[c] = NewRow(call[w].by, call[w].anonymous, call[w].hostel)
    BY <2>1, InsertedRow
  <2>3. row'[c].status = "Pending"
    BY <2>2 DEF NewRow
  <2>. QED BY <2>3
<1>4. CASE WindowExpires(c)
  <2>1. /\ row'[c].status = row[c].status
        /\ row'[c].hasAdminAction = row[c].hasAdminAction
        /\ row'[c].resolvedAt = row[c].resolvedAt
    BY <1>4 DEF WindowExpires, TypeOK, Row
  <2>. QED BY <2>1 DEF ReviewIsMarked
<1>. QED BY <1>1, <1>2, <1>3, <1>4, RowChange

\* The window in which assign_complaint has inserted the assignment and not yet
\* marked the row closes with the mark, or is on record as cut short.
LEMMA AssignmentStep ==
  ASSUME TypeOK, CallInv, ReviewIsMarked, [Next]_vars, NEW c \in Complaints, c \in assigned'
  PROVE  \/ row'[c].hasAdminAction
         \/ InFlight(c, {"assign"}, "mark")'
         \/ <<c, "mark">> \in aborted'
<1>1. CASE c \notin assigned
  <2>1. PICK w \in Calls : InsertAssignment(w)
    <3>1. ASSUME NEW w \in Calls, \/ \E s \in Students : StudentBegins(w, s)
                                  \/ \E a \in Staff : StaffBegins(w, a)
          PROVE  assigned' = assigned
      BY <3>1, BeginLeavesTables
    <3>2. ASSUME NEW w \in Calls, Continue(w), ~InsertAssignment(w)
          PROVE  assigned' = assigned
      BY <3>2 DEF Continue, CheckStudent, InsertComplaint, SubmitRejected, WriteEdit, WriteStudentDelete,
         WriteStatus, WriteSoftDelete, MarkAssigned, WritePriority, Log, Notify
    <3>3. ASSUME NEW w \in Calls, Fail(w)
          PROVE  assigned' = assigned
      BY <3>3 DEF Fail
    <3>4. Environment \/ UNCHANGED vars => assigned' = assigned
      BY DEF Environment, WindowExpires, SetLocked, SetHostelApproved, vars
    <3>. QED BY <1>1, <3>1, <3>2, <3>3, <3>4 DEF Next
  <2>2. call[w].c = c /\ call[w].op = "assign"
    BY <1>1, <2>1 DEF InsertAssignment, At
  <2>3. call'[w].c = c /\ call'[w].op = "assign" /\ call'[w].step = "mark"
    BY <2>1, <2>2 DEF InsertAssignment, Goto, TypeOK, Call
  <2>. QED BY <2>3 DEF InFlight
<1>2. CASE c \in assigned /\ row[c].hasAdminAction
  <2>1. Exists(c)
    BY <1>2 DEF CallInv, NoRow, NewRow
  <2>. QED BY <1>2, <2>1, NothingTakenBack DEF Grows
<1>3. ASSUME NEW w \in Calls, call[w].c = c, call[w].op = "assign", call[w].step = "mark"
      PROVE  \/ row'[c].hasAdminAction
             \/ InFlight(c, {"assign"}, "mark")'
             \/ <<c, "mark">> \in aborted'
  <2>1. CASE call'[w] = call[w]
    BY <1>3, <2>1 DEF InFlight
  <2>2. CASE Fail(w)
    BY <1>3, <2>2 DEF Fail
  <2>3. CASE Continue(w)
    <3>1. MarkAssigned(w)
      BY <1>3, <2>3 DEF Continue, CheckStudent, InsertComplaint, SubmitRejected, WriteEdit,
         WriteStudentDelete, WriteStatus, WriteSoftDelete, InsertAssignment,
         WritePriority, Log, Notify, At
    <3>. QED BY <1>3, <3>1 DEF MarkAssigned, TypeOK, Row
  <2>. QED BY <1>3, <2>1, <2>2, <2>3, CallChange DEF Idle
<1>4. CASE <<c, "mark">> \in aborted
  BY <1>4, AbortedGrows
<1>. QED BY <1>1, <1>2, <1>3, <1>4 DEF ReviewIsMarked, InFlight

\* A complaint under review is always marked as such: the lock that keeps its
\* student out, and the resolution time, are never missing.
THEOREM ReviewIsMarkedTheorem == Spec => []ReviewIsMarked
<1>1. Init => ReviewIsMarked
  <2>1. ASSUME Init, NEW c \in Complaints
        PROVE  row[c].status = "Pending"
    <3>1. PICK s \in Students \union {Nobody}, anon \in BOOLEAN : row[c] = NewRow(s, anon, FALSE)
      BY <2>1, InitialRow
    <3>. QED BY <3>1 DEF NewRow
  <2>. QED BY <2>1 DEF Init, ReviewIsMarked
<1>2. TypeOK /\ CallInv /\ TypeOK' /\ ReviewIsMarked /\ [Next]_vars => ReviewIsMarked'
  <2>1. SUFFICES ASSUME TypeOK, CallInv, TypeOK', ReviewIsMarked, [Next]_vars,
                        NEW c \in Complaints
                 PROVE  /\ row'[c].status # "Pending" => row'[c].hasAdminAction
                        /\ row'[c].status = "Resolved" => row'[c].resolvedAt
                        /\ c \in assigned' => \/ row'[c].hasAdminAction
                                              \/ InFlight(c, {"assign"}, "mark")'
                                              \/ <<c, "mark">> \in aborted'
    BY DEF ReviewIsMarked
  <2>. QED BY <2>1, ReviewStep, AssignmentStep
<1>. QED BY <1>1, <1>2, TypeCorrect, PTL DEF Spec

-----------------------------------------------------------------------------
(* MessageBacked, then AnonymityPreserved, which needs it: no message can  *)
(* be about a complaint that does not exist yet and turns out anonymous.   *)

LEMMA NewMessage ==
  ASSUME TypeOK, [Next]_vars, NEW n \in notifications', n \notin notifications
  PROVE  \E w \in Calls : Notify(w) /\ n = <<StudentId(call[w].c), call[w].c, call[w].to>>
<1>1. ASSUME NEW w \in Calls, \/ \E s \in Students : StudentBegins(w, s)
                              \/ \E a \in Staff : StaffBegins(w, a)
      PROVE  notifications' = notifications
  BY <1>1, BeginLeavesTables
<1>2. ASSUME NEW w \in Calls, Continue(w), ~Notify(w)
      PROVE  notifications' = notifications
  BY <1>2 DEF Continue, CheckStudent, InsertComplaint, SubmitRejected, WriteEdit, WriteStudentDelete,
     WriteStatus, WriteSoftDelete, InsertAssignment, MarkAssigned, WritePriority, Log
<1>3. ASSUME NEW w \in Calls, Fail(w)
      PROVE  notifications' = notifications
  BY <1>3 DEF Fail
<1>4. Environment \/ UNCHANGED vars => notifications' = notifications
  BY DEF Environment, WindowExpires, SetLocked, SetHostelApproved, vars
<1>5. PICK w \in Calls : Notify(w)
  BY <1>1, <1>2, <1>3, <1>4 DEF Next
<1>. QED BY <1>5 DEF Notify

LEMMA NotifyingCall ==
  ASSUME TypeOK, CallInv, NEW w \in Calls, Notify(w)
  PROVE  /\ call[w].c \in Complaints
         /\ Exists(call[w].c)
         /\ ~row[call[w].c].anonymous
         /\ StudentId(call[w].c) = row[call[w].c].filer
         /\ Logged(call[w].c, "STATUS_CHANGED", call[w].to)
         /\ UNCHANGED <<row, history>>
<1>1. StaffCall(call[w]) /\ call[w].step = "notify"
  BY DEF Notify, CallInv, Placed, Idle, SubmitCall, StudentCall
<1>. QED BY <1>1 DEF Notify, StaffCall, StudentId

LEMMA MessageStep ==
  ASSUME TypeOK, CallInv, MessageBacked, [Next]_vars, NEW n \in notifications'
  PROVE  n[1] = row'[n[2]].filer /\ Logged(n[2], "STATUS_CHANGED", n[3])'
<1>1. CASE n \in notifications
  <2>1. n[1] \in Students /\ n[2] \in Complaints
    BY <1>1 DEF TypeOK
  <2>2. Exists(n[2])
    BY <1>1, <2>1, LifecycleAssumption DEF MessageBacked, Exists, LifecycleAssumption
  <2>3. Grows(n[2])
    BY <2>1, <2>2, NothingTakenBack
  <2>. QED BY <1>1, <2>3 DEF MessageBacked, Grows, Logged
<1>2. CASE n \notin notifications
  <2>1. PICK w \in Calls : Notify(w) /\ n = <<StudentId(call[w].c), call[w].c, call[w].to>>
    BY <1>2, NewMessage
  <2>. QED BY <2>1, NotifyingCall DEF Logged
<1>. QED BY <1>1, <1>2

\* Nobody is ever told of a status that the audit trail does not have, and only
\* the student who filed the complaint is told.
THEOREM MessageBackedTheorem == Spec => []MessageBacked
<1>1. Init => MessageBacked
  BY DEF Init, MessageBacked
<1>2. TypeOK /\ CallInv /\ MessageBacked /\ [Next]_vars => MessageBacked'
  BY MessageStep DEF MessageBacked
<1>. QED BY <1>1, <1>2, TypeCorrect, PTL DEF Spec

\* What the tail of a call appends to the history of its complaint.
LEMMA LoggedEntry ==
  ASSUME TypeOK, CallInv, NEW w \in Calls, Log(w)
  PROVE  /\ Exists(call[w].c)
         /\ history'[call[w].c] = history[call[w].c] \union {Entry(call[w])}
         /\ StudentCall(call[w]) \/ StaffCall(call[w])
         /\ call[w].step = "log"
         /\ UNCHANGED <<row, assigned>>
<1>1. call[w].step = "log" /\ (StudentCall(call[w]) \/ StaffCall(call[w]))
  BY DEF Log, CallInv, Placed, Idle, SubmitCall
<1>. QED BY <1>1 DEF Log, TypeOK, StudentCall, StaffCall

LEMMA AnonymityStep ==
  ASSUME TypeOK, CallInv, MessageBacked, AnonymityPreserved, [Next]_vars,
         NEW c \in Complaints, row'[c].anonymous
  PROVE  /\ \A e \in history'[c] : e.actor \notin Students
         /\ \A n \in notifications' : n[2] # c
<1>1. CASE Exists(c)
  <2>1. row[c].anonymous
    BY <1>1, NothingTakenBack DEF Grows
  <2>2. ASSUME NEW w \in Calls, call[w].c = c, Log(w)
        PROVE  Entry(call[w]).actor \notin Students
    <3>1. CASE StudentCall(call[w])
      BY <2>1, <2>2, <3>1, LifecycleAssumption
         DEF Entry, Actor, StudentCall, LifecycleAssumption
    <3>2. CASE StaffCall(call[w])
      BY <2>1, <2>2, <3>2, LifecycleAssumption
         DEF Entry, Actor, StaffCall, LifecycleAssumption
    <3>. QED BY <2>2, <3>1, <3>2, LoggedEntry
  <2>3. \A e \in history'[c] : e.actor \notin Students
    <3>1. ASSUME NEW w \in Calls, InsertComplaint(w, c)
          PROVE  FALSE
      BY <1>1, <3>1, InsertedRow
    <3>2. CASE history'[c] = history[c]
      BY <2>1, <3>2 DEF AnonymityPreserved
    <3>3. ASSUME NEW w \in Calls, call[w].c = c, Log(w)
          PROVE  \A e \in history'[c] : e.actor \notin Students
      BY <2>1, <2>2, <3>3, LoggedEntry DEF AnonymityPreserved
    <3>. QED BY <3>1, <3>2, <3>3, HistoryChange
  <2>4. \A n \in notifications' : n[2] # c
    <3>1. SUFFICES ASSUME NEW n \in notifications', n[2] = c, n \notin notifications
                   PROVE  FALSE
      BY <2>1 DEF AnonymityPreserved
    <3>2. PICK w \in Calls : Notify(w) /\ n = <<StudentId(call[w].c), call[w].c, call[w].to>>
      BY <3>1, NewMessage
    <3>. QED BY <2>1, <3>1, <3>2, NotifyingCall
  <2>. QED BY <2>3, <2>4
<1>2. CASE ~Exists(c)
  <2>1. ~row[c].anonymous /\ history[c] = {}
    BY <1>2 DEF CallInv, NoRow, NewRow
  <2>2. PICK w \in Calls : InsertComplaint(w, c)
    <3>1. ASSUME NEW v \in Calls, call[v].c = c, Writes(v)
          PROVE  FALSE
      BY <2>1, <3>1, WriteEffect
    <3>2. ~WindowExpires(c)
      BY <1>2 DEF WindowExpires
    <3>. QED BY <2>1, <3>1, <3>2, RowChange
  <2>3. /\ row'[c] = NewRow(call[w].by, call[w].anonymous, call[w].hostel)
        /\ history'[c] = {Submission(call[w].by, call[w].anonymous)}
    BY <2>2, InsertedRow
  <2>4. call[w].anonymous
    BY <2>3 DEF NewRow
  <2>5. \A e \in history'[c] : e.actor \notin Students
    BY <2>3, <2>4, LifecycleAssumption DEF Submission, LifecycleAssumption
  <2>6. \A n \in notifications : n[2] # c
    BY <1>2, LifecycleAssumption DEF MessageBacked, Exists, TypeOK, LifecycleAssumption
  <2>. QED BY <2>2, <2>5, <2>6 DEF InsertComplaint
<1>. QED BY <1>1, <1>2

\* An anonymous complaint stays anonymous: neither its trail nor a message ever
\* leads to a student, however calls on it interleave or die.
THEOREM AnonymityTheorem == Spec => []AnonymityPreserved
<1>1. Init => AnonymityPreserved
  <2>1. SUFFICES ASSUME Init, NEW c \in Complaints, row[c].anonymous, NEW e \in history[c]
                 PROVE  e.actor \notin Students
    BY DEF Init, AnonymityPreserved
  <2>2. history[c] = {} \/ history[c] = {Submission(row[c].filer, row[c].anonymous)}
    BY <2>1 DEF Init
  <2>. QED BY <2>1, <2>2, LifecycleAssumption DEF Submission, LifecycleAssumption
<1>2. TypeOK /\ CallInv /\ MessageBacked /\ AnonymityPreserved /\ [Next]_vars
        => AnonymityPreserved'
  BY AnonymityStep DEF AnonymityPreserved
<1>. QED BY <1>1, <1>2, TypeCorrect, MessageBackedTheorem, PTL DEF Spec

-----------------------------------------------------------------------------
(* AuditSound.                                                             *)

LEMMA BackedStays ==
  ASSUME TypeOK, CallInv, [Next]_vars, NEW c \in Complaints, Exists(c),
         NEW e, EntryBacked(c, e)
  PROVE  EntryBacked(c, e)'
<1>1. Grows(c)
  BY NothingTakenBack
<1>. QED BY <1>1 DEF Grows, EntryBacked

LEMMA NewEntryBacked ==
  ASSUME TypeOK, CallInv, NEW w \in Calls, Log(w),
         NEW c, c = call[w].c, NEW x, x = Entry(call[w])
  PROVE  EntryBacked(c, x)'
<1>. DEFINE k == call[w]
<1>1. /\ StudentCall(k) \/ StaffCall(k)
      /\ k.step = "log"
      /\ UNCHANGED <<row, assigned>>
  BY LoggedEntry
<1>2. x.to = k.to /\ x.action = ActionName[k.op] /\ x.actor = Actor(k)
  BY DEF Entry
<1>3. SUFFICES EntryBacked(c, x)
  BY <1>1 DEF EntryBacked
<1>4. CASE StudentCall(k)
  <2>1. x.actor = "Anonymous" \/ x.actor = row[c].filer
    BY <1>2, <1>3, <1>4 DEF StudentCall, Actor
  <2>2. x.actor \notin Staff
    BY <1>2, <1>3, <1>4, LifecycleAssumption DEF StudentCall, Actor, LifecycleAssumption
  <2>3. CASE k.op = "edit"
    <3>1. x.action = "EDITED" /\ row[c].revision > 0
      BY <1>1, <1>2, <1>3, <1>4, <2>3 DEF StudentCall, Effect, ActionName
    <3>. QED BY <2>1, <2>2, <3>1 DEF EntryBacked
  <2>4. CASE k.op = "studentDelete"
    <3>1. x.action = "DELETED_BY_STUDENT" /\ row[c].isDeleted
      BY <1>1, <1>2, <1>3, <1>4, <2>4 DEF StudentCall, Effect, ActionName
    <3>. QED BY <2>1, <2>2, <3>1 DEF EntryBacked
  <2>. QED BY <1>4, <2>3, <2>4 DEF StudentCall
<1>5. CASE StaffCall(k)
  <2>1. x.actor = k.by /\ c \in InScope[x.actor] /\ x.to = k.to
    BY <1>2, <1>3, <1>5 DEF StaffCall, Actor
  <2>2. CASE k.op = "status"
    <3>1. /\ x.action = "STATUS_CHANGED"
          /\ row[c].hasAdminAction
          /\ k.to = "Resolved" => row[c].resolvedAt
      BY <1>1, <1>2, <1>3, <1>5, <2>2 DEF StaffCall, Effect, ActionName
    <3>. QED BY <2>1, <3>1 DEF EntryBacked
  <2>3. CASE k.op = "softDelete"
    <3>1. x.action = "SOFT_DELETED" /\ row[c].isDeleted /\ RoleOf[k.by] # "Coordinator"
      BY <1>1, <1>2, <1>3, <1>5, <2>3 DEF StaffCall, Effect, ActionName
    <3>. QED BY <2>1, <3>1 DEF EntryBacked
  <2>4. CASE k.op = "assign"
    <3>1. /\ x.action = "ASSIGNED"
          /\ row[c].hasAdminAction /\ c \in assigned
          /\ RoleOf[k.by] # "Coordinator"
      BY <1>1, <1>2, <1>3, <1>5, <2>4 DEF StaffCall, Effect, ActionName
    <3>. QED BY <2>1, <3>1 DEF EntryBacked
  <2>5. CASE k.op = "priority"
    <3>1. /\ x.action = "PRIORITY_CHANGED"
          /\ row[c].hasAdminAction
          /\ RoleOf[k.by] # "Principal"
      BY <1>1, <1>2, <1>3, <1>5, <2>5 DEF StaffCall, Effect, ActionName
    <3>. QED BY <2>1, <3>1 DEF EntryBacked
  <2>. QED BY <1>5, <2>2, <2>3, <2>4, <2>5 DEF StaffCall
<1>. QED BY <1>1, <1>4, <1>5

LEMMA EntryStep ==
  ASSUME TypeOK, CallInv, AuditSound, [Next]_vars, NEW c \in Complaints,
         NEW e \in history'[c]
  PROVE  EntryBacked(c, e)'
<1>1. CASE e \in history[c]
  <2>1. Exists(c) /\ EntryBacked(c, e)
    BY <1>1 DEF CallInv, AuditSound
  <2>. QED BY <2>1, BackedStays
<1>2. CASE e \notin history[c]
  <2>1. ASSUME NEW w \in Calls, InsertComplaint(w, c)
        PROVE  EntryBacked(c, e)'
    <3>1. e = Submission(call[w].by, call[w].anonymous) /\ call[w].by \in Students
      BY <2>1, InsertedRow
    <3>2. e.action = "SUBMITTED" /\ e.actor \notin Staff
      BY <3>1, LifecycleAssumption DEF Submission, LifecycleAssumption
    <3>. QED BY <3>2 DEF EntryBacked
  <2>2. ASSUME NEW w \in Calls, call[w].c = c, Log(w)
        PROVE  EntryBacked(c, e)'
    <3>1. e = Entry(call[w])
      BY <1>2, <2>2, LoggedEntry
    <3>. QED BY <2>2, <3>1, NewEntryBacked
  <2>. QED BY <1>2, <2>1, <2>2, HistoryChange
<1>. QED BY <1>1, <1>2

LEMMA DeletionStep ==
  ASSUME TypeOK, CallInv, AuditSound, [Next]_vars, NEW c \in Complaints,
         row'[c].isDeleted, row'[c].deletedByRole # "Student"
  PROVE  /\ row'[c].deletedBy \in Staff
         /\ RoleOf[row'[c].deletedBy] = row'[c].deletedByRole
         /\ c \in InScope[row'[c].deletedBy]
<1>1. CASE row'[c] = row[c]
  BY <1>1 DEF AuditSound
<1>2. ASSUME NEW w \in Calls, call[w].c = c, Writes(w)
      PROVE  /\ row'[c].deletedBy \in Staff
             /\ RoleOf[row'[c].deletedBy] = row'[c].deletedByRole
             /\ c \in InScope[row'[c].deletedBy]
  <2>1. CASE WriteSoftDelete(w)
    <3>1. call[w].by \in Staff /\ c \in InScope[call[w].by]
      BY <1>2, <2>1 DEF WriteSoftDelete, At, CallInv, Placed, Idle, SubmitCall,
         StudentCall, StaffCall
    <3>. QED BY <1>2, <2>1, <3>1, WriteEffect
  <2>2. CASE WriteStudentDelete(w)
    BY <1>2, <2>2, WriteEffect
  <2>3. CASE ~WriteSoftDelete(w) /\ ~WriteStudentDelete(w)
    BY <1>2, <2>3, WriteEffect DEF AuditSound
  <2>. QED BY <2>1, <2>2, <2>3
<1>3. ASSUME NEW w \in Calls, InsertComplaint(w, c)
      PROVE  FALSE
  <2>1. row'[c] = NewRow(call[w].by, call[w].anonymous, call[w].hostel)
    BY <1>3, InsertedRow
  <2>. QED BY <2>1 DEF NewRow
<1>4. CASE WindowExpires(c)
  <2>1. /\ row'[c].isDeleted = row[c].isDeleted
        /\ row'[c].deletedBy = row[c].deletedBy
        /\ row'[c].deletedByRole = row[c].deletedByRole
    BY <1>4 DEF WindowExpires, TypeOK, Row
  <2>. QED BY <2>1 DEF AuditSound
<1>. QED BY <1>1, <1>2, <1>3, <1>4, RowChange

\* The audit trail reports nothing that did not happen and names nobody who was
\* not entitled to it, and a staff deletion always names who did it.
THEOREM AuditSoundTheorem == Spec => []AuditSound
<1>1. Init => AuditSound
  <2>1. SUFFICES ASSUME Init, NEW c \in Complaints
                 PROVE  /\ \A e \in history[c] : EntryBacked(c, e)
                        /\ ~row[c].isDeleted
    BY DEF AuditSound
  <2>2. PICK s \in Students \union {Nobody}, anon \in BOOLEAN : row[c] = NewRow(s, anon, FALSE)
    BY <2>1, InitialRow
  <2>3. row[c].filer = s /\ ~row[c].isDeleted
    BY <2>2 DEF NewRow
  <2>4. ASSUME NEW e \in history[c]
        PROVE  EntryBacked(c, e)
    <3>1. e = Submission(row[c].filer, row[c].anonymous) /\ row[c].filer # Nobody
      BY <2>1, <2>4 DEF Init
    <3>2. e.action = "SUBMITTED" /\ e.actor \notin Staff
      BY <2>3, <3>1, LifecycleAssumption DEF Submission, LifecycleAssumption
    <3>. QED BY <3>2 DEF EntryBacked
  <2>. QED BY <2>3, <2>4
<1>2. TypeOK /\ CallInv /\ AuditSound /\ [Next]_vars => AuditSound'
  <2>1. SUFFICES ASSUME TypeOK, CallInv, AuditSound, [Next]_vars, NEW c \in Complaints
                 PROVE  /\ \A e \in history'[c] : EntryBacked(c, e)'
                        /\ row'[c].isDeleted /\ row'[c].deletedByRole # "Student" =>
                             /\ row'[c].deletedBy \in Staff
                             /\ RoleOf[row'[c].deletedBy] = row'[c].deletedByRole
                             /\ c \in InScope[row'[c].deletedBy]
    BY DEF AuditSound
  <2>. QED BY <2>1, EntryStep, DeletionStep
<1>. QED BY <1>1, <1>2, TypeCorrect, PTL DEF Spec

-----------------------------------------------------------------------------
(* AuditComplete.                                                          *)

\* A call of c about to log either still is, or has logged, or died before it.
LEMMA AboutToLog ==
  ASSUME TypeOK, CallInv, [Next]_vars, NEW c \in Complaints,
         NEW w \in Calls, NEW k \in Call, k = call[w], k.c = c, k.step = "log",
         <<c, "log">> \notin aborted'
  PROVE  \/ call'[w] = k
         \/ /\ Log(w)
            /\ \E e \in history'[c] : /\ e.action = ActionName[k.op]
                                      /\ e.to = k.to
                                      /\ StaffCall(k) => e.actor \in Staff
<1>1. k # Idle
  BY DEF Idle
<1>2. ASSUME Fail(w)
      PROVE  FALSE
  BY <1>2 DEF Fail
<1>3. ASSUME Continue(w)
      PROVE  Log(w)
  BY <1>3 DEF Continue, CheckStudent, InsertComplaint, SubmitRejected, WriteEdit, WriteStudentDelete,
     WriteStatus, WriteSoftDelete, InsertAssignment, MarkAssigned, WritePriority, Notify, At
<1>4. ASSUME Log(w)
      PROVE  \E e \in history'[c] : /\ e.action = ActionName[k.op]
                                    /\ e.to = k.to
                                    /\ StaffCall(k) => e.actor \in Staff
  <2>1. Entry(k) \in history'[c]
    BY <1>4, LoggedEntry
  <2>2. StaffCall(k) => Entry(k).actor \in Staff
    BY DEF StaffCall, Entry, Actor
  <2>. QED BY <2>1, <2>2 DEF Entry
<1>. QED BY <1>1, <1>2, <1>3, <1>4, CallChange

\* The trail of c has the entry of a call of op, or such a call is about to log.
Reported(c, op, to) ==
  \/ Logged(c, ActionName[op], to)
  \/ \E w \in Calls : At(w, op, "log") /\ call[w].c = c /\ call[w].to = to

LEMMA ReportedStays ==
  ASSUME TypeOK, CallInv, [Next]_vars, NEW c \in Complaints, NEW op, NEW to,
         <<c, "log">> \notin aborted', Reported(c, op, to)
  PROVE  Reported(c, op, to)'
<1>1. CASE Logged(c, ActionName[op], to)
  <2>1. Exists(c)
    BY <1>1 DEF Logged, CallInv
  <2>. QED BY <1>1, <2>1, NothingTakenBack DEF Grows, Logged, Reported
<1>2. ASSUME NEW w \in Calls, At(w, op, "log"), call[w].c = c, call[w].to = to
      PROVE  Reported(c, op, to)'
  <2>1. PICK k \in Call : k = call[w]
    BY DEF TypeOK
  <2>2. CASE call'[w] = k
    BY <1>2, <2>1, <2>2 DEF At, Reported
  <2>3. CASE \E e \in history'[c] : e.action = ActionName[k.op] /\ e.to = k.to
    BY <1>2, <2>1, <2>3 DEF At, Reported, Logged
  <2>. QED BY <1>2, <2>1, <2>2, <2>3, AboutToLog DEF At
<1>. QED BY <1>1, <1>2 DEF Reported

\* A call that has just written the row of c is about to log.
LEMMA WriteReported ==
  ASSUME TypeOK, NEW c \in Complaints, NEW w \in Calls, Writes(w),
         NEW k \in Call, k = call[w], k.c = c
  PROVE  /\ Reported(c, k.op, k.to)'
         /\ InFlight(c, {k.op}, "log")'
<1>1. call' = [call EXCEPT ![w].step = "log"]
  BY DEF Writes, WriteEdit, WriteStudentDelete, WriteStatus, WriteSoftDelete, MarkAssigned,
     WritePriority, Goto
<1>2. call'[w].op = k.op /\ call'[w].step = "log" /\ call'[w].c = c /\ call'[w].to = k.to
  BY <1>1 DEF TypeOK, Call
<1>. QED BY <1>2 DEF Reported, InFlight, At

LEMMA StatusReported ==
  ASSUME TypeOK, CallInv, AuditComplete, [Next]_vars, NEW c \in Complaints,
         <<c, "log">> \notin aborted', NEW to, to = row'[c].status, to # "Pending"
  PROVE  Reported(c, "status", to)'
<1>1. CASE row'[c].status = row[c].status
  <2>1. Reported(c, "status", to)
    BY <1>1, AbortedGrows DEF AuditComplete, Audited, Reported, ActionName
  <2>. QED BY <2>1, ReportedStays
<1>2. ASSUME NEW w \in Calls, call[w].c = c, WriteStatus(w)
      PROVE  Reported(c, "status", to)'
  <2>1. PICK k \in Call : k = call[w]
    BY DEF TypeOK
  <2>2. k.op = "status" /\ Writes(w) /\ k.c = c
    BY <1>2, <2>1 DEF Writes, WriteStatus, At
  <2>3. row'[c].status = k.to
    <3>1. row[c] \in Row
      BY DEF TypeOK
    <3>. QED BY <1>2, <2>1, <3>1 DEF WriteStatus, TypeOK, Row
  <2>4. Reported(c, k.op, k.to)'
    BY <2>1, <2>2, WriteReported
  <2>. QED BY <2>2, <2>3, <2>4
<1>3. ASSUME NEW w \in Calls, InsertComplaint(w, c)
      PROVE  FALSE
  <2>1. row'[c] = NewRow(call[w].by, call[w].anonymous, call[w].hostel)
    BY <1>3, InsertedRow
  <2>. QED BY <2>1 DEF NewRow
<1>4. CASE WindowExpires(c)
  <2>1. row'[c].status = row[c].status
    BY <1>4 DEF WindowExpires, TypeOK, Row
  <2>. QED BY <1>1, <2>1
<1>. QED BY <1>1, <1>2, <1>3, <1>4, RowChange, WriteEffect

\* Calls other than update_status carry the default target status.
LEMMA TargetIsDefault ==
  ASSUME CallInv, NEW w \in Calls, call[w].step = "log", call[w].op # "status"
  PROVE  call[w].to = "Pending"
BY DEF CallInv, Idle, Placed, SubmitCall, StudentCall, StaffCall

LEMMA OnItsWay ==
  ASSUME CallInv, NEW c, NEW op \in {"edit", "studentDelete", "softDelete"}
  PROVE  InFlight(c, {op}, "log") \/ Logged(c, ActionName[op], "Pending")
           <=> Reported(c, op, "Pending")
BY TargetIsDefault DEF InFlight, Reported, At

\* The same for the deletion by a student, by staff, and for the edits.
LEMMA ChangeReported ==
  ASSUME TypeOK, CallInv, AuditComplete, [Next]_vars, TypeOK', CallInv',
         NEW c \in Complaints, <<c, "log">> \notin aborted'
  PROVE  /\ row'[c].isDeleted =>
              IF row'[c].deletedByRole = "Student"
                THEN Reported(c, "studentDelete", "Pending")'
                ELSE Reported(c, "softDelete", "Pending")'
         /\ row'[c].revision > 0 => Reported(c, "edit", "Pending")'
<1>1. /\ row[c].isDeleted =>
           IF row[c].deletedByRole = "Student"
             THEN Reported(c, "studentDelete", "Pending")
             ELSE Reported(c, "softDelete", "Pending")
      /\ row[c].revision > 0 => Reported(c, "edit", "Pending")
  BY AbortedGrows, OnItsWay DEF AuditComplete, Audited, ActionName
<1>2. CASE /\ row'[c].isDeleted = row[c].isDeleted
           /\ row'[c].deletedByRole = row[c].deletedByRole
           /\ row'[c].revision = row[c].revision
  BY <1>1, <1>2, ReportedStays
<1>3. ASSUME NEW w \in Calls, call[w].c = c, Writes(w),
             WriteEdit(w) \/ WriteStudentDelete(w) \/ WriteSoftDelete(w)
      PROVE  /\ row'[c].isDeleted =>
                  IF row'[c].deletedByRole = "Student"
                    THEN Reported(c, "studentDelete", "Pending")'
                    ELSE Reported(c, "softDelete", "Pending")'
             /\ row'[c].revision > 0 => Reported(c, "edit", "Pending")'
  <2>1. PICK k \in Call : k = call[w]
    BY DEF TypeOK
  <2>2. k.to = "Pending"
    <3>1. k.op # "status"
      BY <1>3, <2>1 DEF WriteEdit, WriteStudentDelete, WriteSoftDelete, At
    <3>. QED BY <1>3, <2>1, <3>1, Writing DEF StudentCall, StaffCall
  <2>3. Reported(c, k.op, "Pending")'
    BY <1>3, <2>1, <2>2, WriteReported
  <2>4. CASE WriteEdit(w)
    <3>1. /\ k.op = "edit"
          /\ row'[c].isDeleted = row[c].isDeleted
          /\ row'[c].deletedByRole = row[c].deletedByRole
      BY <1>3, <2>1, <2>4, WriteEffect DEF WriteEdit, WriteStudentDelete, WriteSoftDelete, At
    <3>. QED BY <1>1, <2>3, <3>1, ReportedStays
  <2>5. CASE WriteStudentDelete(w)
    <3>1. /\ k.op = "studentDelete"
          /\ row'[c].deletedByRole = "Student"
          /\ row'[c].revision = row[c].revision
      BY <1>3, <2>1, <2>5, WriteEffect DEF WriteEdit, WriteStudentDelete, At
    <3>. QED BY <1>1, <2>3, <3>1, ReportedStays
  <2>6. CASE WriteSoftDelete(w)
    <3>0. k.op = "softDelete" /\ ~WriteEdit(w)
      BY <2>1, <2>6 DEF WriteEdit, WriteSoftDelete, At
    <3>1. /\ k.op = "softDelete"
          /\ row'[c].deletedByRole = RoleOf[k.by]
          /\ row'[c].revision = row[c].revision
      BY <1>3, <2>1, <2>6, <3>0, WriteEffect
    <3>2. k.by \in Staff
      BY <2>1, <3>1 DEF CallInv, Idle, Placed, SubmitCall, StudentCall, StaffCall
    <3>3. RoleOf[k.by] # "Student"
      BY <3>2, LifecycleAssumption DEF LifecycleAssumption, StaffRoles
    <3>. QED BY <1>1, <2>3, <3>1, <3>3, ReportedStays
  <2>. QED BY <1>3, <2>4, <2>5, <2>6
<1>4. ASSUME NEW w \in Calls, call[w].c = c, Writes(w),
             ~(WriteEdit(w) \/ WriteStudentDelete(w) \/ WriteSoftDelete(w))
      PROVE  /\ row'[c].isDeleted = row[c].isDeleted
             /\ row'[c].deletedByRole = row[c].deletedByRole
             /\ row'[c].revision = row[c].revision
  BY <1>4, WriteEffect
<1>5. ASSUME NEW w \in Calls, InsertComplaint(w, c)
      PROVE  ~row'[c].isDeleted /\ ~(row'[c].revision > 0)
  <2>1. row'[c] = NewRow(call[w].by, call[w].anonymous, call[w].hostel)
    BY <1>5, InsertedRow
  <2>. QED BY <2>1 DEF NewRow
<1>6. ASSUME WindowExpires(c)
      PROVE  /\ row'[c].isDeleted = row[c].isDeleted
             /\ row'[c].deletedByRole = row[c].deletedByRole
             /\ row'[c].revision = row[c].revision
  BY <1>6 DEF WindowExpires, TypeOK, Row
<1>. QED BY <1>2, <1>3, <1>4, <1>5, <1>6, RowChange

LEMMA ActionReported ==
  ASSUME TypeOK, CallInv, AuditComplete, [Next]_vars, NEW c \in Complaints,
         <<c, "log">> \notin aborted', row'[c].hasAdminAction
  PROVE  \/ \E e \in history'[c] : e.actor \in Staff
         \/ InFlight(c, {"status", "assign", "priority"}, "log")'
<1>1. ASSUME NEW e \in history[c], e.actor \in Staff
      PROVE  e \in history'[c]
  <2>1. Exists(c)
    BY <1>1 DEF CallInv
  <2>. QED BY <2>1, NothingTakenBack DEF Grows
<1>2. ASSUME NEW w \in Calls, call[w].c = c, call[w].step = "log",
             call[w].op \in {"status", "assign", "priority"}
      PROVE  \/ \E e \in history'[c] : e.actor \in Staff
             \/ InFlight(c, {"status", "assign", "priority"}, "log")'
  <2>1. PICK k \in Call : k = call[w]
    BY DEF TypeOK
  <2>2. StaffCall(k)
    BY <1>2, <2>1 DEF CallInv, Idle, Placed, SubmitCall, StudentCall
  <2>3. CASE call'[w] = k
    BY <1>2, <2>1, <2>3 DEF InFlight
  <2>. QED BY <1>2, <2>1, <2>2, <2>3, AboutToLog
<1>3. CASE row[c].hasAdminAction
  BY <1>1, <1>2, <1>3, AbortedGrows DEF AuditComplete, Audited, InFlight
<1>4. ASSUME NEW w \in Calls, call[w].c = c, Writes(w),
             WriteStatus(w) \/ MarkAssigned(w) \/ WritePriority(w)
      PROVE  InFlight(c, {"status", "assign", "priority"}, "log")'
  <2>1. PICK k \in Call : k = call[w]
    BY DEF TypeOK
  <2>2. k.op \in {"status", "assign", "priority"}
    BY <1>4, <2>1 DEF WriteStatus, MarkAssigned, WritePriority, At
  <2>. QED BY <1>4, <2>1, <2>2, WriteReported DEF InFlight
<1>5. ASSUME NEW w \in Calls, call[w].c = c, Writes(w),
             WriteEdit(w) \/ WriteStudentDelete(w) \/ WriteSoftDelete(w)
      PROVE  row'[c].hasAdminAction = row[c].hasAdminAction
  BY <1>5, WriteEffect
<1>6. ASSUME NEW w \in Calls, InsertComplaint(w, c)
      PROVE  FALSE
  <2>1. row'[c] = NewRow(call[w].by, call[w].anonymous, call[w].hostel)
    BY <1>6, InsertedRow
  <2>. QED BY <2>1 DEF NewRow
<1>7. ASSUME WindowExpires(c)
      PROVE  row'[c].hasAdminAction = row[c].hasAdminAction
  BY <1>7 DEF WindowExpires, TypeOK, Row
<1>. QED BY <1>3, <1>4, <1>5, <1>6, <1>7, RowChange DEF Writes

\* Only an exception between a write and its history insert can lose an entry:
\* every change of a complaint whose calls did not die there is in its trail, or
\* its entry is the next step of a call in flight.
THEOREM AuditCompleteTheorem == Spec => []AuditComplete
<1>1. Init => AuditComplete
  <2>1. SUFFICES ASSUME Init, NEW c \in Complaints
                 PROVE  /\ row[c].status = "Pending"
                        /\ ~row[c].isDeleted
                        /\ ~(row[c].revision > 0)
                        /\ ~row[c].hasAdminAction
    BY DEF AuditComplete, Audited
  <2>2. PICK s \in Students \union {Nobody}, anon \in BOOLEAN : row[c] = NewRow(s, anon, FALSE)
    BY <2>1, InitialRow
  <2>. QED BY <2>2 DEF NewRow
<1>2. TypeOK /\ CallInv /\ (TypeOK /\ CallInv)' /\ AuditComplete /\ [Next]_vars
        => AuditComplete'
  <2>1. SUFFICES ASSUME TypeOK, CallInv, TypeOK', CallInv', AuditComplete, [Next]_vars,
                        NEW c \in Complaints, <<c, "log">> \notin aborted'
                 PROVE  Audited(c)'
    BY DEF AuditComplete
  <2>2. row'[c].status # "Pending" =>
          \/ Logged(c, "STATUS_CHANGED", row[c].status)'
          \/ \E w \in Calls : /\ At(w, "status", "log")'
                              /\ call'[w].c = c
                              /\ call'[w].to = row'[c].status
    <3>1. PICK to : to = row'[c].status
      OBVIOUS
    <3>2. to # "Pending" => Reported(c, "status", to)'
      BY <2>1, <3>1, StatusReported
    <3>. QED BY <3>1, <3>2 DEF Reported, ActionName, Logged
  <2>3. \A op \in {"edit", "studentDelete", "softDelete"} :
          Reported(c, op, "Pending")' =>
            InFlight(c, {op}, "log")' \/ Logged(c, ActionName[op], "Pending")'
    BY <2>1 DEF Reported, InFlight, At
  <2>4. row'[c].isDeleted =>
          IF row'[c].deletedByRole = "Student"
            THEN \/ Logged(c, "DELETED_BY_STUDENT", "Pending")'
                 \/ InFlight(c, {"studentDelete"}, "log")'
            ELSE \/ Logged(c, "SOFT_DELETED", "Pending")'
                 \/ InFlight(c, {"softDelete"}, "log")'
    BY <2>1, <2>3, ChangeReported DEF ActionName
  <2>5. row'[c].revision > 0 =>
          Logged(c, "EDITED", "Pending")' \/ InFlight(c, {"edit"}, "log")'
    BY <2>1, <2>3, ChangeReported DEF ActionName
  <2>6. row'[c].hasAdminAction =>
          \/ \E e \in history'[c] : e.actor \in Staff
          \/ InFlight(c, {"status", "assign", "priority"}, "log")'
    BY <2>1, ActionReported
  <2>. QED BY <2>2, <2>4, <2>5, <2>6 DEF Audited
<1>. QED BY <1>1, <1>2, TypeCorrect, PTL DEF Spec
=============================================================================
