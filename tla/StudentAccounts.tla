-------------------------- MODULE StudentAccounts --------------------------
(***************************************************************************)
(* What the services keep of a student: the roll-number pool               *)
(* (services/roll_number_service.py), the row of `students`                *)
(* (services/auth_service.py, services/account_service.py) and the hostel  *)
(* requests (services/hostel_service.py), under concurrent calls.          *)
(*                                                                         *)
(* Each fact is decided on in one request and written in another, and two  *)
(* are kept twice: that a roll number has a student (is_registered), and   *)
(* that a student lives in the hostel (is_hostel_approved).  A call that   *)
(* raises leaves what it has written.                                      *)
(*                                                                         *)
(* A student is named by the roll number, which is unique in both tables.  *)
(* Passwords and security answers are "right" or "wrong"; a password is    *)
(* the student's own or the one a coordinator gave out.                    *)
(***************************************************************************)
EXTENDS Naturals, Sequences, FiniteSets

CONSTANTS
  Rolls,
  FirstYears,   \* the rolls whose students are in their first year
  Departments,
  Calls,        \* service calls that can be in flight at once
  NoDept,       \* not in the pool; no department
  NoRoll,
  MaxFailed,    \* MAX_FAILED_ATTEMPTS
  ChunkSize,    \* rows of an INSERT of an import
  Seeds,        \* tables a behaviour may start from
  MaxRequests,  \* bound: hostel requests of a student
  MaxCalls      \* bound: service calls begun in a behaviour

Row == [dept: Departments \union {NoDept},   \* NoDept: no such row
        locked: BOOLEAN, attempts: Nat, mustChange: BOOLEAN,
        password: {"own", "temporary"}, isHostel: BOOLEAN, approved: BOOLEAN]

NoRow == [dept |-> NoDept, locked |-> FALSE, attempts |-> 0, mustChange |-> FALSE,
          password |-> "own", isHostel |-> FALSE, approved |-> FALSE]

Status == {"Pending", "Approved", "Denied"}

Latest(s) == IF s = <<>> THEN "none" ELSE s[Len(s)]

\* Both copies of a fact agree in such a table: calls one after the other.
Orderly(seed) ==
  \A r \in Rolls :
    /\ seed.student[r].dept # NoDept => seed.pool[r] = seed.student[r].dept
    /\ r \in seed.registered <=> seed.student[r].dept # NoDept
    /\ ~seed.student[r].locked /\ seed.student[r].attempts = 0
    /\ seed.student[r].password = "temporary" => seed.student[r].mustChange
    /\ seed.student[r].approved <=> Latest(seed.requests[r]) = "Approved"
    /\ seed.requests[r] # <<>> => seed.student[r].dept # NoDept /\ seed.student[r].isHostel

ASSUME StudentsAssumption ==
  /\ FirstYears \subseteq Rolls
  /\ NoDept \notin Departments
  /\ NoRoll \notin Rolls
  /\ MaxFailed \in Nat \ {0}
  /\ ChunkSize \in Nat \ {0}
  /\ MaxCalls \in Nat
  /\ \A seed \in Seeds :
       /\ seed.pool \in [Rolls -> Departments \union {NoDept}]
       /\ seed.registered \subseteq Rolls
       /\ seed.student \in [Rolls -> Row]
       /\ seed.requests \in [Rolls -> Seq(Status)]
       /\ Orderly(seed)

VARIABLES
  pool,       \* roll_number_pool: the department a roll number was added for
  registered, \* roll_number_pool.is_registered
  student,    \* table students
  requests,   \* hostel_requests of each student, oldest first
  call,       \* the calls in flight
  wrong,      \* wrong passwords typed since attempts was last zeroed (ghost)
  raced,      \* counters zeroed while an attempt was still to be written (ghost)
  left,       \* accounts their students deactivated and nobody reset (ghost)
  halfDone,   \* students whose registration or hostel request ended between its
              \* two writes (ghost)
  contested,  \* students whose last hostel calls overlapped, ended half-way or
              \* reviewed an old request (ghost)
  begun       \* how many calls have begun (bounded by MaxCalls)

tables == <<pool, registered, student, requests>>
ghosts == <<wrong, raced, left, halfDone, contested>>
studentVars == <<tables, call, ghosts, begun>>

Idle == [op |-> "none", step |-> "idle", r |-> NoRoll, dept |-> NoDept, rows |-> {},
         n |-> 0, verdict |-> "Pending", alone |-> TRUE]

Call == [op: {"none", "add", "import", "register", "login", "change", "request", "review",
              "feedback", "edit"},
         step: {"idle", "insert", "mark", "request", "fail", "clear", "write", "flag", "store"},
         r: Rolls \union {NoRoll}, dept: Departments \union {NoDept}, rows: SUBSET Rolls,
         n: Nat, verdict: Status,
         alone: BOOLEAN]   \* no other hostel call of the student has overlapped

StudentsTypeOK ==
  /\ pool \in [Rolls -> Departments \union {NoDept}]
  /\ registered \subseteq Rolls
  /\ student \in [Rolls -> Row]
  /\ requests \in [Rolls -> Seq(Status)]
  /\ call \in [Calls -> Call]
  /\ wrong \in [Rolls -> Nat]
  /\ raced \subseteq Rolls
  /\ left \subseteq Rolls
  /\ halfDone \subseteq Rolls
  /\ contested \subseteq Rolls
  /\ begun \in Nat

Exists(r) == student[r].dept # NoDept

\* A call that writes to the hostel requests of r; n = 1 in a registration that
\* asks for access to the hostel.
HostelCall(k, r) ==
  /\ k.r = r
  /\ \/ k.op \in {"request", "review"}
     \/ k.op = "register" /\ k.n = 1

\* A call begins.
Start(w, k) ==
  /\ call[w] = Idle
  /\ begun < MaxCalls
  /\ call' = [call EXCEPT ![w] = k]
  /\ begun' = begun + 1

StartHostel(w, k) ==
  /\ call[w] = Idle
  /\ begun < MaxCalls
  /\ call' = [v \in Calls |->
                IF v = w
                THEN [k EXCEPT !.alone = \A u \in Calls : ~HostelCall(call[u], k.r)]
                ELSE [call[v] EXCEPT !.alone = @ /\ ~HostelCall(call[v], k.r)]]
  /\ begun' = begun + 1

At(w, op, step) == call[w].op = op /\ call[w].step = step

Goto(w, step) == call' = [call EXCEPT ![w].step = step]

Return(w) == call' = [call EXCEPT ![w] = Idle]

StudentsInit ==
  /\ \E seed \in Seeds :
       /\ pool = seed.pool
       /\ registered = seed.registered
       /\ student = seed.student
       /\ requests = seed.requests
  /\ call = [w \in Calls |-> Idle]
  /\ wrong = [r \in Rolls |-> 0]
  /\ raced = {}
  /\ left = {}
  /\ halfDone = {}
  /\ contested = {}
  /\ begun = 0
-----------------------------------------------------------------------------
(* The pool: add_single_roll_number, import_excel_roll_numbers             *)

BeginAdd(w, dept, r) ==
  /\ pool[r] = NoDept
  /\ Start(w, [Idle EXCEPT !.op = "add", !.step = "insert", !.dept = dept, !.rows = {r}])
  /\ UNCHANGED <<tables, ghosts>>

\* The rows that are valid, of this department by their own column, and not in
\* the pool when the import looks.
BeginImport(w, dept, file) ==
  LET new == {r \in file : pool[r] = NoDept} IN
  /\ new # {}
  /\ Start(w, [Idle EXCEPT !.op = "import", !.step = "insert", !.dept = dept, !.rows = new])
  /\ UNCHANGED <<tables, ghosts>>

Added(rows, dept) == [r \in Rolls |-> IF r \in rows THEN dept ELSE pool[r]]

Remaining(w, rows) ==
  call' = [call EXCEPT ![w] = IF call[w].rows = rows THEN Idle
                              ELSE [call[w] EXCEPT !.rows = call[w].rows \ rows]]

\* Mutant: a row that is there already is overwritten.
InsertRowsOver(w) ==
  /\ call[w].op \in {"add", "import"}
  /\ \E rows \in SUBSET call[w].rows :
       /\ rows = call[w].rows \/ Cardinality(rows) = ChunkSize
       /\ Cardinality(rows) <= ChunkSize
       /\ pool' = Added(rows, call[w].dept)
       /\ Remaining(w, rows)
  /\ UNCHANGED <<registered, student, requests, ghosts, begun>>

\* An INSERT of several rows is all or nothing: one roll number that has been
\* added meanwhile keeps out the others of its chunk.
InsertRows(w) ==
  /\ call[w].op \in {"add", "import"}
  /\ \E rows \in SUBSET call[w].rows :
       /\ rows = call[w].rows \/ Cardinality(rows) = ChunkSize
       /\ Cardinality(rows) <= ChunkSize
       /\ pool' = IF \A r \in rows : pool[r] = NoDept THEN Added(rows, call[w].dept) ELSE pool
       /\ Remaining(w, rows)
  /\ UNCHANGED <<registered, student, requests, ghosts, begun>>
-----------------------------------------------------------------------------
(* register_student                                                        *)

\* verify_roll_number_eligibility
Eligible(r, dept) == pool[r] = dept /\ r \notin registered

Registration(dept, r, hostel) ==
  [Idle EXCEPT !.op = "register", !.step = "insert", !.r = r, !.dept = dept, !.n = hostel]

BeginRegister(w, dept, r, hostel) ==
  /\ Eligible(r, dept)
  /\ IF hostel = 1 THEN StartHostel(w, Registration(dept, r, hostel))
     ELSE Start(w, Registration(dept, r, hostel))
  /\ UNCHANGED <<tables, ghosts>>

InsertStudent(w) ==
  LET k == call[w] IN
  /\ At(w, "register", "insert")
  /\ ~Exists(k.r)
  /\ student' = [student EXCEPT ![k.r] = [NoRow EXCEPT !.dept = k.dept, !.isHostel = k.n = 1]]
  /\ Goto(w, "mark")
  /\ UNCHANGED <<pool, registered, requests, ghosts, begun>>

\* The unique index on the roll number.
InsertRejected(w) ==
  /\ At(w, "register", "insert")
  /\ Exists(call[w].r)
  /\ Return(w)
  /\ UNCHANGED <<tables, ghosts, begun>>

MarkRegistered(w) ==
  /\ At(w, "register", "mark")
  /\ registered' = registered \union {call[w].r}
  /\ IF call[w].n = 1 THEN Goto(w, "request") ELSE Return(w)
  /\ UNCHANGED <<pool, student, requests, ghosts, begun>>
-----------------------------------------------------------------------------
(* Hostel requests                                                         *)

\* A hostel call ends.  When it was alone with its student and about the latest
\* request, both copies are what it wrote.
Settle(w, latest) ==
  /\ contested' = IF call[w].alone /\ latest THEN contested \ {call[w].r}
                  ELSE contested \union {call[w].r}
  /\ UNCHANGED <<wrong, raced, left, halfDone>>

\* The request of a registration: it looks neither for another one nor at the
\* flag, which a student who has signed in meanwhile may have changed.
RequestAtRegistration(w) ==
  LET r == call[w].r IN
  /\ At(w, "register", "request")
  /\ Len(requests[r]) < MaxRequests
  /\ requests' = [requests EXCEPT ![r] = Append(@, "Pending")]
  /\ Settle(w, TRUE)
  /\ Return(w)
  /\ UNCHANGED <<pool, registered, student, begun>>

\* submit_hostel_request
BeginRequest(w, r) ==
  /\ Exists(r)
  /\ Latest(requests[r]) # "Pending"
  /\ StartHostel(w, [Idle EXCEPT !.op = "request", !.step = "insert", !.r = r])
  /\ UNCHANGED <<tables, ghosts>>

InsertRequest(w) ==
  LET r == call[w].r IN
  /\ At(w, "request", "insert")
  /\ Len(requests[r]) < MaxRequests
  /\ requests' = [requests EXCEPT ![r] = Append(@, "Pending")]
  /\ Goto(w, "flag")
  /\ UNCHANGED <<pool, registered, student, ghosts, begun>>

FlagRequested(w) ==
  LET r == call[w].r IN
  /\ At(w, "request", "flag")
  /\ student' = [student EXCEPT ![r].isHostel = TRUE, ![r].approved = FALSE]
  /\ Settle(w, TRUE)
  /\ Return(w)
  /\ UNCHANGED <<pool, registered, requests, begun>>

\* review_hostel_request: the status of the request is not looked at.
BeginReview(w, r, n, verdict) ==
  /\ StartHostel(w, [Idle EXCEPT !.op = "review", !.step = "write", !.r = r, !.n = n,
                                 !.verdict = verdict])
  /\ UNCHANGED <<tables, ghosts>>

WriteReview(w) ==
  LET k == call[w] IN
  /\ At(w, "review", "write")
  /\ requests' = [requests EXCEPT ![k.r][k.n] = k.verdict]
  /\ Goto(w, "flag")
  /\ UNCHANGED <<pool, registered, student, ghosts, begun>>

\* Mutant: a denial leaves the flag of the student.
FlagReviewedApprovalOnly(w) ==
  LET k == call[w] IN
  /\ At(w, "review", "flag")
  /\ student' = [student EXCEPT ![k.r].approved = @ \/ k.verdict = "Approved"]
  /\ Settle(w, k.n = Len(requests[k.r]))
  /\ Return(w)
  /\ UNCHANGED <<pool, registered, requests, begun>>

FlagReviewed(w) ==
  LET k == call[w] IN
  /\ At(w, "review", "flag")
  /\ student' = [student EXCEPT ![k.r].approved = k.verdict = "Approved"]
  /\ Settle(w, k.n = Len(requests[k.r]))
  /\ Return(w)
  /\ UNCHANGED <<pool, registered, requests, begun>>
-----------------------------------------------------------------------------
(* Passwords and the lock                                                  *)

Counting(r) == \E w \in Calls : At(w, "login", "fail") /\ call[w].r = r

\* attempts is zeroed: the ghosts follow.
Forgive(r, unlocked) ==
  /\ wrong' = [wrong EXCEPT ![r] = 0]
  /\ raced' = IF Counting(r) \/ ~unlocked THEN raced \union {r} ELSE raced \ {r}
  /\ left' = IF unlocked THEN left \ {r} ELSE left
  /\ UNCHANGED <<halfDone, contested>>

BeginWrongLogin(w, r) ==
  /\ Exists(r)
  /\ ~student[r].locked
  /\ Start(w, [Idle EXCEPT !.op = "login", !.step = "fail", !.r = r,
                           !.n = student[r].attempts + 1])
  /\ wrong' = [wrong EXCEPT ![r] = @ + 1]
  /\ UNCHANGED <<tables, raced, left, halfDone, contested>>

\* Mutant: the last attempt too many is one less.
WriteFailEarly(w) ==
  LET k == call[w] IN
  /\ At(w, "login", "fail")
  /\ student' = [student EXCEPT ![k.r].attempts = k.n,
                                ![k.r].locked = @ \/ k.n + 1 >= MaxFailed]
  /\ Return(w)
  /\ UNCHANGED <<pool, registered, requests, ghosts, begun>>

WriteFail(w) ==
  LET k == call[w] IN
  /\ At(w, "login", "fail")
  /\ student' = [student EXCEPT ![k.r].attempts = k.n,
                                ![k.r].locked = @ \/ k.n >= MaxFailed]
  /\ Return(w)
  /\ UNCHANGED <<pool, registered, requests, ghosts, begun>>

\* With nothing to zero, a right password writes nothing.
BeginRightLogin(w, r) ==
  /\ Exists(r)
  /\ ~student[r].locked
  /\ student[r].attempts > 0
  /\ Start(w, [Idle EXCEPT !.op = "login", !.step = "clear", !.r = r])
  /\ UNCHANGED <<tables, ghosts>>

\* An account locked meanwhile stays locked.
WriteClear(w) ==
  LET r == call[w].r IN
  /\ At(w, "login", "clear")
  /\ student' = [student EXCEPT ![r].attempts = 0]
  /\ Forgive(r, ~student[r].locked)
  /\ Return(w)
  /\ UNCHANGED <<pool, registered, requests, begun>>

\* A call whose question is about what never changes: the security answer, the
\* department, the year.
AtOnce == begun < MaxCalls /\ begun' = begun + 1 /\ UNCHANGED call

\* reset_student_password, by the security answer; the demand for a new
\* password that a coordinator made stands.
ForgotPassword(r) ==
  /\ AtOnce
  /\ Exists(r)
  /\ student' = [student EXCEPT ![r].password = "own", ![r].locked = FALSE,
                                ![r].attempts = 0]
  /\ Forgive(r, TRUE)
  /\ UNCHANGED <<pool, registered, requests>>

\* reset_student_password_by_staff
ResetByCoordinator(dept, r) ==
  /\ AtOnce
  /\ student[r].dept = dept
  /\ r \notin FirstYears
  /\ student' = [student EXCEPT ![r].password = "temporary", ![r].mustChange = TRUE,
                                ![r].locked = FALSE, ![r].attempts = 0]
  /\ Forgive(r, TRUE)
  /\ UNCHANGED <<pool, registered, requests>>

\* deactivate_student_account: a lock like the other.
Deactivate(r) ==
  /\ AtOnce
  /\ Exists(r)
  /\ student' = [student EXCEPT ![r].locked = TRUE]
  /\ left' = left \union {r}
  /\ UNCHANGED <<pool, registered, requests, wrong, raced, halfDone, contested>>

\* change_own_password: the current password is verified, then the row written,
\* whatever a coordinator has written in between.
BeginChange(w, r) ==
  /\ Exists(r)
  /\ Start(w, [Idle EXCEPT !.op = "change", !.step = "write", !.r = r])
  /\ UNCHANGED <<tables, ghosts>>

WriteChange(w) ==
  LET r == call[w].r IN
  /\ At(w, "change", "write")
  /\ student' = [student EXCEPT ![r].password = "own", ![r].mustChange = FALSE]
  /\ Return(w)
  /\ UNCHANGED <<pool, registered, requests, ghosts, begun>>
-----------------------------------------------------------------------------
\* A request raises, or the thread dies: what is written stays written.
HalfWay(w) == call[w].op \in {"request", "review"} /\ call[w].step = "flag"

Fail(w) ==
  LET k == call[w] IN
  /\ k # Idle
  /\ halfDone' = IF At(w, "register", "mark") \/ At(w, "request", "flag")
                 THEN halfDone \union {k.r} ELSE halfDone
  /\ contested' = IF ~k.alone \/ HalfWay(w) THEN contested \union {k.r} ELSE contested
  /\ Return(w)
  /\ UNCHANGED <<tables, wrong, raced, left, begun>>

StudentBegins(w) ==
  \/ \E dept \in Departments :
       \/ \E r \in Rolls : BeginAdd(w, dept, r)
       \/ \E file \in SUBSET Rolls : BeginImport(w, dept, file)
       \/ \E r \in Rolls, hostel \in {0, 1} : BeginRegister(w, dept, r, hostel)
  \/ \E r \in Rolls :
       \/ BeginRequest(w, r)
       \/ \E n \in 1..Len(requests[r]), verdict \in {"Approved", "Denied"} :
            BeginReview(w, r, n, verdict)
       \/ BeginWrongLogin(w, r) \/ BeginRightLogin(w, r) \/ BeginChange(w, r)

StudentContinues(w) ==
  \/ InsertRows(w)
  \/ InsertStudent(w) \/ InsertRejected(w) \/ MarkRegistered(w)
  \/ RequestAtRegistration(w)
  \/ InsertRequest(w) \/ FlagRequested(w)
  \/ WriteReview(w) \/ FlagReviewed(w)
  \/ WriteFail(w) \/ WriteClear(w) \/ WriteChange(w)
  \/ Fail(w)

StudentAtOnce ==
  \E r \in Rolls :
    \/ ForgotPassword(r) \/ Deactivate(r)
    \/ \E dept \in Departments : ResetByCoordinator(dept, r)

StudentsNext ==
  \/ \E w \in Calls : StudentBegins(w) \/ StudentContinues(w)
  \/ StudentAtOnce

StudentsSpec == StudentsInit /\ [][StudentsNext]_studentVars
-----------------------------------------------------------------------------
\* Every student was registered from the pool of their department, which does
\* not change afterwards, and the pool says so as soon as the registration is
\* over, unless it ended between the two writes; a roll number is never marked
\* without a student.  (register_student against the additions and imports)
RegistrationMarked ==
  /\ \A r \in Rolls : r \in registered => Exists(r)
  /\ \A r \in Rolls : Exists(r) =>
       /\ pool[r] = student[r].dept
       /\ \/ r \in registered \union halfDone
          \/ \E w \in Calls : At(w, "register", "mark") /\ call[w].r = r

Settled(r) == \A w \in Calls : ~HostelCall(call[w], r)

\* The flag that admits complaints about the hostel is what the latest request
\* says, unless hostel calls of the student overlapped, one ended half-way or
\* an old request was reviewed; the next undisturbed call mends it.  Whoever is
\* approved also counts as living in the hostel, unless the request ended between
\* its two writes: no review mends that.
\* (submit_hostel_request, review_hostel_request, register_student)
HostelAgrees ==
  \A r \in Rolls \ contested :
    Settled(r) => /\ student[r].approved <=> Latest(requests[r]) = "Approved"
                  /\ student[r].approved => student[r].isHostel \/ r \in halfDone

\* A student is locked by MaxFailed wrong passwords typed since the counter was
\* last zeroed, or by deactivating the account, whatever the interleaving of
\* logins and resets, unless a zeroing met an attempt still to be written.
\* (login_student, the resets, deactivate_student_account)
LockEarned ==
  \A r \in Rolls :
    student[r].locked /\ r \notin raced \union left => wrong[r] >= MaxFailed
=============================================================================
