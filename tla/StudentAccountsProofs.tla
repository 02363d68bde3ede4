----------------------- MODULE StudentAccountsProofs -----------------------
(* What StudentAccounts and StudentFeedback promise, for any number of     *)
(* students, departments and concurrent calls.                             *)
EXTENDS StudentFeedback, SequenceTheorems, TLAPS

-----------------------------------------------------------------------------
(* The inductive invariant.                                                *)

\* What a call in flight was told stays true until it has written.
CallInv(w) ==
  LET k == call[w] IN
  /\ k.op \notin {"none", "add", "import"} => k.r \in Rolls
  /\ k.op \in {"none", "add", "import"} => k.alone
  /\ k.op \in {"add", "import", "register"} => k.dept \in Departments
  /\ k.op = "request" => Exists(k.r)
  /\ k.op = "review" => k.n \in 1..Len(requests[k.r])
  /\ k.op = "register" =>
       /\ k.n \in {0, 1}
       /\ k.step \in {"insert", "mark", "request"}
       /\ pool[k.r] = k.dept
       /\ k.step # "insert" => Exists(k.r) /\ (k.n = 1 => student[k.r].isHostel)
       /\ k.step = "request" => k.n = 1

\* The counter, and a failed login that is to write it, never exceed the wrong
\* passwords typed, unless a zeroing has met such a login.
LockInv ==
  \A r \in Rolls \ raced :
    /\ student[r].attempts <= wrong[r]
    /\ student[r].locked => r \in left \/ wrong[r] >= MaxFailed
    /\ \A w \in Calls : At(w, "login", "fail") /\ call[w].r = r => call[w].n <= wrong[r]

Agree(r) == student[r].approved <=> Latest(requests[r]) = "Approved"

\* A hostel call between its two writes.
Dirty(w, r) == HalfWay(w) /\ call[w].r = r

RowInv(r) ==
  /\ ~Exists(r) => requests[r] = <<>> /\ ~student[r].approved
  /\ requests[r] # <<>> => \/ student[r].isHostel \/ r \in halfDone
                           \/ \E w \in Calls : At(w, "request", "flag") /\ call[w].r = r
  /\ r \in contested \/ Agree(r) \/ \E w \in Calls : Dirty(w, r)

\* A hostel call that no other has overlapped finds what it left.
AloneInv(w) ==
  LET k == call[w] IN
  k.alone /\ HostelCall(k, k.r) =>
    /\ \A v \in Calls \ {w} : ~HostelCall(call[v], k.r)
    /\ At(w, "request", "flag") => Latest(requests[k.r]) = "Pending"
    /\ At(w, "review", "flag") /\ k.n = Len(requests[k.r]) => Latest(requests[k.r]) = k.verdict
    /\ k.op = "register" /\ k.step # "insert" => ~student[k.r].approved

StudentsInv ==
  /\ StudentsTypeOK
  /\ \A w \in Calls : CallInv(w)
  /\ RegistrationMarked
  /\ LockInv
  /\ \A r \in Rolls : RowInv(r)
  /\ \A w \in Calls : AloneInv(w)
-----------------------------------------------------------------------------
(* Types.                                                                  *)

LEMMA IdleIsCall == Idle \in Call /\ Idle.op = "none" /\ Idle.step = "idle" /\ Idle.alone = TRUE
  BY StudentsAssumption DEF Idle, Call, Status

\* How a call moves: the others stay as they are.
LEMMA Moved ==
  ASSUME call \in [Calls -> Call], NEW w \in Calls, NEW k \in Call,
         call' = [call EXCEPT ![w] = k]
  PROVE  /\ call' \in [Calls -> Call]
         /\ call'[w] = k
         /\ \A v \in Calls \ {w} : call'[v] = call[v]
  OBVIOUS

LEMMA Returned ==
  ASSUME call \in [Calls -> Call], NEW w \in Calls, Return(w)
  PROVE  /\ call' \in [Calls -> Call]
         /\ call'[w].op = "none" /\ call'[w].step = "idle" /\ call'[w].alone
         /\ \A v \in Calls \ {w} : call'[v] = call[v]
  BY IdleIsCall, Moved DEF Return

LEMMA Went ==
  ASSUME call \in [Calls -> Call], NEW w \in Calls,
         NEW step \in {"mark", "request", "flag", "store"}, Goto(w, step)
  PROVE  /\ call' \in [Calls -> Call]
         /\ call'[w].step = step
         /\ call'[w].op = call[w].op /\ call'[w].r = call[w].r
         /\ call'[w].dept = call[w].dept /\ call'[w].n = call[w].n
         /\ call'[w].verdict = call[w].verdict /\ call'[w].alone = call[w].alone
         /\ \A v \in Calls \ {w} : call'[v] = call[v]
<1>1. [call[w] EXCEPT !.step = step] \in Call
  BY DEF Call
<1>2. call' = [call EXCEPT ![w] = [call[w] EXCEPT !.step = step]]
  BY DEF Goto
<1>3. call[w] \in Call
  OBVIOUS
<1>. QED BY <1>1, <1>2, <1>3, Moved DEF Call

LEMMA Started ==
  ASSUME call \in [Calls -> Call], begun \in Nat, NEW w \in Calls, NEW k \in Call, Start(w, k)
  PROVE  /\ call' \in [Calls -> Call] /\ begun' \in Nat
         /\ call'[w] = k
         /\ call[w].op = "none" /\ call[w].step = "idle"
         /\ \A v \in Calls \ {w} : call'[v] = call[v]
  BY IdleIsCall, Moved DEF Start

LEMMA HostelStarted ==
  ASSUME call \in [Calls -> Call], begun \in Nat, NEW w \in Calls, NEW k \in Call,
         StartHostel(w, k)
  PROVE  /\ call' \in [Calls -> Call] /\ begun' \in Nat
         /\ call[w].op = "none" /\ call[w].step = "idle"
         /\ call'[w].op = k.op /\ call'[w].step = k.step /\ call'[w].r = k.r
         /\ call'[w].dept = k.dept /\ call'[w].n = k.n
         /\ call'[w].alone => \A u \in Calls : ~HostelCall(call[u], k.r)
         /\ \A v \in Calls \ {w} :
              /\ call'[v].op = call[v].op /\ call'[v].step = call[v].step
              /\ call'[v].r = call[v].r /\ call'[v].dept = call[v].dept
              /\ call'[v].n = call[v].n /\ call'[v].verdict = call[v].verdict
              /\ call'[v].alone => call[v].alone /\ ~HostelCall(call[v], k.r)
              /\ call[v].alone => call'[v].alone \/ HostelCall(call[v], k.r)
<1>1. call[w].op = "none" /\ call[w].step = "idle" /\ begun' \in Nat
  BY IdleIsCall DEF StartHostel
<1>2. \A b \in BOOLEAN : [k EXCEPT !.alone = b] \in Call
  BY DEF Call
<1>3. \A v \in Calls, b \in BOOLEAN : [call[v] EXCEPT !.alone = b] \in Call
  BY DEF Call
<1>4. call'[w] = [k EXCEPT !.alone = \A u \in Calls : ~HostelCall(call[u], k.r)]
  BY DEF StartHostel
<1>5. \A v \in Calls \ {w} :
        call'[v] = [call[v] EXCEPT !.alone = call[v].alone /\ ~HostelCall(call[v], k.r)]
  BY DEF StartHostel, Call
<1>6. DOMAIN call' = Calls /\ call' = [v \in Calls |-> call'[v]]
  BY DEF StartHostel
<1>7. \A v \in Calls : call'[v] \in Call
  <2>. DEFINE quiet == \A u \in Calls : ~HostelCall(call[u], k.r)
  <2>1. quiet \in BOOLEAN
    OBVIOUS
  <2>2. call'[w] \in Call
    BY <1>2, <1>4, <2>1
  <2>3. ASSUME NEW v \in Calls \ {w}
        PROVE  call'[v] \in Call
    BY <1>3, <1>5
  <2>. QED BY <2>2, <2>3
<1>8. call' \in [Calls -> Call]
  BY <1>6, <1>7
<1>. QED BY <1>1, <1>4, <1>5, <1>8 DEF Call

LEMMA Appended ==
  ASSUME NEW s \in Seq(Status)
  PROVE  /\ Append(s, "Pending") \in Seq(Status)
         /\ Len(Append(s, "Pending")) = Len(s) + 1
         /\ Append(s, "Pending") # <<>>
         /\ Latest(Append(s, "Pending")) = "Pending"
  BY DEF Latest, Status

LEMMA Reviewed ==
  ASSUME NEW s \in Seq(Status), NEW n \in 1..Len(s), NEW verdict \in Status
  PROVE  /\ [s EXCEPT ![n] = verdict] \in Seq(Status)
         /\ Len([s EXCEPT ![n] = verdict]) = Len(s)
         /\ s # <<>> /\ [s EXCEPT ![n] = verdict] # <<>>
         /\ n = Len(s) => Latest([s EXCEPT ![n] = verdict]) = verdict
<1>1. Len(s) \in Nat /\ Len(s) # 0
  OBVIOUS
<1>2. /\ [s EXCEPT ![n] = verdict] \in Seq(Status)
      /\ Len([s EXCEPT ![n] = verdict]) = Len(s)
  BY ExceptSeq
<1>3. s # <<>> /\ [s EXCEPT ![n] = verdict] # <<>>
  BY <1>1, <1>2
<1>4. \A i \in 1..Len(s) : [s EXCEPT ![n] = verdict][i] = IF i = n THEN verdict ELSE s[i]
  BY ExceptSeq
<1>. QED BY <1>1, <1>2, <1>3, <1>4 DEF Latest
-----------------------------------------------------------------------------
(* What a step may leave alone.                                            *)

\* The call is where it was; it may have been overlapped.
Same(v) ==
  /\ call'[v].op = call[v].op /\ call'[v].step = call[v].step
  /\ call'[v].r = call[v].r /\ call'[v].dept = call[v].dept
  /\ call'[v].n = call[v].n /\ call'[v].verdict = call[v].verdict
  /\ call'[v].alone => call[v].alone
  /\ call[v].op \in {"none", "add", "import"} /\ call[v].alone => call'[v].alone

LEMMA SameIfEqual ==
  ASSUME NEW v \in Calls, call'[v] = call[v]
  PROVE  Same(v)
  BY DEF Same

\* Nothing is taken back from the tables.
TablesGrow ==
  /\ registered \subseteq registered'
  /\ \A r \in Rolls :
       /\ pool[r] # NoDept => pool'[r] = pool[r]
       /\ Len(requests'[r]) \in Nat /\ Len(requests[r]) <= Len(requests'[r])
       /\ Exists(r) => /\ student'[r].dept = student[r].dept
                       /\ student[r].isHostel => student'[r].isHostel

LEMMA TablesStay ==
  ASSUME StudentsInv, UNCHANGED tables
  PROVE  TablesGrow
<1>1. \A r \in Rolls : Len(requests[r]) \in Nat
  BY DEF StudentsInv, StudentsTypeOK
<1>. QED BY <1>1 DEF TablesGrow, tables

LEMMA CallsKept ==
  ASSUME StudentsInv, TablesGrow, \A v \in Calls : Same(v) \/ CallInv(v)'
  PROVE  \A v \in Calls : CallInv(v)'
<1>. SUFFICES ASSUME NEW v \in Calls, Same(v)
              PROVE  CallInv(v)'
  OBVIOUS
<1>1. CallInv(v) /\ call[v] \in Call
  BY DEF StudentsInv, StudentsTypeOK
<1>2. call[v].op = "review" => Len(requests[call[v].r]) \in Nat
  BY <1>1 DEF CallInv, StudentsInv, StudentsTypeOK
<1>3. call[v].op = "register" => pool[call[v].r] # NoDept
  BY <1>1, StudentsAssumption DEF CallInv
<1>. QED BY <1>1, <1>2, <1>3, StudentsAssumption DEF Same, CallInv, TablesGrow, Exists, Call

LEMMA RegistrationKept ==
  ASSUME StudentsInv, TablesGrow,
         registered' = registered, halfDone \subseteq halfDone',
         \A r \in Rolls : student'[r].dept = student[r].dept,
         \A v \in Calls : \/ Same(v) \/ ~At(v, "register", "mark")
                          \/ call[v].r \in halfDone'
  PROVE  RegistrationMarked'
<1>. SUFFICES ASSUME NEW r \in Rolls
              PROVE  /\ r \in registered' => Exists(r)'
                     /\ Exists(r)' =>
                          /\ pool'[r] = student'[r].dept
                          /\ \/ r \in registered' \union halfDone'
                             \/ \E w \in Calls : At(w, "register", "mark")' /\ call'[w].r = r
  BY DEF RegistrationMarked
<1>1. /\ r \in registered => Exists(r)
      /\ Exists(r) =>
           /\ pool[r] = student[r].dept
           /\ \/ r \in registered \union halfDone
              \/ \E w \in Calls : At(w, "register", "mark") /\ call[w].r = r
  BY DEF StudentsInv, RegistrationMarked
<1>2. Exists(r)' = Exists(r)
  BY DEF Exists
<1>3. Exists(r) => pool'[r] = student'[r].dept
  BY <1>1 DEF TablesGrow, Exists
<1>4. ASSUME NEW w \in Calls, At(w, "register", "mark"), call[w].r = r
      PROVE  r \in halfDone' \/ (At(w, "register", "mark")' /\ call'[w].r = r)
  BY <1>4 DEF Same, At
<1>. QED BY <1>1, <1>2, <1>3, <1>4

LEMMA LockKept ==
  ASSUME StudentsInv, wrong' = wrong, raced' = raced, left' = left,
         \A r \in Rolls : /\ student'[r].attempts \in {student[r].attempts, 0}
                          /\ student'[r].locked => student[r].locked,
         \A v \in Calls : Same(v) \/ ~At(v, "login", "fail")'
  PROVE  LockInv'
<1>. SUFFICES ASSUME NEW r \in Rolls \ raced
              PROVE  /\ student'[r].attempts <= wrong[r]
                     /\ student'[r].locked => r \in left \/ wrong[r] >= MaxFailed
                     /\ \A w \in Calls : At(w, "login", "fail")' /\ call'[w].r = r
                                           => call'[w].n <= wrong[r]
  BY DEF LockInv
<1>1. /\ student[r].attempts <= wrong[r]
      /\ student[r].locked => r \in left \/ wrong[r] >= MaxFailed
      /\ \A w \in Calls : At(w, "login", "fail") /\ call[w].r = r => call[w].n <= wrong[r]
  BY DEF StudentsInv, LockInv
<1>2. wrong[r] \in Nat
  BY DEF StudentsInv, StudentsTypeOK
<1>3. student'[r].attempts <= wrong[r]
  BY <1>1, <1>2
<1>4. ASSUME NEW w \in Calls, At(w, "login", "fail")', call'[w].r = r
      PROVE  call'[w].n <= wrong[r]
  BY <1>1, <1>4 DEF Same, At
<1>. QED BY <1>1, <1>3, <1>4

Hostel(v) == HostelCall(call[v], call[v].r)

\* A step that is none of the hostel requests.
LEMMA HostelKept ==
  ASSUME StudentsInv, TablesGrow,
         requests' = requests, halfDone \subseteq halfDone', contested \subseteq contested',
         \A r \in Rolls : student'[r].approved = student[r].approved,
         \A v \in Calls : \/ Same(v)
                          \/ /\ ~Hostel(v)'
                             /\ HalfWay(v) => /\ call[v].r \in contested'
                                              /\ call[v].op = "request" => call[v].r \in halfDone'
  PROVE  /\ \A r \in Rolls : RowInv(r)'
         /\ \A v \in Calls : AloneInv(v)'
<1>1. ASSUME NEW r \in Rolls
      PROVE  RowInv(r)'
  <2>1. RowInv(r)
    BY DEF StudentsInv
  <2>2. Agree(r)' = Agree(r)
    BY DEF Agree
  <2>3. Exists(r) => Exists(r)'
    BY DEF TablesGrow, Exists
  <2>4. ASSUME NEW w \in Calls, Dirty(w, r)
        PROVE  r \in contested' \/ Dirty(w, r)'
    BY <2>4 DEF Dirty, HalfWay, Same
  <2>5. ASSUME NEW w \in Calls, At(w, "request", "flag"), call[w].r = r
        PROVE  r \in halfDone' \/ (At(w, "request", "flag")' /\ call'[w].r = r)
    BY <2>5 DEF At, HalfWay, Same
  <2>. QED BY <2>1, <2>2, <2>3, <2>4, <2>5 DEF RowInv, TablesGrow
<1>2. ASSUME NEW v \in Calls, call'[v].alone, Hostel(v)'
      PROVE  AloneInv(v)'
  <2>1. Same(v) /\ call[v].alone /\ Hostel(v) /\ AloneInv(v) /\ CallInv(v)
    BY <1>2 DEF Hostel, HostelCall, Same, StudentsInv
  <2>2. call[v].r \in Rolls
    BY <2>1 DEF CallInv, Hostel, HostelCall
  <2>3. ASSUME NEW u \in Calls \ {v}
        PROVE  ~HostelCall(call'[u], call'[v].r)
    BY <2>1 DEF AloneInv, Hostel, HostelCall, Same
  <2>. QED BY <2>1, <2>2, <2>3 DEF AloneInv, Hostel, At, Same
<1>. QED BY <1>1, <1>2 DEF AloneInv, Hostel
-----------------------------------------------------------------------------
(* Calls that begin.                                                       *)

LEMMA BeginKeeps ==
  ASSUME StudentsInv, NEW w \in Calls, NEW k \in Call, Start(w, k), k.op # "none",
         UNCHANGED <<tables, raced, left, halfDone, contested>>,
         wrong' \in [Rolls -> Nat],
         k.op \notin {"request", "review"}, k.op = "register" => k.n = 0,
         CallInv(w)', LockInv'
  PROVE  StudentsInv'
<1>1. /\ call' \in [Calls -> Call] /\ begun' \in Nat /\ call'[w] = k
      /\ call[w].op = "none"
      /\ \A v \in Calls \ {w} : Same(v)
  BY Started, SameIfEqual DEF StudentsInv, StudentsTypeOK
<1>2. StudentsTypeOK'
  BY <1>1 DEF StudentsInv, StudentsTypeOK, tables
<1>3. TablesGrow
  BY TablesStay
<1>4. \A v \in Calls : CallInv(v)'
  BY <1>1, <1>3, CallsKept
<1>5. RegistrationMarked'
  BY <1>1, <1>3, RegistrationKept DEF tables, At
<1>6. /\ \A r \in Rolls : RowInv(r)'
      /\ \A v \in Calls : AloneInv(v)'
  <2>1. ~Hostel(w)' /\ ~HalfWay(w)
    BY <1>1 DEF Hostel, HostelCall, HalfWay
  <2>. QED BY <1>1, <1>3, <2>1, HostelKept DEF tables
<1>. QED BY <1>2, <1>4, <1>5, <1>6 DEF StudentsInv

\* A call that does not count wrong passwords.
LEMMA QuietBeginKeeps ==
  ASSUME StudentsInv, NEW w \in Calls, NEW k \in Call, Start(w, k), k.op # "none",
         UNCHANGED <<tables, ghosts>>,
         k.op \notin {"request", "review"}, k.op = "register" => k.n = 0,
         k.step # "fail", CallInv(w)'
  PROVE  StudentsInv'
<1>1. call'[w] = k /\ \A v \in Calls \ {w} : Same(v)
  BY Started, SameIfEqual DEF StudentsInv, StudentsTypeOK
<1>2. LockInv'
  <2>1. ~At(w, "login", "fail")'
    BY <1>1 DEF At
  <2>. QED BY <1>1, <2>1, LockKept DEF tables, ghosts
<1>. QED BY <1>2, BeginKeeps DEF ghosts, StudentsInv, StudentsTypeOK

LEMMA AddKeeps ==
  ASSUME StudentsInv, NEW w \in Calls, NEW dept \in Departments,
         \/ \E r \in Rolls : BeginAdd(w, dept, r)
         \/ \E file \in SUBSET Rolls : BeginImport(w, dept, file)
  PROVE  StudentsInv'
<1>1. PICK op \in {"add", "import"}, rows \in SUBSET Rolls :
        /\ Start(w, [Idle EXCEPT !.op = op, !.step = "insert", !.dept = dept, !.rows = rows])
        /\ UNCHANGED <<tables, ghosts>>
  <2>1. CASE \E r \in Rolls : BeginAdd(w, dept, r)
    <3>1. PICK r \in Rolls : BeginAdd(w, dept, r)
      BY <2>1
    <3>2. {r} \in SUBSET Rolls
      OBVIOUS
    <3>. QED BY <3>1, <3>2 DEF BeginAdd
  <2>2. CASE \E file \in SUBSET Rolls : BeginImport(w, dept, file)
    <3>1. PICK file \in SUBSET Rolls : BeginImport(w, dept, file)
      BY <2>2
    <3>. QED BY <3>1 DEF BeginImport
  <2>. QED BY <2>1, <2>2
<1>. DEFINE k == [Idle EXCEPT !.op = op, !.step = "insert", !.dept = dept, !.rows = rows]
<1>2. /\ k \in Call /\ k.op = op /\ k.step = "insert" /\ k.dept = dept /\ k.alone
      /\ Start(w, k)
  BY <1>1, IdleIsCall DEF Idle, Call
<1>. HIDE DEF k
<1>3. call'[w] = k
  BY <1>2, Started DEF StudentsInv, StudentsTypeOK
<1>4. CallInv(w)'
  BY <1>2, <1>3 DEF CallInv
<1>. QED BY <1>1, <1>2, <1>4, QuietBeginKeeps

\* The calls that only name a student.
LEMMA NamedBeginKeeps ==
  ASSUME StudentsInv, NEW w \in Calls, NEW r \in Rolls,
         \/ BeginRightLogin(w, r) \/ BeginChange(w, r)
         \/ BeginFeedback(w, r) \/ BeginEdit(w, r)
  PROVE  StudentsInv'
<1>1. PICK op \in {"login", "change", "feedback", "edit"}, step \in {"clear", "write", "insert"} :
        /\ Start(w, [Idle EXCEPT !.op = op, !.step = step, !.r = r])
        /\ UNCHANGED <<tables, ghosts>>
  BY DEF BeginRightLogin, BeginChange, BeginFeedback, BeginEdit
<1>. DEFINE k == [Idle EXCEPT !.op = op, !.step = step, !.r = r]
<1>2. k \in Call /\ k.op = op /\ k.step = step /\ k.r = r /\ Start(w, k)
  BY <1>1, IdleIsCall DEF Idle, Call
<1>. HIDE DEF k
<1>3. call'[w] = k
  BY <1>2, Started DEF StudentsInv, StudentsTypeOK
<1>4. CallInv(w)'
  BY <1>2, <1>3 DEF CallInv
<1>. QED BY <1>1, <1>2, <1>4, QuietBeginKeeps

LEMMA FailCall ==
  ASSUME NEW r \in Rolls, NEW n \in Nat
  PROVE  [Idle EXCEPT !.op = "login", !.step = "fail", !.r = r, !.n = n] \in Call
  BY IdleIsCall DEF Idle, Call

LEMMA WrongLoginKeeps ==
  ASSUME StudentsInv, NEW w \in Calls, NEW r \in Rolls, BeginWrongLogin(w, r)
  PROVE  StudentsInv'
<1>. DEFINE k == [Idle EXCEPT !.op = "login", !.step = "fail", !.r = r,
                              !.n = student[r].attempts + 1]
<1>1. student[r].attempts \in Nat /\ wrong[r] \in Nat
  BY DEF StudentsInv, StudentsTypeOK, Row
<1>2. /\ k \in Call /\ k.op = "login" /\ k.step = "fail" /\ k.r = r
      /\ k.n = student[r].attempts + 1
  <2>1. student[r].attempts + 1 \in Nat
    BY <1>1
  <2>2. k \in Call
    BY <2>1, FailCall
  <2>. QED BY <2>2 DEF Idle
<1>3. Start(w, k) /\ UNCHANGED <<tables, raced, left, halfDone, contested>>
  BY DEF BeginWrongLogin
<1>. HIDE DEF k
<1>4. call'[w] = k /\ \A v \in Calls \ {w} : call'[v] = call[v]
  BY <1>2, <1>3, Started DEF StudentsInv, StudentsTypeOK
<1>5. CallInv(w)'
  BY <1>2, <1>4 DEF CallInv
<1>6. wrong' = [wrong EXCEPT ![r] = wrong[r] + 1] /\ wrong' \in [Rolls -> Nat]
  BY <1>1 DEF BeginWrongLogin, StudentsInv, StudentsTypeOK
<1>7. LockInv'
  <2>. SUFFICES ASSUME NEW q \in Rolls \ raced
                PROVE  /\ student[q].attempts <= wrong'[q]
                       /\ student[q].locked => q \in left \/ wrong'[q] >= MaxFailed
                       /\ \A v \in Calls : At(v, "login", "fail")' /\ call'[v].r = q
                                             => call'[v].n <= wrong'[q]
    BY <1>3 DEF LockInv, tables
  <2>1. /\ student[q].attempts <= wrong[q]
        /\ student[q].locked => q \in left \/ wrong[q] >= MaxFailed
        /\ \A v \in Calls : At(v, "login", "fail") /\ call[v].r = q => call[v].n <= wrong[q]
    BY DEF StudentsInv, LockInv
  <2>2. /\ wrong[q] \in Nat /\ student[q].attempts \in Nat /\ MaxFailed \in Nat
        /\ \A v \in Calls : call[v].n \in Nat
    BY StudentsAssumption DEF StudentsInv, StudentsTypeOK, Row, Call
  <2>3. wrong'[q] = IF q = r THEN wrong[q] + 1 ELSE wrong[q]
    BY <1>6 DEF StudentsInv, StudentsTypeOK
  <2>4. ASSUME NEW v \in Calls, At(v, "login", "fail")', call'[v].r = q
        PROVE  call'[v].n <= wrong'[q]
    <3>1. CASE v = w
      BY <1>2, <1>4, <2>1, <2>2, <2>3, <2>4, <3>1
    <3>2. CASE v # w
      BY <1>4, <2>1, <2>2, <2>3, <2>4, <3>2 DEF At
    <3>. QED BY <3>1, <3>2
  <2>. QED BY <2>1, <2>2, <2>3, <2>4
<1>. QED BY <1>2, <1>3, <1>5, <1>6, <1>7, BeginKeeps

LEMMA HostelBeginKeeps ==
  ASSUME StudentsInv, NEW w \in Calls, NEW k \in Call, StartHostel(w, k),
         UNCHANGED <<tables, ghosts>>,
         k.op \in {"register", "request", "review"}, k.step \in {"insert", "write"},
         k.op = "register" => k.step = "insert",
         CallInv(w)'
  PROVE  StudentsInv'
<1>1. /\ call' \in [Calls -> Call] /\ begun' \in Nat
      /\ call[w].op = "none" /\ call[w].step = "idle"
      /\ call'[w].op = k.op /\ call'[w].step = k.step /\ call'[w].r = k.r
      /\ call'[w].alone => \A u \in Calls : ~HostelCall(call[u], k.r)
      /\ \A v \in Calls \ {w} : Same(v) /\ (call'[v].alone => ~HostelCall(call[v], k.r))
  BY HostelStarted DEF StudentsInv, StudentsTypeOK, Same, HostelCall
<1>2. StudentsTypeOK'
  BY <1>1 DEF StudentsInv, StudentsTypeOK, tables, ghosts
<1>3. TablesGrow
  BY TablesStay
<1>4. \A v \in Calls : CallInv(v)'
  BY <1>1, <1>3, CallsKept
<1>5. RegistrationMarked'
  BY <1>1, <1>3, RegistrationKept DEF tables, ghosts, At
<1>6. LockInv'
  BY <1>1, LockKept DEF tables, ghosts, At
<1>7. ASSUME NEW r \in Rolls
      PROVE  RowInv(r)'
  <2>1. RowInv(r)
    BY DEF StudentsInv
  <2>2. Agree(r)' = Agree(r) /\ Exists(r)' = Exists(r)
    BY DEF Agree, Exists, tables
  <2>3. \A v \in Calls : Dirty(v, r) => Dirty(v, r)'
    BY <1>1 DEF Dirty, HalfWay, Same
  <2>4. \A v \in Calls : At(v, "request", "flag") /\ call[v].r = r
                           => At(v, "request", "flag")' /\ call'[v].r = r
    BY <1>1 DEF At, Same
  <2>. QED BY <2>1, <2>2, <2>3, <2>4 DEF RowInv, tables, ghosts
<1>8. ASSUME NEW v \in Calls, call'[v].alone, Hostel(v)'
      PROVE  AloneInv(v)'
  <2>1. CASE v = w
    <3>1. \A u \in Calls \ {w} : ~HostelCall(call'[u], k.r)
      BY <1>1, <1>8, <2>1 DEF HostelCall, Same
    <3>. QED BY <1>1, <2>1, <3>1 DEF AloneInv, At
  <2>2. CASE v # w
    <3>1. /\ Same(v) /\ call[v].alone /\ Hostel(v) /\ AloneInv(v)
          /\ call[v].r # k.r
      BY <1>1, <1>8, <2>2 DEF Hostel, HostelCall, Same, StudentsInv
    <3>2. \A u \in Calls \ {v} : ~HostelCall(call'[u], call'[v].r)
      BY <1>1, <3>1 DEF AloneInv, Hostel, HostelCall, Same
    <3>. QED BY <3>1, <3>2 DEF AloneInv, Hostel, At, Same, tables
  <2>. QED BY <2>1, <2>2
<1>. QED BY <1>2, <1>4, <1>5, <1>6, <1>7, <1>8 DEF StudentsInv, AloneInv, Hostel

LEMMA RegistrationCall ==
  ASSUME NEW dept \in Departments, NEW r \in Rolls, NEW n \in Nat
  PROVE  Registration(dept, r, n) \in Call
  BY IdleIsCall DEF Registration, Idle, Call

LEMMA RegisterKeeps ==
  ASSUME StudentsInv, NEW w \in Calls, NEW dept \in Departments, NEW r \in Rolls,
         NEW hostel \in {0, 1}, BeginRegister(w, dept, r, hostel)
  PROVE  StudentsInv'
<1>. DEFINE k == Registration(dept, r, hostel)
<1>1. /\ k \in Call /\ k.op = "register" /\ k.step = "insert" /\ k.r = r
      /\ k.dept = dept /\ k.n = hostel
  BY RegistrationCall DEF Registration, Idle
<1>2. /\ hostel = 1 => StartHostel(w, k)
      /\ hostel = 0 => Start(w, k)
      /\ pool[r] = dept /\ UNCHANGED <<tables, ghosts>>
  BY DEF BeginRegister, Eligible
<1>. HIDE DEF k
<1>3. /\ call'[w].op = k.op /\ call'[w].step = k.step /\ call'[w].r = k.r
      /\ call'[w].dept = k.dept /\ call'[w].n = k.n
  BY <1>1, <1>2, Started, HostelStarted DEF StudentsInv, StudentsTypeOK
<1>4. CallInv(w)'
  BY <1>1, <1>2, <1>3 DEF CallInv, tables
<1>5. CASE hostel = 1
  BY <1>1, <1>2, <1>4, <1>5, HostelBeginKeeps
<1>6. CASE hostel = 0
  BY <1>1, <1>2, <1>4, <1>6, QuietBeginKeeps
<1>. QED BY <1>5, <1>6

LEMMA RequestKeeps ==
  ASSUME StudentsInv, NEW w \in Calls, NEW r \in Rolls, BeginRequest(w, r)
  PROVE  StudentsInv'
<1>. DEFINE k == [Idle EXCEPT !.op = "request", !.step = "insert", !.r = r]
<1>1. /\ k \in Call /\ k.op = "request" /\ k.step = "insert" /\ k.r = r
      /\ StartHostel(w, k) /\ UNCHANGED <<tables, ghosts>> /\ Exists(r)
  BY IdleIsCall DEF BeginRequest, Idle, Call
<1>. HIDE DEF k
<1>2. call'[w].op = k.op /\ call'[w].r = k.r
  BY <1>1, HostelStarted DEF StudentsInv, StudentsTypeOK
<1>3. CallInv(w)'
  BY <1>1, <1>2 DEF CallInv, Exists, tables
<1>. QED BY <1>1, <1>3, HostelBeginKeeps

LEMMA ReviewCall ==
  ASSUME NEW r \in Rolls, NEW n \in Nat, NEW verdict \in {"Approved", "Denied"}
  PROVE  [Idle EXCEPT !.op = "review", !.step = "write", !.r = r, !.n = n,
                      !.verdict = verdict] \in Call
  BY IdleIsCall DEF Idle, Call, Status

LEMMA ReviewKeeps ==
  ASSUME StudentsInv, NEW w \in Calls, NEW r \in Rolls, NEW n \in 1..Len(requests[r]),
         NEW verdict \in {"Approved", "Denied"}, BeginReview(w, r, n, verdict)
  PROVE  StudentsInv'
<1>. DEFINE k == [Idle EXCEPT !.op = "review", !.step = "write", !.r = r, !.n = n,
                              !.verdict = verdict]
<1>1. n \in Nat
  BY DEF StudentsInv, StudentsTypeOK
<1>2. /\ k \in Call /\ k.op = "review" /\ k.step = "write" /\ k.r = r /\ k.n = n
      /\ StartHostel(w, k) /\ UNCHANGED <<tables, ghosts>>
  BY <1>1, ReviewCall DEF BeginReview, Idle
<1>. HIDE DEF k
<1>3. call'[w].op = k.op /\ call'[w].r = k.r /\ call'[w].n = k.n
  BY <1>2, HostelStarted DEF StudentsInv, StudentsTypeOK
<1>4. CallInv(w)'
  BY <1>2, <1>3 DEF CallInv, tables
<1>. QED BY <1>2, <1>4, HostelBeginKeeps
-----------------------------------------------------------------------------
(* The pool and registrations.                                             *)

LEMMA InsertRowsKeeps ==
  ASSUME StudentsInv, NEW w \in Calls, InsertRows(w)
  PROVE  StudentsInv'
<1>1. /\ call[w] \in Call /\ call[w].op \in {"add", "import"} /\ call[w].dept \in Departments
      /\ call[w].alone
      /\ UNCHANGED <<registered, student, requests, ghosts, begun>>
  BY DEF StudentsInv, StudentsTypeOK, CallInv, InsertRows
<1>2. PICK rows \in SUBSET call[w].rows :
        /\ Remaining(w, rows)
        /\ pool' = IF \A r \in rows : pool[r] = NoDept THEN Added(rows, call[w].dept) ELSE pool
  BY DEF InsertRows
<1>3. PICK k \in Call :
        /\ call' = [call EXCEPT ![w] = k]
        /\ k.op \in {"none", "add", "import"} /\ k.alone
        /\ k.dept \in Departments \/ k.op = "none"
  <2>1. [call[w] EXCEPT !.rows = call[w].rows \ rows] \in Call
    BY <1>1 DEF Call
  <2>. QED BY <1>1, <1>2, <2>1, IdleIsCall DEF Remaining, Call
<1>4. /\ call' \in [Calls -> Call] /\ call'[w] = k
      /\ \A v \in Calls \ {w} : Same(v)
  BY <1>3, Moved, SameIfEqual DEF StudentsInv, StudentsTypeOK
<1>5. /\ pool' \in [Rolls -> Departments \union {NoDept}]
      /\ \A r \in Rolls : pool[r] # NoDept => pool'[r] = pool[r]
  BY <1>1, <1>2 DEF Added, StudentsInv, StudentsTypeOK
<1>6. StudentsTypeOK'
  BY <1>1, <1>4, <1>5 DEF StudentsInv, StudentsTypeOK, ghosts
<1>7. TablesGrow
  <2>1. \A r \in Rolls : Len(requests[r]) \in Nat
    BY DEF StudentsInv, StudentsTypeOK
  <2>. QED BY <1>1, <1>5, <2>1 DEF TablesGrow
<1>8. \A v \in Calls : CallInv(v)'
  <2>1. CallInv(w)'
    BY <1>3, <1>4 DEF CallInv
  <2>. QED BY <1>4, <1>7, <2>1, CallsKept
<1>9. RegistrationMarked'
  BY <1>1, <1>4, <1>7, RegistrationKept DEF ghosts, At
<1>10. LockInv'
  BY <1>1, <1>3, <1>4, LockKept DEF ghosts, At
<1>11. /\ \A r \in Rolls : RowInv(r)'
       /\ \A v \in Calls : AloneInv(v)'
  <2>1. ~Hostel(w)' /\ ~HalfWay(w)
    BY <1>1, <1>3, <1>4 DEF Hostel, HostelCall, HalfWay
  <2>. QED BY <1>1, <1>4, <1>7, <2>1, HostelKept DEF ghosts
<1>. QED BY <1>6, <1>8, <1>9, <1>10, <1>11 DEF StudentsInv

\* No account: no request either.
LEMMA InsertStudentKeeps ==
  ASSUME StudentsInv, NEW w \in Calls, InsertStudent(w)
  PROVE  StudentsInv'
<1>. DEFINE k == call[w]
            row == [NoRow EXCEPT !.dept = k.dept, !.isHostel = k.n = 1]
<1>1. /\ k.op = "register" /\ k.step = "insert" /\ k.r \in Rolls /\ k.dept \in Departments
      /\ ~Exists(k.r) /\ pool[k.r] = k.dept
      /\ Goto(w, "mark")
      /\ UNCHANGED <<pool, registered, requests, ghosts, begun>>
  BY DEF InsertStudent, At, StudentsInv, CallInv
<1>2. /\ row \in Row /\ row.dept = k.dept /\ row.attempts = 0 /\ row.locked = FALSE
      /\ row.isHostel = (k.n = 1) /\ row.approved = FALSE
  BY <1>1 DEF NoRow, Row
<1>3. student' = [student EXCEPT ![k.r] = row]
  BY DEF InsertStudent
<1>. HIDE DEF row
<1>4. \A r \in Rolls : student'[r] = IF r = k.r THEN row ELSE student[r]
  BY <1>3 DEF StudentsInv, StudentsTypeOK
<1>5. /\ call' \in [Calls -> Call]
      /\ call'[w].step = "mark" /\ call'[w].op = "register" /\ call'[w].r = k.r
      /\ call'[w].dept = k.dept /\ call'[w].n = k.n /\ call'[w].alone = k.alone
      /\ \A v \in Calls \ {w} : call'[v] = call[v] /\ Same(v)
  BY <1>1, Went, SameIfEqual DEF StudentsInv, StudentsTypeOK
<1>6. StudentsTypeOK'
  BY <1>1, <1>2, <1>3, <1>5 DEF StudentsInv, StudentsTypeOK, ghosts
<1>7. /\ TablesGrow
      /\ requests[k.r] = <<>> /\ student[k.r].approved = FALSE
  <2>1. \A r \in Rolls : Len(requests[r]) \in Nat /\ student[r].approved \in BOOLEAN
    BY DEF StudentsInv, StudentsTypeOK, Row
  <2>2. requests[k.r] = <<>> /\ ~student[k.r].approved
    BY <1>1 DEF StudentsInv, RowInv
  <2>3. TablesGrow
    BY <1>1, <1>2, <1>4, <2>1, <2>2 DEF TablesGrow, Exists
  <2>. QED BY <1>1, <2>1, <2>2, <2>3
<1>8. \A v \in Calls : CallInv(v)'
  <2>1. CallInv(w)
    BY DEF StudentsInv
  <2>2. student'[k.r].dept # NoDept /\ (k.n = 1 => student'[k.r].isHostel)
    <3>1. student'[k.r] = row
      BY <1>1, <1>4
    <3>. QED BY <1>1, <1>2, <3>1, StudentsAssumption
  <2>3. CallInv(w)'
    BY <1>1, <1>5, <2>1, <2>2 DEF CallInv, Exists
  <2>. QED BY <1>5, <1>7, <2>3, CallsKept
<1>9. RegistrationMarked'
  <2>. SUFFICES ASSUME NEW r \in Rolls
                PROVE  /\ r \in registered => Exists(r)'
                       /\ Exists(r)' =>
                            /\ pool[r] = student'[r].dept
                            /\ \/ r \in registered \union halfDone
                               \/ \E v \in Calls : At(v, "register", "mark")' /\ call'[v].r = r
    BY <1>1 DEF RegistrationMarked, ghosts
  <2>1. /\ r \in registered => Exists(r)
        /\ Exists(r) =>
             /\ pool[r] = student[r].dept
             /\ \/ r \in registered \union halfDone
                \/ \E v \in Calls : At(v, "register", "mark") /\ call[v].r = r
    BY DEF StudentsInv, RegistrationMarked
  <2>2. CASE r = k.r
    <3>1. At(w, "register", "mark")' /\ call'[w].r = r
      BY <1>5, <2>2 DEF At
    <3>2. student'[r].dept = pool[r] /\ (r \in registered => Exists(r)')
      BY <1>1, <1>2, <1>4, <2>1, <2>2
    <3>. QED BY <3>1, <3>2
  <2>3. CASE r # k.r
    <3>1. Exists(r)' = Exists(r) /\ student'[r] = student[r]
      BY <1>4, <2>3 DEF Exists
    <3>2. \A v \in Calls : At(v, "register", "mark")
                             => At(v, "register", "mark")' /\ call'[v].r = call[v].r
      BY <1>1, <1>5 DEF At
    <3>. QED BY <2>1, <3>1, <3>2
  <2>. QED BY <2>2, <2>3
<1>10. LockInv'
  <2>1. \A r \in Rolls : /\ student'[r].attempts \in {student[r].attempts, 0}
                         /\ student'[r].locked => student[r].locked
    BY <1>2, <1>4
  <2>. QED BY <1>1, <1>5, <2>1, LockKept DEF ghosts, At
<1>11. \A r \in Rolls : student'[r].approved = student[r].approved
  BY <1>2, <1>4, <1>7
<1>12. ASSUME NEW r \in Rolls
       PROVE  RowInv(r)'
  <2>1. RowInv(r)
    BY DEF StudentsInv
  <2>2. Agree(r)' = Agree(r)
    BY <1>1, <1>11 DEF Agree
  <2>3. Exists(r) => Exists(r)' /\ (student[r].isHostel => student'[r].isHostel)
    BY <1>7 DEF TablesGrow, Exists
  <2>4. \A v \in Calls : Dirty(v, r) => Dirty(v, r)'
    BY <1>1, <1>5 DEF Dirty, HalfWay, Same
  <2>5. \A v \in Calls : At(v, "request", "flag") /\ call[v].r = r
                           => At(v, "request", "flag")' /\ call'[v].r = r
    BY <1>1, <1>5 DEF At, Same
  <2>. QED BY <1>1, <1>11, <2>1, <2>2, <2>3, <2>4, <2>5 DEF RowInv, ghosts
<1>13. ASSUME NEW v \in Calls, call'[v].alone, Hostel(v)'
       PROVE  AloneInv(v)'
  <2>1. call[v].alone /\ Hostel(v) /\ AloneInv(v) /\ call'[v].r = call[v].r
    BY <1>1, <1>5, <1>13 DEF Hostel, HostelCall, StudentsInv
  <2>2. \A u \in Calls \ {v} : ~HostelCall(call'[u], call'[v].r)
    BY <1>1, <1>5, <2>1 DEF AloneInv, Hostel, HostelCall
  <2>3. CASE v = w
    BY <1>1, <1>5, <1>7, <1>11, <2>1, <2>2, <2>3 DEF AloneInv, At
  <2>4. CASE v # w
    <3>1. call[v].r \in Rolls
      BY <2>1 DEF StudentsInv, CallInv, Hostel, HostelCall
    <3>. QED BY <1>1, <1>5, <1>11, <2>1, <2>2, <2>4, <3>1 DEF AloneInv, Hostel, At
  <2>. QED BY <2>3, <2>4
<1>. QED BY <1>6, <1>8, <1>9, <1>10, <1>12, <1>13 DEF StudentsInv, AloneInv, Hostel

LEMMA InsertRejectedKeeps ==
  ASSUME StudentsInv, NEW w \in Calls, InsertRejected(w)
  PROVE  StudentsInv'
<1>1. /\ At(w, "register", "insert")
      /\ UNCHANGED <<tables, ghosts, begun>>
      /\ call' \in [Calls -> Call]
      /\ call'[w].op = "none" /\ call'[w].step = "idle" /\ call'[w].alone
      /\ \A v \in Calls \ {w} : Same(v)
  BY Returned, SameIfEqual DEF InsertRejected, StudentsInv, StudentsTypeOK
<1>2. StudentsTypeOK'
  BY <1>1 DEF StudentsInv, StudentsTypeOK, tables, ghosts
<1>3. TablesGrow
  BY <1>1, TablesStay
<1>4. \A v \in Calls : CallInv(v)'
  <2>1. CallInv(w)'
    BY <1>1 DEF CallInv
  <2>. QED BY <1>1, <1>3, <2>1, CallsKept
<1>5. RegistrationMarked'
  BY <1>1, <1>3, RegistrationKept DEF tables, ghosts, At
<1>6. LockInv'
  BY <1>1, LockKept DEF tables, ghosts, At
<1>7. /\ \A r \in Rolls : RowInv(r)'
      /\ \A v \in Calls : AloneInv(v)'
  <2>1. ~Hostel(w)' /\ ~HalfWay(w)
    BY <1>1 DEF Hostel, HostelCall, HalfWay, At
  <2>. QED BY <1>1, <1>3, <2>1, HostelKept DEF tables, ghosts
<1>. QED BY <1>2, <1>4, <1>5, <1>6, <1>7 DEF StudentsInv

LEMMA MarkRegisteredKeeps ==
  ASSUME StudentsInv, NEW w \in Calls, MarkRegistered(w)
  PROVE  StudentsInv'
<1>. DEFINE k == call[w]
<1>1. /\ k.op = "register" /\ k.step = "mark" /\ k.r \in Rolls /\ Exists(k.r)
      /\ registered' = registered \union {k.r}
      /\ IF k.n = 1 THEN Goto(w, "request") ELSE Return(w)
      /\ UNCHANGED <<pool, student, requests, ghosts, begun>>
  BY DEF MarkRegistered, At, StudentsInv, CallInv
<1>2. /\ call' \in [Calls -> Call]
      /\ \A v \in Calls \ {w} : call'[v] = call[v] /\ Same(v)
      /\ \/ call'[w].op = "none" /\ call'[w].alone /\ k.n # 1
         \/ /\ k.n = 1
            /\ call'[w].step = "request" /\ call'[w].op = "register" /\ call'[w].r = k.r
            /\ call'[w].dept = k.dept /\ call'[w].n = k.n /\ call'[w].alone = k.alone
  BY <1>1, Went, Returned, SameIfEqual DEF StudentsInv, StudentsTypeOK
<1>3. StudentsTypeOK'
  BY <1>1, <1>2 DEF StudentsInv, StudentsTypeOK, ghosts
<1>4. TablesGrow
  <2>1. \A r \in Rolls : Len(requests[r]) \in Nat
    BY DEF StudentsInv, StudentsTypeOK
  <2>. QED BY <1>1, <2>1 DEF TablesGrow
<1>5. \A v \in Calls : CallInv(v)'
  <2>1. CallInv(w)
    BY DEF StudentsInv
  <2>2. CallInv(w)'
    BY <1>1, <1>2, <2>1 DEF CallInv, Exists
  <2>. QED BY <1>2, <1>4, <2>2, CallsKept
<1>6. RegistrationMarked'
  <2>1. ASSUME NEW r \in Rolls
        PROVE  /\ r \in registered' => Exists(r)'
               /\ Exists(r)' =>
                    /\ pool[r] = student[r].dept
                    /\ \/ r \in registered' \union halfDone
                       \/ \E v \in Calls : At(v, "register", "mark")' /\ call'[v].r = r
    <3>1. /\ r \in registered => Exists(r)
          /\ Exists(r) =>
               /\ pool[r] = student[r].dept
               /\ \/ r \in registered \union halfDone
                  \/ \E v \in Calls : At(v, "register", "mark") /\ call[v].r = r
      BY DEF StudentsInv, RegistrationMarked
    <3>2. Exists(r)' = Exists(r)
      BY <1>1 DEF Exists
    <3>3. \A v \in Calls : At(v, "register", "mark") /\ call[v].r = r
                             => \/ r \in registered'
                                \/ At(v, "register", "mark")' /\ call'[v].r = r
      BY <1>1, <1>2 DEF At
    <3>. QED BY <1>1, <3>1, <3>2, <3>3
  <2>. QED BY <1>1, <2>1 DEF RegistrationMarked, ghosts
<1>7. LockInv'
  BY <1>1, <1>2, LockKept DEF ghosts, At
<1>8. ASSUME NEW r \in Rolls
      PROVE  RowInv(r)'
  <2>1. RowInv(r)
    BY DEF StudentsInv
  <2>2. Agree(r)' = Agree(r) /\ Exists(r)' = Exists(r)
    BY <1>1 DEF Agree, Exists
  <2>3. \A v \in Calls : Dirty(v, r) => Dirty(v, r)'
    BY <1>1, <1>2 DEF Dirty, HalfWay, Same
  <2>4. \A v \in Calls : At(v, "request", "flag") /\ call[v].r = r
                           => At(v, "request", "flag")' /\ call'[v].r = r
    BY <1>1, <1>2 DEF At, Same
  <2>. QED BY <1>1, <2>1, <2>2, <2>3, <2>4 DEF RowInv, ghosts
<1>9. ASSUME NEW v \in Calls, call'[v].alone, Hostel(v)'
      PROVE  AloneInv(v)'
  <2>1. call[v].alone /\ Hostel(v) /\ AloneInv(v) /\ call'[v].r = call[v].r
    BY <1>1, <1>2, <1>9 DEF Hostel, HostelCall, StudentsInv
  <2>2. \A u \in Calls \ {v} : ~HostelCall(call'[u], call'[v].r)
    BY <1>1, <1>2, <2>1 DEF AloneInv, Hostel, HostelCall
  <2>3. CASE v = w
    BY <1>1, <1>2, <1>9, <2>1, <2>2, <2>3 DEF AloneInv, At, Hostel, HostelCall
  <2>4. CASE v # w
    BY <1>1, <1>2, <2>1, <2>2, <2>4 DEF AloneInv, Hostel, At
  <2>. QED BY <2>3, <2>4
<1>. QED BY <1>3, <1>5, <1>6, <1>7, <1>8, <1>9 DEF StudentsInv, AloneInv, Hostel
-----------------------------------------------------------------------------
(* Hostel requests.                                                        *)

\* A write of a hostel call concerns its student alone, and no call that is
\* alone with that student but itself.
LEMMA HostelWriteKeeps ==
  ASSUME StudentsInv, StudentsTypeOK', NEW w \in Calls, NEW q \in Rolls,
         call[w].r = q, Hostel(w), ~At(w, "register", "mark"),
         UNCHANGED <<pool, registered, wrong, raced, left, halfDone>>,
         \A r \in Rolls : /\ Len(requests[r]) <= Len(requests'[r])
                          /\ student'[r].dept = student[r].dept
                          /\ student'[r].attempts = student[r].attempts
                          /\ student'[r].locked = student[r].locked
                          /\ student[r].isHostel => student'[r].isHostel,
         \A r \in Rolls \ {q} : /\ requests'[r] = requests[r] /\ student'[r] = student[r]
                                /\ r \in contested => r \in contested',
         \A v \in Calls \ {w} : call'[v] = call[v],
         \/ call'[w].op = "none" /\ call'[w].alone
         \/ /\ call[w].op \in {"request", "review"} /\ call'[w].op = call[w].op
            /\ call'[w].r = q /\ call'[w].n = call[w].n,
         RowInv(q)', AloneInv(w)'
  PROVE  StudentsInv'
<1>1. \A v \in Calls \ {w} : Same(v)
  BY SameIfEqual
<1>2. TablesGrow
  <2>1. \A r \in Rolls : Len(requests'[r]) \in Nat
    BY DEF StudentsTypeOK
  <2>. QED BY <2>1 DEF TablesGrow
<1>3. \A v \in Calls : CallInv(v)'
  <2>1. CallInv(w) /\ Len(requests[q]) \in Nat /\ Len(requests'[q]) \in Nat
    BY DEF StudentsInv, StudentsTypeOK
  <2>2. CallInv(w)'
    BY <2>1 DEF CallInv, Exists
  <2>. QED BY <1>1, <1>2, <2>2, CallsKept
<1>4. RegistrationMarked'
  BY <1>1, <1>2, RegistrationKept
<1>5. LockInv'
  BY <1>1, LockKept DEF At, Hostel, HostelCall
<1>6. ASSUME NEW r \in Rolls \ {q}
      PROVE  RowInv(r)'
  <2>1. RowInv(r)
    BY DEF StudentsInv
  <2>2. Agree(r)' = Agree(r) /\ Exists(r)' = Exists(r)
    BY DEF Agree, Exists
  <2>3. \A v \in Calls : Dirty(v, r) => Dirty(v, r)'
    BY DEF Dirty, HalfWay
  <2>4. \A v \in Calls : At(v, "request", "flag") /\ call[v].r = r
                           => At(v, "request", "flag")' /\ call'[v].r = r
    BY DEF At
  <2>. QED BY <2>1, <2>2, <2>3, <2>4 DEF RowInv
<1>7. ASSUME NEW v \in Calls \ {w}, call'[v].alone, Hostel(v)'
      PROVE  AloneInv(v)'
  <2>1. call[v].alone /\ Hostel(v) /\ AloneInv(v) /\ call'[v] = call[v]
    BY <1>7 DEF Hostel, StudentsInv
  <2>2. call[v].r # q /\ call[v].r \in Rolls
    BY <2>1 DEF AloneInv, Hostel, HostelCall, StudentsInv, CallInv
  <2>3. \A u \in Calls \ {v} : ~HostelCall(call'[u], call'[v].r)
    BY <2>1, <2>2 DEF AloneInv, Hostel, HostelCall
  <2>. QED BY <2>1, <2>2, <2>3 DEF AloneInv, Hostel, At
<1>. QED BY <1>3, <1>4, <1>5, <1>6, <1>7 DEF StudentsInv, AloneInv, Hostel

\* A request of r is on the list.
LEMMA RequestAdded ==
  ASSUME StudentsTypeOK, NEW r \in Rolls,
         requests' = [requests EXCEPT ![r] = Append(@, "Pending")]
  PROVE  /\ requests' \in [Rolls -> Seq(Status)]
         /\ Latest(requests'[r]) = "Pending" /\ requests'[r] # <<>>
         /\ \A q \in Rolls : Len(requests[q]) <= Len(requests'[q])
         /\ \A q \in Rolls \ {r} : requests'[q] = requests[q]
<1>1. requests[r] \in Seq(Status) /\ \A q \in Rolls : Len(requests[q]) \in Nat
  BY DEF StudentsTypeOK
<1>2. requests'[r] = Append(requests[r], "Pending")
  BY DEF StudentsTypeOK
<1>3. \A q \in Rolls \ {r} : requests'[q] = requests[q]
  BY DEF StudentsTypeOK
<1>4. requests' \in [Rolls -> Seq(Status)]
  BY <1>1, Appended DEF StudentsTypeOK
<1>5. \A q \in Rolls : Len(requests[q]) <= Len(requests'[q])
  BY <1>1, <1>2, <1>3, Appended
<1>. QED BY <1>1, <1>2, <1>3, <1>4, <1>5, Appended

LEMMA RequestAtRegistrationKeeps ==
  ASSUME StudentsInv, NEW w \in Calls, RequestAtRegistration(w)
  PROVE  StudentsInv'
<1>. DEFINE q == call[w].r
<1>1. /\ call[w].op = "register" /\ call[w].step = "request" /\ call[w].n = 1 /\ q \in Rolls
      /\ Exists(q) /\ student[q].isHostel
      /\ UNCHANGED <<pool, registered, student, begun>>
      /\ requests' = [requests EXCEPT ![q] = Append(@, "Pending")]
      /\ Settle(w, TRUE)
      /\ Return(w)
  BY DEF RequestAtRegistration, At, StudentsInv, CallInv
<1>2. /\ call' \in [Calls -> Call]
      /\ call'[w].op = "none" /\ call'[w].step = "idle" /\ call'[w].alone
      /\ \A v \in Calls \ {w} : call'[v] = call[v]
  BY <1>1, Returned DEF StudentsInv, StudentsTypeOK
<1>3. /\ requests' \in [Rolls -> Seq(Status)]
      /\ Latest(requests'[q]) = "Pending" /\ requests'[q] # <<>>
      /\ \A r \in Rolls : Len(requests[r]) <= Len(requests'[r])
      /\ \A r \in Rolls \ {q} : requests'[r] = requests[r]
  BY <1>1, RequestAdded DEF StudentsInv
<1>4. /\ contested' \subseteq Rolls
      /\ \A r \in Rolls \ {q} : r \in contested => r \in contested'
      /\ q \in contested' \/ call[w].alone
      /\ UNCHANGED <<wrong, raced, left, halfDone>>
  BY <1>1 DEF Settle, StudentsInv, StudentsTypeOK
<1>5. StudentsTypeOK'
  BY <1>1, <1>2, <1>3, <1>4 DEF StudentsInv, StudentsTypeOK
<1>6. Hostel(w)
  BY <1>1 DEF Hostel, HostelCall
<1>7. call[w].alone => ~student[q].approved
  BY <1>1, <1>6 DEF StudentsInv, AloneInv, Hostel
<1>8. AloneInv(w)'
  BY <1>2 DEF AloneInv, HostelCall
<1>9. PICK p \in Rolls : p = q
  BY <1>1
<1>. HIDE DEF q
<1>10. RowInv(p)'
  <2>1. p \in contested' \/ Agree(p)'
    BY <1>1, <1>3, <1>4, <1>7, <1>9 DEF Agree
  <2>. QED BY <1>1, <1>9, <2>1 DEF RowInv, Exists
<1>. QED BY <1>1, <1>2, <1>3, <1>4, <1>5, <1>6, <1>8, <1>9, <1>10, HostelWriteKeeps DEF q, At

LEMMA InsertRequestKeeps ==
  ASSUME StudentsInv, NEW w \in Calls, NEW q \in Rolls, call[w].r = q, InsertRequest(w)
  PROVE  StudentsInv'
<1>1. /\ call[w].op = "request" /\ call[w].step = "insert"
      /\ UNCHANGED <<pool, registered, student, ghosts, begun>>
      /\ requests' = [requests EXCEPT ![q] = Append(@, "Pending")]
      /\ Goto(w, "flag")
  BY DEF InsertRequest, At
<1>2. /\ call' \in [Calls -> Call]
      /\ call'[w].step = "flag" /\ call'[w].op = "request" /\ call'[w].r = q
      /\ call'[w].n = call[w].n /\ call'[w].alone = call[w].alone
      /\ \A v \in Calls \ {w} : call'[v] = call[v]
  BY <1>1, Went DEF StudentsInv, StudentsTypeOK
<1>3. /\ requests' \in [Rolls -> Seq(Status)]
      /\ Latest(requests'[q]) = "Pending"
      /\ \A r \in Rolls : Len(requests[r]) <= Len(requests'[r])
      /\ \A r \in Rolls \ {q} : requests'[r] = requests[r]
  BY <1>1, RequestAdded DEF StudentsInv
<1>4. StudentsTypeOK'
  BY <1>1, <1>2, <1>3 DEF StudentsInv, StudentsTypeOK, ghosts
<1>5. Hostel(w)
  BY <1>1 DEF Hostel, HostelCall
<1>6. AloneInv(w)'
  <2>1. call[w].alone => \A v \in Calls \ {w} : ~HostelCall(call[v], q)
    BY <1>5 DEF StudentsInv, AloneInv, Hostel
  <2>. QED BY <1>2, <1>3, <2>1 DEF AloneInv, At
<1>7. RowInv(q)'
  <2>1. Dirty(w, q)' /\ At(w, "request", "flag")'
    BY <1>2 DEF Dirty, HalfWay, At
  <2>2. Exists(q)
    BY <1>1 DEF StudentsInv, CallInv
  <2>. QED BY <1>1, <1>2, <2>1, <2>2 DEF RowInv, Exists
<1>. QED BY <1>1, <1>2, <1>3, <1>4, <1>5, <1>6, <1>7, HostelWriteKeeps DEF At, ghosts

LEMMA RequestedRow ==
  ASSUME NEW r \in Row
  PROVE  LET row == [r EXCEPT !.isHostel = TRUE, !.approved = FALSE] IN
         /\ row \in Row /\ row.isHostel = TRUE /\ row.approved = FALSE
         /\ row.dept = r.dept /\ row.attempts = r.attempts /\ row.locked = r.locked
  BY DEF Row

LEMMA ReviewedRow ==
  ASSUME NEW r \in Row, NEW approved \in BOOLEAN
  PROVE  LET row == [r EXCEPT !.approved = approved] IN
         /\ row \in Row /\ row.isHostel = r.isHostel /\ row.approved = approved
         /\ row.dept = r.dept /\ row.attempts = r.attempts /\ row.locked = r.locked
  BY DEF Row

LEMMA FlagRequestedKeeps ==
  ASSUME StudentsInv, NEW w \in Calls, NEW q \in Rolls, call[w].r = q, FlagRequested(w)
  PROVE  StudentsInv'
<1>. DEFINE row == [student[q] EXCEPT !.isHostel = TRUE, !.approved = FALSE]
<1>1. /\ call[w].op = "request" /\ call[w].step = "flag" /\ Exists(q)
      /\ UNCHANGED <<pool, registered, requests, begun>>
      /\ student' = [student EXCEPT ![q] = row]
      /\ Settle(w, TRUE)
      /\ Return(w)
  BY DEF FlagRequested, At, StudentsInv, CallInv, StudentsTypeOK, Row
<1>2. /\ row \in Row /\ row.isHostel = TRUE /\ row.approved = FALSE
      /\ row.dept = student[q].dept /\ row.attempts = student[q].attempts
      /\ row.locked = student[q].locked
  <2>1. student[q] \in Row
    BY DEF StudentsInv, StudentsTypeOK
  <2>. QED BY <2>1, RequestedRow
<1>. HIDE DEF row
<1>3. /\ student' \in [Rolls -> Row]
      /\ student'[q] = row
      /\ \A r \in Rolls \ {q} : student'[r] = student[r]
  BY <1>1, <1>2 DEF StudentsInv, StudentsTypeOK
<1>4. /\ call' \in [Calls -> Call]
      /\ call'[w].op = "none" /\ call'[w].step = "idle" /\ call'[w].alone
      /\ \A v \in Calls \ {w} : call'[v] = call[v]
  BY <1>1, Returned DEF StudentsInv, StudentsTypeOK
<1>5. /\ contested' \subseteq Rolls
      /\ \A r \in Rolls \ {q} : r \in contested => r \in contested'
      /\ q \in contested' \/ call[w].alone
      /\ UNCHANGED <<wrong, raced, left, halfDone>>
  BY <1>1 DEF Settle, StudentsInv, StudentsTypeOK
<1>6. StudentsTypeOK'
  BY <1>1, <1>3, <1>4, <1>5 DEF StudentsInv, StudentsTypeOK
<1>7. Hostel(w)
  BY <1>1 DEF Hostel, HostelCall
<1>8. call[w].alone => Latest(requests[q]) = "Pending"
  BY <1>1, <1>7 DEF StudentsInv, AloneInv, Hostel, At
<1>9. AloneInv(w)'
  BY <1>4 DEF AloneInv, HostelCall
<1>10. RowInv(q)'
  <2>1. q \in contested' \/ Agree(q)'
    BY <1>1, <1>2, <1>3, <1>5, <1>8 DEF Agree
  <2>. QED BY <1>1, <1>2, <1>3, <2>1 DEF RowInv, Exists
<1>11. \A r \in Rolls : Len(requests[r]) <= Len(requests'[r])
  BY <1>1 DEF StudentsInv, StudentsTypeOK
<1>12. \A r \in Rolls : /\ student'[r].dept = student[r].dept
                        /\ student'[r].attempts = student[r].attempts
                        /\ student'[r].locked = student[r].locked
                        /\ student[r].isHostel => student'[r].isHostel
  BY <1>2, <1>3
<1>. QED BY <1>1, <1>3, <1>4, <1>5, <1>6, <1>7, <1>9, <1>10, <1>11, <1>12,
            HostelWriteKeeps DEF At

\* The review that is written was begun on a request that is still there.
LEMMA WriteReviewKeeps ==
  ASSUME StudentsInv, NEW w \in Calls, NEW q \in Rolls, call[w].r = q, WriteReview(w)
  PROVE  StudentsInv'
<1>. DEFINE n == call[w].n
            verdict == call[w].verdict
<1>1. /\ call[w].op = "review" /\ call[w].step = "write"
      /\ n \in 1..Len(requests[q]) /\ verdict \in Status
      /\ UNCHANGED <<pool, registered, student, ghosts, begun>>
      /\ requests' = [requests EXCEPT ![q] = [requests[q] EXCEPT ![n] = verdict]]
      /\ Goto(w, "flag")
  BY DEF WriteReview, At, StudentsInv, CallInv, StudentsTypeOK, Call
<1>2. /\ call' \in [Calls -> Call]
      /\ call'[w].step = "flag" /\ call'[w].op = "review" /\ call'[w].r = q
      /\ call'[w].n = n /\ call'[w].alone = call[w].alone /\ call'[w].verdict = verdict
      /\ \A v \in Calls \ {w} : call'[v] = call[v]
  BY <1>1, Went DEF StudentsInv, StudentsTypeOK
<1>3. requests[q] \in Seq(Status) /\ \A r \in Rolls : Len(requests[r]) \in Nat
  BY DEF StudentsInv, StudentsTypeOK
<1>4. /\ requests'[q] = [requests[q] EXCEPT ![n] = verdict]
      /\ \A r \in Rolls \ {q} : requests'[r] = requests[r]
  BY <1>1 DEF StudentsInv, StudentsTypeOK
<1>5. /\ requests'[q] \in Seq(Status) /\ Len(requests'[q]) = Len(requests[q])
      /\ requests[q] # <<>> /\ requests'[q] # <<>>
      /\ n = Len(requests[q]) => Latest(requests'[q]) = verdict
  BY <1>1, <1>3, <1>4, Reviewed
<1>6. StudentsTypeOK'
  <2>1. requests' \in [Rolls -> Seq(Status)]
    BY <1>1, <1>4, <1>5 DEF StudentsInv, StudentsTypeOK
  <2>. QED BY <1>1, <1>2, <2>1 DEF StudentsInv, StudentsTypeOK, ghosts
<1>7. Hostel(w)
  BY <1>1 DEF Hostel, HostelCall
<1>8. AloneInv(w)'
  <2>1. call[w].alone => \A v \in Calls \ {w} : ~HostelCall(call[v], q)
    BY <1>7 DEF StudentsInv, AloneInv, Hostel
  <2>. QED BY <1>2, <1>5, <2>1 DEF AloneInv, At
<1>9. RowInv(q)'
  <2>1. RowInv(q)
    BY DEF StudentsInv
  <2>2. Dirty(w, q)'
    BY <1>2 DEF Dirty, HalfWay
  <2>3. \A v \in Calls : At(v, "request", "flag") /\ call[v].r = q
                           => At(v, "request", "flag")' /\ call'[v].r = q
    BY <1>1, <1>2 DEF At
  <2>. QED BY <1>1, <1>5, <2>1, <2>2, <2>3 DEF RowInv, Exists, ghosts
<1>10. \A r \in Rolls : Len(requests[r]) <= Len(requests'[r])
  BY <1>3, <1>4, <1>5
<1>. QED BY <1>1, <1>2, <1>4, <1>6, <1>7, <1>8, <1>9, <1>10, HostelWriteKeeps DEF At, ghosts

LEMMA FlagReviewedKeeps ==
  ASSUME StudentsInv, NEW w \in Calls, NEW q \in Rolls, call[w].r = q, FlagReviewed(w)
  PROVE  StudentsInv'
<1>. DEFINE verdict == call[w].verdict
            latest == call[w].n = Len(requests[q])
            row == [student[q] EXCEPT !.approved = verdict = "Approved"]
<1>1. /\ call[w].op = "review" /\ call[w].step = "flag"
      /\ call[w].n \in 1..Len(requests[q]) /\ requests[q] \in Seq(Status)
      /\ UNCHANGED <<pool, registered, requests, begun>>
      /\ student' = [student EXCEPT ![q] = row]
      /\ Settle(w, latest)
      /\ Return(w)
  BY DEF FlagReviewed, At, StudentsInv, CallInv, StudentsTypeOK
<1>2. /\ row \in Row /\ row.isHostel = student[q].isHostel
      /\ row.approved = (verdict = "Approved")
      /\ row.dept = student[q].dept /\ row.attempts = student[q].attempts
      /\ row.locked = student[q].locked
  <2>1. student[q] \in Row /\ (verdict = "Approved") \in BOOLEAN
    BY DEF StudentsInv, StudentsTypeOK
  <2>. QED BY <2>1, ReviewedRow
<1>. HIDE DEF row
<1>3. /\ student' \in [Rolls -> Row]
      /\ student'[q] = row
      /\ \A r \in Rolls \ {q} : student'[r] = student[r]
  BY <1>1, <1>2 DEF StudentsInv, StudentsTypeOK
<1>4. /\ call' \in [Calls -> Call]
      /\ call'[w].op = "none" /\ call'[w].step = "idle" /\ call'[w].alone
      /\ \A v \in Calls \ {w} : call'[v] = call[v]
  BY <1>1, Returned DEF StudentsInv, StudentsTypeOK
<1>5. /\ contested' \subseteq Rolls
      /\ \A r \in Rolls \ {q} : r \in contested => r \in contested'
      /\ q \in contested' \/ (call[w].alone /\ latest)
      /\ UNCHANGED <<wrong, raced, left, halfDone>>
  BY <1>1 DEF Settle, StudentsInv, StudentsTypeOK
<1>6. StudentsTypeOK'
  BY <1>1, <1>3, <1>4, <1>5 DEF StudentsInv, StudentsTypeOK
<1>7. Hostel(w)
  BY <1>1 DEF Hostel, HostelCall
<1>8. call[w].alone /\ latest => Latest(requests[q]) = verdict
  BY <1>1, <1>7 DEF StudentsInv, AloneInv, Hostel, At
<1>9. AloneInv(w)'
  BY <1>4 DEF AloneInv, HostelCall
<1>10. RowInv(q)'
  <2>1. q \in contested' \/ Agree(q)'
    BY <1>1, <1>2, <1>3, <1>5, <1>8 DEF Agree
  <2>2. RowInv(q) /\ requests[q] # <<>>
    BY <1>1 DEF StudentsInv
  <2>3. \A v \in Calls : At(v, "request", "flag") /\ call[v].r = q
                           => At(v, "request", "flag")' /\ call'[v].r = q
    BY <1>1, <1>4 DEF At
  <2>. QED BY <1>1, <1>2, <1>3, <1>5, <2>1, <2>2, <2>3 DEF RowInv, Exists
<1>11. \A r \in Rolls : Len(requests[r]) <= Len(requests'[r])
  BY <1>1 DEF StudentsInv, StudentsTypeOK
<1>12. \A r \in Rolls : /\ student'[r].dept = student[r].dept
                        /\ student'[r].attempts = student[r].attempts
                        /\ student'[r].locked = student[r].locked
                        /\ student[r].isHostel => student'[r].isHostel
  BY <1>2, <1>3
<1>. QED BY <1>1, <1>3, <1>4, <1>5, <1>6, <1>7, <1>9, <1>10, <1>11, <1>12,
            HostelWriteKeeps DEF At
-----------------------------------------------------------------------------
(* Passwords and the lock.                                                 *)

\* A write of the counter, the lock or the password.
LEMMA AccountWriteKeeps ==
  ASSUME StudentsInv, StudentsTypeOK', LockInv',
         UNCHANGED <<pool, registered, requests, halfDone, contested>>,
         \A r \in Rolls : /\ student'[r].dept = student[r].dept
                          /\ student'[r].isHostel = student[r].isHostel
                          /\ student'[r].approved = student[r].approved,
         \A v \in Calls : \/ call'[v] = call[v]
                          \/ /\ call[v].op \in {"login", "change", "feedback", "edit"}
                             /\ \/ call'[v].op = "none" /\ call'[v].alone
                                \/ /\ call'[v].op = "feedback" /\ call[v].op = "feedback"
                                   /\ call'[v].r = call[v].r
  PROVE  StudentsInv'
<1>1. \A v \in Calls :
        \/ Same(v)
        \/ /\ call[v].op \in {"login", "change", "feedback", "edit"}
           /\ \/ call'[v].op = "none" /\ call'[v].alone
              \/ call'[v].op = "feedback" /\ call[v].op = "feedback" /\ call'[v].r = call[v].r
  BY SameIfEqual
<1>2. TablesGrow
  <2>1. \A r \in Rolls : Len(requests[r]) \in Nat
    BY DEF StudentsInv, StudentsTypeOK
  <2>. QED BY <2>1 DEF TablesGrow
<1>3. \A v \in Calls : CallInv(v)'
  <2>1. \A v \in Calls : call'[v].op = "none" /\ call'[v].alone => CallInv(v)'
    BY DEF CallInv
  <2>2. \A v \in Calls : call[v].op = "feedback" => call[v].r \in Rolls
    BY DEF StudentsInv, CallInv
  <2>3. \A v \in Calls : call'[v].op = "feedback" /\ call'[v].r \in Rolls => CallInv(v)'
    BY DEF CallInv
  <2>. QED BY <1>1, <1>2, <2>1, <2>2, <2>3, CallsKept
<1>4. RegistrationMarked'
  BY <1>1, <1>2, RegistrationKept DEF At
<1>5. /\ \A r \in Rolls : RowInv(r)'
      /\ \A v \in Calls : AloneInv(v)'
  <2>1. \A v \in Calls : Same(v) \/ ( /\ ~Hostel(v)' /\ ~HalfWay(v) )
    BY <1>1 DEF Hostel, HostelCall, HalfWay
  <2>. QED BY <1>2, <2>1, HostelKept
<1>. QED BY <1>3, <1>4, <1>5 DEF StudentsInv

LEMMA WriteFailKeeps ==
  ASSUME StudentsInv, NEW w \in Calls, NEW q \in Rolls, call[w].r = q, WriteFail(w)
  PROVE  StudentsInv'
<1>. DEFINE n == call[w].n
            locked == student[q].locked \/ n >= MaxFailed
            row == [student[q] EXCEPT !.attempts = n, !.locked = locked]
<1>1. /\ call[w].op = "login" /\ call[w].step = "fail" /\ n \in Nat /\ MaxFailed \in Nat
      /\ student' = [student EXCEPT ![q] = row]
      /\ Return(w)
      /\ UNCHANGED <<pool, registered, requests, ghosts, begun>>
  BY StudentsAssumption DEF WriteFail, At, StudentsInv, StudentsTypeOK, Call, Row
<1>0. locked \in BOOLEAN /\ (locked <=> student[q].locked \/ n >= MaxFailed)
  OBVIOUS
<1>. HIDE DEF locked
<1>2. /\ row \in Row /\ row.dept = student[q].dept /\ row.isHostel = student[q].isHostel
      /\ row.approved = student[q].approved /\ row.attempts = n
      /\ row.locked = locked
  <2>1. student[q] \in Row
    BY DEF StudentsInv, StudentsTypeOK
  <2>2. n \in Nat /\ locked \in BOOLEAN
    BY <1>0, <1>1
  <2>. QED BY <2>1, <2>2 DEF Row
<1>. HIDE DEF row
<1>3. /\ student' \in [Rolls -> Row]
      /\ student'[q] = row
      /\ \A r \in Rolls \ {q} : student'[r] = student[r]
  BY <1>1, <1>2 DEF StudentsInv, StudentsTypeOK
<1>4. /\ call' \in [Calls -> Call]
      /\ call'[w].op = "none" /\ call'[w].step = "idle" /\ call'[w].alone
      /\ \A v \in Calls \ {w} : call'[v] = call[v]
  BY <1>1, Returned DEF StudentsInv, StudentsTypeOK
<1>5. StudentsTypeOK'
  BY <1>1, <1>3, <1>4 DEF StudentsInv, StudentsTypeOK, ghosts
<1>6. LockInv'
  <2>. SUFFICES ASSUME NEW r \in Rolls \ raced
                PROVE  /\ student'[r].attempts <= wrong[r]
                       /\ student'[r].locked => r \in left \/ wrong[r] >= MaxFailed
                       /\ \A v \in Calls : At(v, "login", "fail")' /\ call'[v].r = r
                                             => call'[v].n <= wrong[r]
    BY <1>1 DEF LockInv, ghosts
  <2>1. /\ student[r].attempts <= wrong[r] /\ wrong[r] \in Nat
        /\ student[r].locked => r \in left \/ wrong[r] >= MaxFailed
        /\ \A v \in Calls : At(v, "login", "fail") /\ call[v].r = r => call[v].n <= wrong[r]
    BY DEF StudentsInv, LockInv, StudentsTypeOK
  <2>2. \A v \in Calls : At(v, "login", "fail")' /\ call'[v].r = r => call'[v].n <= wrong[r]
    BY <1>4, <2>1 DEF At
  <2>3. CASE r = q
    <3>1. n <= wrong[r]
      BY <1>1, <2>1, <2>3 DEF At
    <3>. QED BY <1>0, <1>1, <1>2, <1>3, <2>1, <2>2, <2>3, <3>1
  <2>4. CASE r # q
    BY <1>3, <2>1, <2>2, <2>4
  <2>. QED BY <2>3, <2>4
<1>7. \A r \in Rolls : /\ student'[r].dept = student[r].dept
                       /\ student'[r].isHostel = student[r].isHostel
                       /\ student'[r].approved = student[r].approved
  BY <1>2, <1>3
<1>. QED BY <1>1, <1>4, <1>5, <1>6, <1>7, AccountWriteKeeps DEF ghosts

\* After a zeroing that met no attempt, nothing counts against the student.
LEMMA ForgivenLock ==
  ASSUME StudentsInv, NEW q \in Rolls, NEW unlocked \in BOOLEAN, Forgive(q, unlocked),
         student'[q].attempts = 0, unlocked => ~student'[q].locked,
         \A r \in Rolls \ {q} : student'[r] = student[r],
         \A v \in Calls : call'[v] = call[v] \/ ~At(v, "login", "fail")'
  PROVE  /\ LockInv'
         /\ wrong' \in [Rolls -> Nat] /\ raced' \subseteq Rolls /\ left' \subseteq Rolls
         /\ UNCHANGED <<halfDone, contested>>
<1>1. /\ wrong' \in [Rolls -> Nat] /\ raced' \subseteq Rolls /\ left' \subseteq Rolls
      /\ UNCHANGED <<halfDone, contested>>
      /\ wrong'[q] = 0 /\ \A r \in Rolls \ {q} : wrong'[r] = wrong[r]
      /\ \A r \in Rolls \ {q} : (r \in raced' <=> r \in raced) /\ (r \in left' <=> r \in left)
      /\ q \notin raced' => unlocked /\ ~Counting(q)
  BY DEF Forgive, StudentsInv, StudentsTypeOK
<1>. SUFFICES ASSUME NEW r \in Rolls \ raced'
              PROVE  /\ student'[r].attempts <= wrong'[r]
                     /\ student'[r].locked => r \in left' \/ wrong'[r] >= MaxFailed
                     /\ \A v \in Calls : At(v, "login", "fail")' /\ call'[v].r = r
                                           => call'[v].n <= wrong'[r]
  BY <1>1 DEF LockInv
<1>2. CASE r = q
  <2>1. \A v \in Calls : ~(At(v, "login", "fail")' /\ call'[v].r = r)
    BY <1>1, <1>2 DEF Counting, At
  <2>. QED BY <1>1, <1>2, <2>1
<1>3. CASE r # q
  <2>1. /\ student[r].attempts <= wrong[r]
        /\ student[r].locked => r \in left \/ wrong[r] >= MaxFailed
        /\ \A v \in Calls : At(v, "login", "fail") /\ call[v].r = r => call[v].n <= wrong[r]
    BY <1>1, <1>3 DEF StudentsInv, LockInv
  <2>2. \A v \in Calls : At(v, "login", "fail")' => At(v, "login", "fail") /\ call'[v] = call[v]
    BY DEF At
  <2>. QED BY <1>1, <1>3, <2>1, <2>2
<1>. QED BY <1>2, <1>3

LEMMA WriteClearKeeps ==
  ASSUME StudentsInv, NEW w \in Calls, NEW q \in Rolls, call[w].r = q, WriteClear(w)
  PROVE  StudentsInv'
<1>. DEFINE row == [student[q] EXCEPT !.attempts = 0]
            unlocked == ~student[q].locked
<1>1. /\ call[w].op = "login" /\ call[w].step = "clear"
      /\ student' = [student EXCEPT ![q] = row]
      /\ Forgive(q, unlocked)
      /\ Return(w)
      /\ UNCHANGED <<pool, registered, requests, begun>>
  BY DEF WriteClear, At
<1>2. student[q] \in Row
  BY DEF StudentsInv, StudentsTypeOK
<1>3. /\ row \in Row /\ row.dept = student[q].dept /\ row.isHostel = student[q].isHostel
      /\ row.approved = student[q].approved /\ row.attempts = 0
      /\ row.locked = student[q].locked
  BY <1>2 DEF Row
<1>. HIDE DEF row
<1>4. /\ student' \in [Rolls -> Row]
      /\ student'[q] = row
      /\ \A r \in Rolls \ {q} : student'[r] = student[r]
  BY <1>1, <1>3 DEF StudentsInv, StudentsTypeOK
<1>5. /\ call' \in [Calls -> Call]
      /\ call'[w].op = "none" /\ call'[w].step = "idle" /\ call'[w].alone
      /\ \A v \in Calls \ {w} : call'[v] = call[v]
  BY <1>1, Returned DEF StudentsInv, StudentsTypeOK
<1>6. /\ LockInv'
      /\ wrong' \in [Rolls -> Nat] /\ raced' \subseteq Rolls /\ left' \subseteq Rolls
      /\ UNCHANGED <<halfDone, contested>>
  <2>1. unlocked \in BOOLEAN /\ (unlocked => ~student'[q].locked)
    BY <1>3, <1>4
  <2>2. \A v \in Calls : call'[v] = call[v] \/ ~At(v, "login", "fail")'
    BY <1>5 DEF At
  <2>. HIDE DEF unlocked
  <2>. QED BY <1>1, <1>3, <1>4, <2>1, <2>2, ForgivenLock
<1>7. StudentsTypeOK'
  BY <1>1, <1>4, <1>5, <1>6 DEF StudentsInv, StudentsTypeOK
<1>8. \A r \in Rolls : /\ student'[r].dept = student[r].dept
                       /\ student'[r].isHostel = student[r].isHostel
                       /\ student'[r].approved = student[r].approved
  BY <1>3, <1>4
<1>. QED BY <1>1, <1>5, <1>6, <1>7, <1>8, AccountWriteKeeps

LEMMA ResetKeeps ==
  ASSUME StudentsInv, NEW q \in Rolls,
         ForgotPassword(q) \/ \E dept \in Departments : ResetByCoordinator(dept, q)
  PROVE  StudentsInv'
<1>1. student[q] \in Row
  BY DEF StudentsInv, StudentsTypeOK
<1>2. PICK row \in Row :
        /\ row.dept = student[q].dept /\ row.isHostel = student[q].isHostel
        /\ row.approved = student[q].approved /\ row.attempts = 0 /\ row.locked = FALSE
        /\ student' = [student EXCEPT ![q] = row]
  <2>1. CASE ForgotPassword(q)
    <3>. DEFINE new == [student[q] EXCEPT !.password = "own", !.locked = FALSE,
                                          !.attempts = 0]
    <3>1. student' = [student EXCEPT ![q] = new]
      BY <2>1 DEF ForgotPassword
    <3>2. /\ new \in Row /\ new.dept = student[q].dept /\ new.isHostel = student[q].isHostel
          /\ new.approved = student[q].approved /\ new.attempts = 0 /\ new.locked = FALSE
      BY <1>1 DEF Row
    <3>. HIDE DEF new
    <3>. QED BY <3>1, <3>2
  <2>2. CASE \E dept \in Departments : ResetByCoordinator(dept, q)
    <3>. DEFINE new == [student[q] EXCEPT !.password = "temporary", !.mustChange = TRUE,
                                          !.locked = FALSE, !.attempts = 0]
    <3>1. student' = [student EXCEPT ![q] = new]
      BY <2>2 DEF ResetByCoordinator
    <3>2. /\ new \in Row /\ new.dept = student[q].dept /\ new.isHostel = student[q].isHostel
          /\ new.approved = student[q].approved /\ new.attempts = 0 /\ new.locked = FALSE
      BY <1>1 DEF Row
    <3>. HIDE DEF new
    <3>. QED BY <3>1, <3>2
  <2>. QED BY <2>1, <2>2
<1>3. /\ Forgive(q, TRUE) /\ call' = call /\ begun' = begun + 1
      /\ UNCHANGED <<pool, registered, requests>>
  BY DEF ForgotPassword, ResetByCoordinator, AtOnce
<1>4. /\ student' \in [Rolls -> Row]
      /\ student'[q] = row
      /\ \A r \in Rolls \ {q} : student'[r] = student[r]
  BY <1>2 DEF StudentsInv, StudentsTypeOK
<1>5. /\ LockInv'
      /\ wrong' \in [Rolls -> Nat] /\ raced' \subseteq Rolls /\ left' \subseteq Rolls
      /\ UNCHANGED <<halfDone, contested>>
  BY <1>2, <1>3, <1>4, ForgivenLock
<1>6. StudentsTypeOK'
  BY <1>3, <1>4, <1>5 DEF StudentsInv, StudentsTypeOK
<1>7. \A r \in Rolls : /\ student'[r].dept = student[r].dept
                       /\ student'[r].isHostel = student[r].isHostel
                       /\ student'[r].approved = student[r].approved
  BY <1>2, <1>4
<1>. QED BY <1>3, <1>5, <1>6, <1>7, AccountWriteKeeps

LEMMA DeactivateKeeps ==
  ASSUME StudentsInv, NEW q \in Rolls, Deactivate(q)
  PROVE  StudentsInv'
<1>. DEFINE row == [student[q] EXCEPT !.locked = TRUE]
<1>1. /\ student' = [student EXCEPT ![q] = row]
      /\ left' = left \union {q} /\ call' = call /\ begun' = begun + 1
      /\ UNCHANGED <<pool, registered, requests, wrong, raced, halfDone, contested>>
  BY DEF Deactivate, AtOnce
<1>2. student[q] \in Row
  BY DEF StudentsInv, StudentsTypeOK
<1>3. /\ row \in Row /\ row.dept = student[q].dept /\ row.isHostel = student[q].isHostel
      /\ row.approved = student[q].approved /\ row.attempts = student[q].attempts
  BY <1>2 DEF Row
<1>. HIDE DEF row
<1>4. /\ student' \in [Rolls -> Row]
      /\ student'[q] = row
      /\ \A r \in Rolls \ {q} : student'[r] = student[r]
  BY <1>1, <1>3 DEF StudentsInv, StudentsTypeOK
<1>5. StudentsTypeOK'
  BY <1>1, <1>4 DEF StudentsInv, StudentsTypeOK
<1>6. LockInv'
  BY <1>1, <1>3, <1>4 DEF StudentsInv, LockInv, At
<1>7. \A r \in Rolls : /\ student'[r].dept = student[r].dept
                       /\ student'[r].isHostel = student[r].isHostel
                       /\ student'[r].approved = student[r].approved
  BY <1>3, <1>4
<1>. QED BY <1>1, <1>5, <1>6, <1>7, AccountWriteKeeps

LEMMA WriteChangeKeeps ==
  ASSUME StudentsInv, NEW w \in Calls, NEW q \in Rolls, call[w].r = q, WriteChange(w)
  PROVE  StudentsInv'
<1>. DEFINE row == [student[q] EXCEPT !.password = "own", !.mustChange = FALSE]
<1>1. /\ call[w].op = "change"
      /\ student' = [student EXCEPT ![q] = row]
      /\ Return(w)
      /\ UNCHANGED <<pool, registered, requests, ghosts, begun>>
  BY DEF WriteChange, At
<1>2. student[q] \in Row
  BY DEF StudentsInv, StudentsTypeOK
<1>3. /\ row \in Row /\ row.dept = student[q].dept /\ row.isHostel = student[q].isHostel
      /\ row.approved = student[q].approved /\ row.attempts = student[q].attempts
      /\ row.locked = student[q].locked
  BY <1>2 DEF Row
<1>. HIDE DEF row
<1>4. /\ student' \in [Rolls -> Row]
      /\ student'[q] = row
      /\ \A r \in Rolls \ {q} : student'[r] = student[r]
  BY <1>1, <1>3 DEF StudentsInv, StudentsTypeOK
<1>5. /\ call' \in [Calls -> Call]
      /\ call'[w].op = "none" /\ call'[w].step = "idle" /\ call'[w].alone
      /\ \A v \in Calls \ {w} : call'[v] = call[v] /\ Same(v)
  BY <1>1, Returned, SameIfEqual DEF StudentsInv, StudentsTypeOK
<1>6. StudentsTypeOK'
  BY <1>1, <1>4, <1>5 DEF StudentsInv, StudentsTypeOK, ghosts
<1>7. \A r \in Rolls : /\ student'[r].dept = student[r].dept
                       /\ student'[r].isHostel = student[r].isHostel
                       /\ student'[r].approved = student[r].approved
                       /\ student'[r].attempts = student[r].attempts
                       /\ student'[r].locked = student[r].locked
  BY <1>3, <1>4
<1>8. LockInv'
  BY <1>1, <1>5, <1>7, LockKept DEF ghosts, At
<1>. QED BY <1>1, <1>5, <1>6, <1>7, <1>8, AccountWriteKeeps DEF ghosts
-----------------------------------------------------------------------------
(* The end of a feedback call, and of any call that fails.                 *)

LEMMA FeedbackReturnKeeps ==
  ASSUME StudentsInv, NEW w \in Calls, InsertFeedback(w) \/ WriteEdit(w)
  PROVE  StudentsInv'
<1>1. /\ call[w].op \in {"feedback", "edit"}
      /\ UNCHANGED <<tables, ghosts, begun>>
      /\ call' \in [Calls -> Call]
      /\ call'[w].op = "none" /\ call'[w].step = "idle" /\ call'[w].alone
      /\ \A v \in Calls \ {w} : call'[v] = call[v] /\ Same(v)
  BY Returned, SameIfEqual DEF InsertFeedback, WriteEdit, At, StudentsInv, StudentsTypeOK
<1>2. StudentsTypeOK'
  BY <1>1 DEF StudentsInv, StudentsTypeOK, tables, ghosts
<1>3. LockInv'
  BY <1>1, LockKept DEF tables, ghosts, At
<1>. QED BY <1>1, <1>2, <1>3, AccountWriteKeeps DEF tables, ghosts

\* The trigger of an INSERT lets it through, or ends the call.
LEMMA VerifyKeeps ==
  ASSUME StudentsInv, NEW w \in Calls, Verify(w)
  PROVE  StudentsInv'
<1>1. /\ call[w].op = "feedback"
      /\ UNCHANGED <<tables, ghosts, begun>>
      /\ call' \in [Calls -> Call]
      /\ \/ call'[w].op = "none" /\ call'[w].alone
         \/ call'[w].op = "feedback" /\ call'[w].r = call[w].r
      /\ call'[w].step # "fail"
      /\ \A v \in Calls \ {w} : call'[v] = call[v]
  BY Returned, Went DEF Verify, At, StudentsInv, StudentsTypeOK
<1>2. StudentsTypeOK'
  BY <1>1 DEF StudentsInv, StudentsTypeOK, tables, ghosts
<1>3. LockInv'
  <2>1. \A v \in Calls \ {w} : Same(v)
    BY <1>1, SameIfEqual
  <2>. QED BY <1>1, <2>1, LockKept DEF tables, ghosts, At
<1>. QED BY <1>1, <1>2, <1>3, AccountWriteKeeps DEF tables, ghosts

LEMMA FailKeeps ==
  ASSUME StudentsInv, NEW w \in Calls, Fail(w)
  PROVE  StudentsInv'
<1>. DEFINE q == call[w].r
<1>1. /\ call' \in [Calls -> Call]
      /\ call'[w].op = "none" /\ call'[w].step = "idle" /\ call'[w].alone
      /\ \A v \in Calls \ {w} : Same(v)
  BY Returned, SameIfEqual DEF Fail, StudentsInv, StudentsTypeOK
<1>2. UNCHANGED <<tables, wrong, raced, left, begun>>
  BY DEF Fail
<1>3. /\ halfDone' \in {halfDone, halfDone \union {q}}
      /\ At(w, "register", "mark") \/ At(w, "request", "flag") => q \in halfDone'
      /\ contested' \in {contested, contested \union {q}}
      /\ HalfWay(w) => q \in contested'
  BY DEF Fail
<1>4. halfDone' \subseteq Rolls /\ contested' \subseteq Rolls
  <2>1. At(w, "register", "mark") \/ At(w, "request", "flag") \/ HalfWay(w) \/ ~call[w].alone
          => q \in Rolls
    BY DEF At, HalfWay, StudentsInv, CallInv
  <2>2. \/ halfDone' = halfDone
        \/ At(w, "register", "mark") \/ At(w, "request", "flag")
    BY DEF Fail
  <2>3. contested' = contested \/ HalfWay(w) \/ ~call[w].alone
    BY DEF Fail
  <2>. QED BY <1>3, <2>1, <2>2, <2>3 DEF StudentsInv, StudentsTypeOK
<1>5. StudentsTypeOK'
  BY <1>1, <1>2, <1>4 DEF StudentsInv, StudentsTypeOK, tables
<1>6. TablesGrow
  BY <1>2, TablesStay
<1>7. \A v \in Calls : CallInv(v)'
  <2>1. CallInv(w)'
    BY <1>1 DEF CallInv
  <2>. QED BY <1>1, <1>6, <2>1, CallsKept
<1>8. RegistrationMarked'
  BY <1>1, <1>2, <1>3, <1>6, RegistrationKept DEF tables
<1>9. LockInv'
  BY <1>1, <1>2, LockKept DEF tables, At
<1>10. /\ \A r \in Rolls : RowInv(r)'
       /\ \A v \in Calls : AloneInv(v)'
  <2>1. ~Hostel(w)'
    BY <1>1 DEF Hostel, HostelCall
  <2>2. HalfWay(w) => q \in contested' /\ (call[w].op = "request" => q \in halfDone')
    BY <1>3 DEF HalfWay, At
  <2>. QED BY <1>1, <1>2, <1>3, <1>6, <2>1, <2>2, HostelKept DEF tables
<1>. QED BY <1>5, <1>7, <1>8, <1>9, <1>10 DEF StudentsInv
-----------------------------------------------------------------------------
(* The theorems.                                                           *)

LEMMA InitStudents == Init => StudentsInv
<1>. SUFFICES ASSUME Init
              PROVE  StudentsInv
  OBVIOUS
<1>1. PICK seed \in Seeds : /\ pool = seed.pool /\ registered = seed.registered
                            /\ student = seed.student /\ requests = seed.requests
  BY DEF Init, StudentsInit
<1>2. /\ pool \in [Rolls -> Departments \union {NoDept}]
      /\ registered \subseteq Rolls
      /\ student \in [Rolls -> Row]
      /\ requests \in [Rolls -> Seq(Status)]
      /\ Orderly(seed)
  BY <1>1, StudentsAssumption
<1>3. \A w \in Calls : call[w] = Idle
  BY DEF Init, StudentsInit
<1>4. StudentsTypeOK
  <2>1. call \in [Calls -> Call]
    BY IdleIsCall DEF Init, StudentsInit
  <2>. QED BY <1>2, <2>1 DEF Init, StudentsInit, StudentsTypeOK
<1>5. \A w \in Calls : CallInv(w) /\ AloneInv(w)
  BY <1>3, IdleIsCall DEF CallInv, AloneInv, HostelCall
<1>6. ASSUME NEW r \in Rolls
      PROVE  /\ Exists(r) => pool[r] = student[r].dept
             /\ r \in registered <=> Exists(r)
             /\ ~student[r].locked /\ student[r].attempts = 0
             /\ Agree(r)
             /\ requests[r] # <<>> => Exists(r) /\ student[r].isHostel
  BY <1>1, <1>2 DEF Orderly, Agree, Exists
<1>7. RegistrationMarked
  BY <1>6 DEF RegistrationMarked
<1>8. LockInv
  <2>1. \A r \in Rolls : wrong[r] = 0
    BY DEF Init, StudentsInit
  <2>2. \A w \in Calls : ~At(w, "login", "fail")
    BY <1>3, IdleIsCall DEF At
  <2>. QED BY <1>6, <2>1, <2>2 DEF LockInv
<1>9. ASSUME NEW r \in Rolls
      PROVE  RowInv(r)
  <2>1. requests[r] = <<>> => ~student[r].approved
    BY <1>6 DEF Agree, Latest
  <2>. QED BY <1>6, <2>1 DEF RowInv
<1>. QED BY <1>4, <1>5, <1>7, <1>8, <1>9 DEF StudentsInv

\* A call that continues names a student, unless it fills the pool.
LEMMA NamesStudent ==
  ASSUME StudentsInv, NEW w \in Calls, call[w].op \notin {"none", "add", "import"}
  PROVE  \E q \in Rolls : call[w].r = q
  BY DEF StudentsInv, CallInv

LEMMA ContinueKeeps ==
  ASSUME StudentsInv, NEW w \in Calls, StudentContinues(w)
  PROVE  StudentsInv'
<1>1. CASE InsertRows(w)
  BY <1>1, InsertRowsKeeps
<1>2. CASE InsertStudent(w) \/ InsertRejected(w) \/ MarkRegistered(w)
  BY <1>2, InsertStudentKeeps, InsertRejectedKeeps, MarkRegisteredKeeps
<1>3. CASE RequestAtRegistration(w) \/ Fail(w)
  BY <1>3, RequestAtRegistrationKeeps, FailKeeps
<1>4. CASE InsertRequest(w) \/ FlagRequested(w) \/ WriteReview(w) \/ FlagReviewed(w)
  <2>1. PICK q \in Rolls : call[w].r = q
    BY <1>4, NamesStudent DEF InsertRequest, FlagRequested, WriteReview, FlagReviewed, At
  <2>. QED BY <1>4, <2>1, InsertRequestKeeps, FlagRequestedKeeps, WriteReviewKeeps,
              FlagReviewedKeeps
<1>5. CASE WriteFail(w) \/ WriteClear(w) \/ WriteChange(w)
  <2>1. PICK q \in Rolls : call[w].r = q
    BY <1>5, NamesStudent DEF WriteFail, WriteClear, WriteChange, At
  <2>. QED BY <1>5, <2>1, WriteFailKeeps, WriteClearKeeps, WriteChangeKeeps
<1>. QED BY <1>1, <1>2, <1>3, <1>4, <1>5 DEF StudentContinues

LEMMA BeginsKeeps ==
  ASSUME StudentsInv, NEW w \in Calls, StudentBegins(w)
  PROVE  StudentsInv'
  BY AddKeeps, RegisterKeeps, RequestKeeps, ReviewKeeps, WrongLoginKeeps, NamedBeginKeeps
  DEF StudentBegins

FeedbackTypeOK ==
  /\ complaint \in {"open", "Resolved", "deleted"}
  /\ feedback \in [Rolls -> {"none", "made", "edited", "edited twice"}]

LEMMA StudentsStep ==
  ASSUME StudentsInv, [Next]_vars
  PROVE  StudentsInv'
<1>1. CASE StudentsNext
  BY <1>1, BeginsKeeps, ContinueKeeps, ResetKeeps, DeactivateKeeps
  DEF StudentsNext, StudentAtOnce
<1>2. CASE \E w \in Calls, r \in Rolls : BeginFeedback(w, r) \/ BeginEdit(w, r)
  BY <1>2, NamedBeginKeeps
<1>3. CASE \E w \in Calls : Verify(w) \/ InsertFeedback(w) \/ WriteEdit(w)
  BY <1>3, VerifyKeeps, FeedbackReturnKeeps
<1>4. CASE UNCHANGED studentVars
  <2>1. StudentsTypeOK'
    BY <1>4 DEF StudentsInv, StudentsTypeOK, studentVars, tables, ghosts
  <2>2. LockInv'
    BY <1>4 DEF StudentsInv, LockInv, At, studentVars, tables, ghosts
  <2>. QED BY <1>4, <2>1, <2>2, AccountWriteKeeps DEF studentVars, tables, ghosts
<1>. QED BY <1>1, <1>2, <1>3, <1>4 DEF Next, ComplaintMoves, vars

LEMMA FeedbackTypes ==
  ASSUME StudentsInv, FeedbackTypeOK, [Next]_vars
  PROVE  FeedbackTypeOK'
<1>1. ASSUME NEW w \in Calls, InsertFeedback(w) \/ WriteEdit(w)
      PROVE  FeedbackTypeOK'
  BY <1>1 DEF InsertFeedback, WriteEdit, Edited, FeedbackTypeOK
<1>2. CASE ComplaintMoves
  BY <1>2 DEF ComplaintMoves, FeedbackTypeOK
<1>3. CASE UNCHANGED <<complaint, feedback>>
  BY <1>3 DEF FeedbackTypeOK
<1>. QED BY <1>1, <1>2, <1>3 DEF Next, BeginFeedback, BeginEdit, Verify, vars

LEMMA Always == Spec => [](StudentsInv /\ FeedbackTypeOK)
<1>1. Init => StudentsInv /\ FeedbackTypeOK
  BY InitStudents DEF Init, FeedbackTypeOK
<1>2. StudentsInv /\ FeedbackTypeOK /\ [Next]_vars => (StudentsInv /\ FeedbackTypeOK)'
  BY StudentsStep, FeedbackTypes
<1>. QED BY <1>1, <1>2, PTL DEF Spec

\* The variables have their types: a call in flight never names a student, a
\* department or a request that does not exist.
THEOREM StudentsTypeCorrect == Spec => []TypeOK
<1>1. StudentsInv /\ FeedbackTypeOK => TypeOK
  BY DEF StudentsInv, FeedbackTypeOK, TypeOK
<1>. QED BY <1>1, Always, PTL

\* The invariant the properties below follow from.
THEOREM StudentsInductive == Spec => []StudentsInv
  BY Always, PTL

\* Students come from the pool of their department, which says so once the
\* registration is over, unless it ended between the two writes.
\* (register_student, add_single_roll_number, import_excel_roll_numbers)
THEOREM RegistrationsMarked == Spec => []RegistrationMarked
<1>1. StudentsInv => RegistrationMarked
  BY DEF StudentsInv
<1>. QED BY <1>1, Always, PTL

\* The flag on the student is what the latest hostel request says, whatever was
\* requested and reviewed at once, unless the last calls overlapped, ended
\* half-way or reviewed an old request.
\* (submit_hostel_request, review_hostel_request, register_student)
THEOREM HostelAlwaysAgrees == Spec => []HostelAgrees
<1>1. StudentsInv => HostelAgrees
  <2>. SUFFICES ASSUME StudentsInv, NEW r \in Rolls \ contested, Settled(r)
                PROVE  /\ student[r].approved <=> Latest(requests[r]) = "Approved"
                       /\ student[r].approved => student[r].isHostel \/ r \in halfDone
    BY DEF HostelAgrees
  <2>1. \A w \in Calls : ~Dirty(w, r) /\ ~(At(w, "request", "flag") /\ call[w].r = r)
    BY DEF Settled, HostelCall, Dirty, HalfWay, At
  <2>2. RowInv(r)
    BY DEF StudentsInv
  <2>3. Agree(r)
    BY <2>1, <2>2 DEF RowInv
  <2>4. student[r].approved => requests[r] # <<>>
    BY <2>3 DEF Agree, Latest
  <2>. QED BY <2>1, <2>2, <2>3, <2>4 DEF RowInv, Agree
<1>. QED BY <1>1, Always, PTL

\* A student is locked by MaxFailed wrong passwords since the last zeroing, or by
\* deactivating the account, unless that zeroing met an attempt to be written.
\* (login_student, the resets, deactivate_student_account)
THEOREM StudentLocksEarned == Spec => []LockEarned
<1>1. StudentsInv => LockEarned
  BY DEF StudentsInv, LockInv, LockEarned
<1>. QED BY <1>1, Always, PTL

\* Only the trigger of a resolved complaint brings an INSERT before its row.
LEMMA PastTheTrigger ==
  ASSUME StudentsInv, [Next]_vars, complaint # "Resolved", NEW w \in Calls,
         ~At(w, "feedback", "store")
  PROVE  ~At(w, "feedback", "store")'
<1>. SUFFICES ASSUME At(w, "feedback", "store")'
              PROVE  FALSE
  OBVIOUS
<1>0. call \in [Calls -> Call] /\ call'[w].op = "feedback" /\ call'[w].step = "store"
  BY DEF StudentsInv, StudentsTypeOK, At
<1>1. ASSUME NEW v \in Calls, NEW k, call' = [call EXCEPT ![v] = k], v # w \/ k.step # "store"
      PROVE  FALSE
  BY <1>0, <1>1 DEF At
<1>2. ASSUME NEW v \in Calls,
             Return(v) \/ Goto(v, "mark") \/ Goto(v, "request") \/ Goto(v, "flag")
      PROVE  FALSE
  BY <1>0, <1>2, IdleIsCall DEF Return, Goto, At, Call
<1>3. ASSUME NEW v \in Calls, NEW k, Start(v, k), k.step # "store"
      PROVE  FALSE
  BY <1>1, <1>3 DEF Start
<1>4. ASSUME NEW v \in Calls, NEW k, StartHostel(v, k), k \in Call, k.step # "store"
      PROVE  FALSE
  <2>1. call'[w].step \in {call[w].step, k.step} /\ call'[w].op \in {call[w].op, k.op}
    BY <1>0, <1>4 DEF StartHostel, Call
  <2>2. call'[w].step = call[w].step /\ call'[w].op = call[w].op
    BY <1>0, <1>4, <2>1 DEF StartHostel, Call
  <2>. QED BY <1>0, <2>2 DEF At
<1>5. ASSUME call' = call
      PROVE  FALSE
  BY <1>0, <1>5 DEF At
<1>6. ASSUME NEW v \in Calls, NEW rows, Remaining(v, rows)
      PROVE  FALSE
  BY <1>0, <1>6, IdleIsCall DEF Remaining, At, Call
<1>7. ASSUME NEW v \in Calls, StudentBegins(v)
      PROVE  FALSE
  <2>1. ASSUME NEW r \in Rolls,
               \/ BeginWrongLogin(v, r) \/ BeginRightLogin(v, r) \/ BeginChange(v, r)
               \/ \E dept \in Departments : BeginAdd(v, dept, r)
        PROVE  FALSE
    BY <1>3, <2>1, IdleIsCall
       DEF BeginWrongLogin, BeginRightLogin, BeginChange, BeginAdd, Call
  <2>2. ASSUME NEW dept \in Departments, NEW file \in SUBSET Rolls, BeginImport(v, dept, file)
        PROVE  FALSE
    BY <1>3, <2>2, IdleIsCall DEF BeginImport, Call
  <2>3. ASSUME NEW dept \in Departments, NEW r \in Rolls, NEW hostel \in {0, 1},
               BeginRegister(v, dept, r, hostel)
        PROVE  FALSE
    <3>1. /\ Registration(dept, r, hostel) \in Call
          /\ Registration(dept, r, hostel).step = "insert"
      <4>1. hostel \in Nat
        OBVIOUS
      <4>2. Registration(dept, r, hostel) \in Call
        BY <4>1, RegistrationCall
      <4>. QED BY <4>2, IdleIsCall DEF Registration, Call
    <3>2. \/ Start(v, Registration(dept, r, hostel))
          \/ StartHostel(v, Registration(dept, r, hostel))
      BY <2>3 DEF BeginRegister
    <3>. QED BY <1>3, <1>4, <3>1, <3>2
  <2>4. ASSUME NEW r \in Rolls, BeginRequest(v, r)
        PROVE  FALSE
    BY <1>4, <2>4, IdleIsCall DEF BeginRequest, Idle, Call
  <2>5. ASSUME NEW r \in Rolls, NEW n \in 1..Len(requests[r]),
               NEW verdict \in {"Approved", "Denied"}, BeginReview(v, r, n, verdict)
        PROVE  FALSE
    <3>. DEFINE k == [Idle EXCEPT !.op = "review", !.step = "write", !.r = r, !.n = n,
                                  !.verdict = verdict]
    <3>1. n \in Nat
      BY DEF StudentsInv, StudentsTypeOK
    <3>2. k \in Call
      BY <3>1, ReviewCall
    <3>3. k.step = "write"
      BY IdleIsCall DEF Call
    <3>4. StartHostel(v, k)
      BY <2>5 DEF BeginReview
    <3>. HIDE DEF k
    <3>. QED BY <1>4, <3>2, <3>3, <3>4
  <2>. QED BY <1>7, <2>1, <2>2, <2>3, <2>4, <2>5 DEF StudentBegins
<1>8. ASSUME NEW v \in Calls, StudentContinues(v)
      PROVE  FALSE
  <2>1. CASE InsertRows(v)
    BY <1>6, <2>1 DEF InsertRows
  <2>2. CASE InsertStudent(v) \/ InsertRejected(v) \/ MarkRegistered(v) \/ Fail(v)
    BY <1>2, <2>2 DEF InsertStudent, InsertRejected, MarkRegistered, Fail
  <2>3. CASE RequestAtRegistration(v) \/ InsertRequest(v) \/ FlagRequested(v)
    BY <1>2, <2>3 DEF RequestAtRegistration, InsertRequest, FlagRequested
  <2>4. CASE WriteReview(v) \/ FlagReviewed(v) \/ WriteFail(v) \/ WriteClear(v) \/ WriteChange(v)
    BY <1>2, <2>4 DEF WriteReview, FlagReviewed, WriteFail, WriteClear, WriteChange
  <2>. QED BY <1>8, <2>1, <2>2, <2>3, <2>4 DEF StudentContinues
<1>9. ASSUME StudentAtOnce
      PROVE  FALSE
  BY <1>5, <1>9 DEF StudentAtOnce, ForgotPassword, Deactivate, ResetByCoordinator, AtOnce
<1>10. ASSUME NEW v \in Calls, NEW r \in Rolls, BeginFeedback(v, r) \/ BeginEdit(v, r)
       PROVE  FALSE
  BY <1>3, <1>10, IdleIsCall DEF BeginFeedback, BeginEdit, Call
<1>11. ASSUME NEW v \in Calls, Verify(v) \/ InsertFeedback(v) \/ WriteEdit(v)
       PROVE  FALSE
  BY <1>2, <1>11 DEF Verify, InsertFeedback, WriteEdit
<1>. QED BY <1>5, <1>7, <1>8, <1>9, <1>10, <1>11
         DEF Next, StudentsNext, ComplaintMoves, vars, studentVars

\* A complaint reopened or deleted takes no feedback but that of the INSERTs
\* already past their trigger, and no second edit changes one, for any number of
\* students and of calls under way.
\* (submit_feedback_v2, edit_feedback, the triggers of 005_functions.sql)
THEOREM FeedbackClosesTheorem == Spec => FeedbackCloses
<1>1. StudentsInv /\ FeedbackTypeOK /\ [Next]_vars =>
        [/\ Closed => /\ Closed' \/ complaint' = "Resolved"
                      /\ \A r \in Rolls : feedback[r] = "none" => feedback'[r] = "none"
         /\ \A r \in Rolls : feedback[r] = "edited" => feedback'[r] = "edited"]_vars
  <2>. SUFFICES ASSUME StudentsInv, FeedbackTypeOK, [Next]_vars
                PROVE  /\ Closed => /\ Closed' \/ complaint' = "Resolved"
                                    /\ \A r \in Rolls : feedback[r] = "none" => feedback'[r] = "none"
                       /\ \A r \in Rolls : feedback[r] = "edited" => feedback'[r] = "edited"
    OBVIOUS
  <2>1. Closed => Closed' \/ complaint' = "Resolved"
    BY PastTheTrigger DEF Closed
  <2>2. ASSUME NEW r \in Rolls, NEW w \in Calls, InsertFeedback(w)
        PROVE  /\ ~Closed
               /\ feedback[r] = "edited" => feedback'[r] = "edited"
    BY <2>2 DEF InsertFeedback, Closed, FeedbackTypeOK
  <2>3. ASSUME NEW r \in Rolls, NEW w \in Calls, WriteEdit(w)
        PROVE  /\ feedback[r] = "none" => feedback'[r] = "none"
               /\ feedback[r] = "edited" => feedback'[r] = "edited"
    BY <2>3 DEF WriteEdit, Editable, FeedbackTypeOK
  <2>4. CASE UNCHANGED feedback
    BY <2>1, <2>4
  <2>. QED BY <2>1, <2>2, <2>3, <2>4
           DEF Next, BeginFeedback, BeginEdit, Verify, ComplaintMoves, vars
<1>. QED BY <1>1, Always, PTL DEF Spec, FeedbackCloses
=============================================================================
