------------------------ MODULE StaffAccountsProofs ------------------------
(* What StaffAccounts promises, for any number of accounts, departments    *)
(* and concurrent calls.                                                   *)
EXTENDS StaffAccounts, TLAPS

-----------------------------------------------------------------------------
(* Types.                                                                  *)

LEMMA IdleIsCall == Idle \in Call
  BY DEF Idle, Call

LEMMA MoveType ==
  ASSUME call \in [Calls -> Call], NEW w \in Calls, NEW k \in Call,
         call' = [call EXCEPT ![w] = k]
  PROVE  call' \in [Calls -> Call]
  OBVIOUS

LEMMA ReturnType ==
  ASSUME call \in [Calls -> Call], NEW w \in Calls, Return(w)
  PROVE  call' \in [Calls -> Call]
  BY IdleIsCall, MoveType DEF Return

LEMMA GotoType ==
  ASSUME call \in [Calls -> Call], NEW w \in Calls,
         NEW step \in {"rename", "insert"}, Goto(w, step)
  PROVE  call' \in [Calls -> Call]
<1>1. [call[w] EXCEPT !.step = step] \in Call
  BY DEF Call
<1>. QED BY <1>1, MoveType DEF Goto

LEMMA PostParts ==
  ASSUME NEW post \in Posts
  PROVE  /\ post[1] \in Roles
         /\ post[2] \in Departments \union {NoDept}
         /\ Office(post[1], post[2]) \in SingleOffices \union {"Coordinator"}
         /\ post = <<post[1], post[2]>>
<1>1. PICK role \in Roles, dept \in Departments \union {NoDept} : post = <<role, dept>>
  BY DEF Posts, Roles
<1>2. role # "HOD" => role \in SingleOffices \union {"Coordinator"}
  BY DEF Roles, SingleOffices
<1>3. role = "HOD" => dept \in Departments
  BY <1>1 DEF Posts
<1>. QED BY <1>1, <1>2, <1>3 DEF Office, SingleOffices

LEMMA RegistrationType ==
  ASSUME NEW post \in Posts, NEW name \in Names
  PROVE  Registration(post[1], post[2], name) \in Call
<1>1. post[1] \in Roles /\ post[2] \in Departments \union {NoDept}
  BY PostParts
<1>. QED BY <1>1 DEF Registration, Idle, Call, Roles

\* What the writes make of a row is a row.
LEMMA RowWrites ==
  ASSUME NEW r \in Row, NEW u \in Accounts, NEW n \in Nat, NEW b \in BOOLEAN
  PROVE  /\ [r EXCEPT !.name = u] \in Row
         /\ [r EXCEPT !.active = FALSE] \in Row
         /\ [r EXCEPT !.active = TRUE, !.locked = FALSE, !.attempts = 0] \in Row
         /\ [r EXCEPT !.attempts = n, !.locked = b] \in Row
         /\ [r EXCEPT !.attempts = 0] \in Row
         /\ [r EXCEPT !.locked = FALSE, !.attempts = 0] \in Row
  BY DEF Row

LEMMA StaleCall ==
  ASSUME NEW k \in Call, NEW stale \in SUBSET Accounts, NEW step \in {"insert", "rename"}
  PROVE  [k EXCEPT !.stale = stale, !.step = step] \in Call
  BY DEF Call

LEMMA TypeBeginRegister ==
  ASSUME TypeOK, NEW w \in Calls, NEW post \in Posts, NEW name \in Names,
         \/ BeginRegister(w, post[1], post[2], name)
         \/ BeginRegisterBlind(w, post[1], post[2], name)
  PROVE  TypeOK'
<1>1. call' \in [Calls -> Call] /\ begun' \in Nat
  BY RegistrationType, MoveType DEF BeginRegister, BeginRegisterBlind, Start, TypeOK
<1>2. raced' \subseteq SingleOffices \union Names \union Accounts
  BY DEF BeginRegister, BeginRegisterBlind, TypeOK
<1>. QED BY <1>1, <1>2 DEF BeginRegister, BeginRegisterBlind, TypeOK

LEMMA TypeBeginOn ==
  ASSUME TypeOK, NEW w \in Calls, NEW a \in Accounts, NEW u \in Accounts,
         BeginDeactivate(w, a, u) \/ BeginReactivate(w, a, u)
  PROVE  TypeOK'
<1>1. ASSUME NEW op \in {"deactivate", "reactivate"}
      PROVE  On(op, u) \in Call
  <2>1. staff[u].role \in Roles \union {"none"} /\ staff[u].dept \in Departments \union {NoDept}
    BY DEF TypeOK, Row
  <2>. QED BY <2>1 DEF On, Idle, Call
<1>2. call' \in [Calls -> Call] /\ begun' \in Nat
  BY <1>1, MoveType DEF BeginDeactivate, BeginReactivate, Start, TypeOK
<1>3. raced' \subseteq SingleOffices \union Names \union Accounts
  BY DEF BeginDeactivate, BeginReactivate, TypeOK
<1>. QED BY <1>2, <1>3 DEF BeginDeactivate, BeginReactivate, TypeOK

LEMMA TypeBeginLogin ==
  ASSUME TypeOK, NEW w \in Calls, NEW u \in Accounts,
         BeginWrongLogin(w, u) \/ BeginRightLogin(w, u)
  PROVE  TypeOK'
<1>1. staff[u].attempts + 1 \in Nat /\ wrong[u] + 1 \in Nat
  BY DEF TypeOK, Row
<1>2. /\ [Idle EXCEPT !.op = "login", !.step = "fail", !.u = u,
                      !.n = staff[u].attempts + 1] \in Call
      /\ [Idle EXCEPT !.op = "login", !.step = "clear", !.u = u] \in Call
  BY <1>1 DEF Idle, Call
<1>3. call' \in [Calls -> Call] /\ begun' \in Nat
  BY <1>2, MoveType DEF BeginWrongLogin, BeginRightLogin, Start, TypeOK
<1>4. wrong' \in [Accounts -> Nat]
  BY <1>1 DEF BeginWrongLogin, BeginRightLogin, TypeOK
<1>. QED BY <1>3, <1>4 DEF BeginWrongLogin, BeginRightLogin, TypeOK

LEMMA TypeNames ==
  ASSUME TypeOK, CallInv, NEW w \in Calls,
         \/ NameTaken(w) \/ NameFree(w) \/ NamesUnsettled(w)
         \/ \E u \in Accounts : Rename(w, u)
  PROVE  TypeOK'
<1>1. call[w].op = "register" => call[w].name \in Names
  BY DEF CallInv
<1>2. CASE NameTaken(w)
  BY <1>2, ReturnType DEF NameTaken, TypeOK
<1>3. CASE NameFree(w)
  <2>1. call[w] \in Call /\ Named(call[w].name) \in SUBSET Accounts
    BY DEF TypeOK, Named
  <2>2. PICK step \in {"insert", "rename"} :
           call' = [call EXCEPT ![w] = [call[w] EXCEPT !.stale = Named(call[w].name),
                                                      !.step = step]]
    BY <1>3 DEF NameFree
  <2>3. call' \in [Calls -> Call]
    BY <2>1, <2>2, StaleCall, MoveType DEF TypeOK
  <2>. QED BY <1>1, <1>3, <2>3 DEF NameFree, TypeOK, At
<1>4. CASE NamesUnsettled(w)
  BY <1>1, <1>4, GotoType DEF NamesUnsettled, TypeOK
<1>5. ASSUME NEW u \in Accounts, Rename(w, u)
      PROVE  TypeOK'
  <2>1. call[w] \in Call /\ call[w].stale \ {u} \in SUBSET Accounts
    BY DEF TypeOK, Call
  <2>2. PICK step \in {"insert", "rename"} :
           call' = [call EXCEPT ![w] = [call[w] EXCEPT !.stale = call[w].stale \ {u},
                                                      !.step = step]]
    <3>1. CASE call[w].stale = {u}
      BY <1>5, <3>1 DEF Rename
    <3>2. CASE call[w].stale # {u}
      BY <1>5, <3>2 DEF Rename, At
    <3>. QED BY <3>1, <3>2
  <2>3. call' \in [Calls -> Call]
    BY <2>1, <2>2, StaleCall, MoveType DEF TypeOK
  <2>4. [staff[u] EXCEPT !.name = u] \in Row
    BY RowWrites DEF TypeOK
  <2>5. staff' \in [Accounts -> Row]
    BY <1>5, <2>4 DEF Rename, TypeOK
  <2>. QED BY <1>5, <2>3, <2>5 DEF Rename, TypeOK
<1>. QED BY <1>2, <1>3, <1>4, <1>5

LEMMA TypeWrites ==
  ASSUME TypeOK, CallInv, NEW w \in Calls,
         \/ \E u \in Accounts : Insert(w, u) \/ InsertRejected(w, u)
         \/ WriteDeactivate(w) \/ WriteReactivate(w) \/ ReactivateRejected(w)
         \/ WriteFail(w) \/ WriteClear(w) \/ Fail(w)
  PROVE  TypeOK'
<1>1. call' \in [Calls -> Call]
  BY ReturnType DEF TypeOK, Insert, InsertRejected, WriteDeactivate, WriteReactivate,
         ReactivateRejected, WriteFail, WriteClear, Fail
<1>2. ASSUME NEW u \in Accounts, Insert(w, u)
      PROVE  TypeOK'
  <2>1. <<call[w].role, call[w].dept>> \in Posts /\ call[w].name \in Names
    BY <1>2 DEF Insert, At, CallInv
  <2>2. call[w].role \in Roles /\ call[w].dept \in Departments \union {NoDept}
    BY <2>1, PostParts
  <2>3. [role |-> call[w].role, dept |-> call[w].dept, name |-> call[w].name,
         active |-> TRUE, locked |-> FALSE, attempts |-> 0] \in Row
    BY <2>1, <2>2 DEF Row
  <2>4. staff' \in [Accounts -> Row]
    BY <1>2, <2>3 DEF Insert, TypeOK
  <2>. QED BY <1>1, <1>2, <2>4 DEF Insert, TypeOK
<1>3. ASSUME NEW u \in Accounts, InsertRejected(w, u)
      PROVE  TypeOK'
  BY <1>1, <1>3 DEF InsertRejected, TypeOK
<1>4. CASE ReactivateRejected(w) \/ Fail(w)
  BY <1>1, <1>4 DEF ReactivateRejected, Fail, TypeOK
<1>5. CASE WriteDeactivate(w)
  <2>1. call[w].u \in Accounts
    BY <1>5 DEF WriteDeactivate, At, CallInv
  <2>2. [staff[call[w].u] EXCEPT !.active = FALSE] \in Row
    BY <2>1, RowWrites DEF TypeOK
  <2>3. staff' \in [Accounts -> Row]
    BY <1>5, <2>1, <2>2 DEF WriteDeactivate, TypeOK
  <2>. QED BY <1>1, <1>5, <2>3 DEF WriteDeactivate, TypeOK
<1>6. CASE WriteReactivate(w)
  <2>1. call[w].u \in Accounts
    BY <1>6 DEF WriteReactivate, At, CallInv
  <2>2. [staff[call[w].u] EXCEPT !.active = TRUE, !.locked = FALSE, !.attempts = 0] \in Row
    BY <2>1, RowWrites DEF TypeOK
  <2>3. staff' \in [Accounts -> Row]
    BY <1>6, <2>1, <2>2 DEF WriteReactivate, TypeOK
  <2>. QED BY <1>1, <1>6, <2>1, <2>3 DEF WriteReactivate, Forgive, TypeOK
<1>7. CASE WriteFail(w)
  <2>1. call[w].u \in Accounts /\ call[w].n \in Nat
    BY <1>7 DEF WriteFail, At, CallInv, TypeOK, Call
  <2>2. (staff[call[w].u].locked \/ call[w].n >= MaxFailed) \in BOOLEAN
    OBVIOUS
  <2>3. [staff[call[w].u] EXCEPT !.attempts = call[w].n,
                                 !.locked = @ \/ call[w].n >= MaxFailed] \in Row
    BY <2>1, <2>2, RowWrites DEF TypeOK
  <2>4. staff' = [staff EXCEPT ![call[w].u] =
                    [staff[call[w].u] EXCEPT !.attempts = call[w].n,
                                 !.locked = @ \/ call[w].n >= MaxFailed]]
    BY <1>7 DEF WriteFail
  <2>5. staff' \in [Accounts -> Row]
    BY <2>1, <2>3, <2>4 DEF TypeOK
  <2>. QED BY <1>1, <1>7, <2>5 DEF WriteFail, TypeOK
<1>8. CASE WriteClear(w)
  <2>1. call[w].u \in Accounts
    BY <1>8 DEF WriteClear, At, CallInv
  <2>2. [staff[call[w].u] EXCEPT !.attempts = 0] \in Row
    BY <2>1, RowWrites DEF TypeOK
  <2>3. staff' \in [Accounts -> Row]
    BY <1>8, <2>1, <2>2 DEF WriteClear, TypeOK
  <2>. QED BY <1>1, <1>8, <2>1, <2>3 DEF WriteClear, Forgive, TypeOK
<1>. QED BY <1>2, <1>3, <1>4, <1>5, <1>6, <1>7, <1>8

LEMMA TypeStep ==
  ASSUME TypeOK, CallInv, [Next]_vars
  PROVE  TypeOK'
<1>1. ASSUME NEW w \in Calls, Begins(w)
      PROVE  TypeOK'
  BY <1>1, TypeBeginRegister, TypeBeginOn, TypeBeginLogin DEF Begins
<1>2. ASSUME NEW w \in Calls, Continue(w)
      PROVE  TypeOK'
  BY <1>2, TypeNames, TypeWrites DEF Continue
<1>3. ASSUME NEW a \in Accounts, NEW u \in Accounts, ResetPassword(a, u)
      PROVE  TypeOK'
  <2>1. [staff[u] EXCEPT !.locked = FALSE, !.attempts = 0] \in Row
    BY RowWrites DEF TypeOK
  <2>2. staff' \in [Accounts -> Row]
    BY <1>3, <2>1 DEF ResetPassword, TypeOK
  <2>. QED BY <1>3, <2>2 DEF ResetPassword, Forgive, TypeOK
<1>4. CASE UNCHANGED vars
  BY <1>4 DEF vars, TypeOK
<1>. QED BY <1>1, <1>2, <1>3, <1>4 DEF Next

-----------------------------------------------------------------------------
(* What one step can do to a row, to the ghost and to the calls.           *)

LEMMA BeginsKeep ==
  ASSUME NEW w \in Calls, Begins(w)
  PROVE  /\ staff' = staff
         /\ raced \subseteq raced'
         /\ \E k : call' = [call EXCEPT ![w] = k]
         /\ call[w] = Idle
  BY DEF Begins, BeginRegister, BeginRegisterBlind, BeginDeactivate, BeginReactivate,
         BeginWrongLogin, BeginRightLogin, Start

LEMMA ContinueMoves ==
  ASSUME NEW w \in Calls, Continue(w)
  PROVE  \E k : call' = [call EXCEPT ![w] = k]
<1>1. CASE NameTaken(w) \/ NameFree(w) \/ NamesUnsettled(w)
  BY <1>1 DEF NameTaken, NameFree, NamesUnsettled, Return, Goto
<1>2. CASE \E u \in Accounts : Rename(w, u) \/ Insert(w, u) \/ InsertRejected(w, u)
  BY <1>2 DEF Rename, Insert, InsertRejected, Return
<1>3. CASE WriteDeactivate(w) \/ WriteReactivate(w) \/ ReactivateRejected(w)
           \/ WriteFail(w) \/ WriteClear(w) \/ Fail(w)
  BY <1>3 DEF WriteDeactivate, WriteReactivate, ReactivateRejected, WriteFail,
     WriteClear, Fail, Return
<1>. QED BY <1>1, <1>2, <1>3 DEF Continue

LEMMA CallChange ==
  ASSUME TypeOK, [Next]_vars, NEW w \in Calls, call'[w] # call[w]
  PROVE  Begins(w) \/ Continue(w)
<1>1. ASSUME NEW v \in Calls, Begins(v) \/ Continue(v)
      PROVE  v = w
  BY <1>1, BeginsKeep, ContinueMoves DEF TypeOK
<1>2. ASSUME NEW a \in Accounts, NEW u \in Accounts, ResetPassword(a, u)
      PROVE  FALSE
  BY <1>2 DEF ResetPassword
<1>3. CASE UNCHANGED vars
  BY <1>3 DEF vars
<1>. QED BY <1>1, <1>2, <1>3 DEF Next

\* Only the mark on an account's counter is ever taken away.
LEMMA RacedStays ==
  ASSUME CallInv, [Next]_vars, NEW o \in raced, o \notin Accounts
  PROVE  o \in raced'
<1>1. ASSUME NEW w \in Calls, Begins(w)
      PROVE  o \in raced'
  BY <1>1, BeginsKeep
<1>2. ASSUME NEW w \in Calls, Continue(w)
      PROVE  o \in raced'
  <2>1. CASE NameTaken(w) \/ NameFree(w) \/ NamesUnsettled(w)
    BY <2>1 DEF NameTaken, NameFree, NamesUnsettled
  <2>2. CASE \E u \in Accounts : Rename(w, u) \/ Insert(w, u) \/ InsertRejected(w, u)
    BY <2>2 DEF Rename, Insert, InsertRejected
  <2>3. CASE WriteDeactivate(w) \/ ReactivateRejected(w) \/ WriteFail(w) \/ Fail(w)
    BY <2>3 DEF WriteDeactivate, ReactivateRejected, WriteFail, Fail
  <2>4. CASE WriteReactivate(w) \/ WriteClear(w)
    <3>1. call[w].u \in Accounts
      BY <2>4 DEF WriteReactivate, WriteClear, At, CallInv
    <3>. QED BY <2>4, <3>1 DEF WriteReactivate, WriteClear, Forgive
  <2>. QED BY <1>2, <2>1, <2>2, <2>3, <2>4 DEF Continue
<1>3. ASSUME NEW a \in Accounts, NEW u \in Accounts, ResetPassword(a, u)
      PROVE  o \in raced'
  BY <1>3 DEF ResetPassword, Forgive
<1>4. CASE UNCHANGED vars
  BY <1>4 DEF vars
<1>. QED BY <1>1, <1>2, <1>3, <1>4 DEF Next

\* The writes of a call that knows its account.
OwnWrite(w) == WriteDeactivate(w) \/ WriteReactivate(w) \/ WriteFail(w) \/ WriteClear(w)

LEMMA RowChange ==
  ASSUME TypeOK, CallInv, [Next]_vars, NEW u \in Accounts, staff'[u] # staff[u]
  PROVE  \/ \E w \in Calls : Insert(w, u) \/ Rename(w, u)
         \/ \E w \in Calls : call[w].u = u /\ OwnWrite(w)
         \/ \E a \in Accounts : ResetPassword(a, u)
<1>1. ASSUME NEW w \in Calls, Begins(w)
      PROVE  FALSE
  BY <1>1, BeginsKeep
<1>2. ASSUME NEW w \in Calls, Continue(w)
      PROVE  Insert(w, u) \/ Rename(w, u) \/ (call[w].u = u /\ OwnWrite(w))
  <2>1. CASE NameTaken(w) \/ NameFree(w) \/ NamesUnsettled(w)
    BY <2>1 DEF NameTaken, NameFree, NamesUnsettled
  <2>2. CASE \E v \in Accounts : Rename(w, v) \/ Insert(w, v) \/ InsertRejected(w, v)
    BY <2>2 DEF Rename, Insert, InsertRejected, TypeOK
  <2>3. CASE ReactivateRejected(w) \/ Fail(w)
    BY <2>3 DEF ReactivateRejected, Fail
  <2>4. CASE OwnWrite(w)
    <3>1. call[w].u = u
      BY <2>4 DEF OwnWrite, WriteDeactivate, WriteReactivate, WriteFail, WriteClear, TypeOK
    <3>. QED BY <2>4, <3>1
  <2>. QED BY <1>2, <2>1, <2>2, <2>3, <2>4 DEF Continue, OwnWrite
<1>3. ASSUME NEW a \in Accounts, NEW v \in Accounts, ResetPassword(a, v)
      PROVE  v = u
  BY <1>3 DEF ResetPassword, TypeOK
<1>4. CASE UNCHANGED vars
  BY <1>4 DEF vars
<1>. QED BY <1>1, <1>2, <1>3, <1>4 DEF Next

\* What each of these writes leaves of the row.
LEMMA OwnWriteKeeps ==
  ASSUME TypeOK, NEW w \in Calls, NEW u \in Accounts, call[w].u = u, OwnWrite(w)
  PROVE  /\ staff'[u].role = staff[u].role
         /\ staff'[u].dept = staff[u].dept
         /\ staff'[u].name = staff[u].name
         /\ ~WriteDeactivate(w) /\ staff[u].active => staff'[u].active
         /\ ~WriteReactivate(w) /\ ~staff[u].active => ~staff'[u].active
<1>0. staff[u] \in Row
  BY DEF TypeOK
<1>1. CASE WriteDeactivate(w)
  BY <1>0, <1>1 DEF WriteDeactivate, TypeOK, Row
<1>2. CASE WriteReactivate(w)
  BY <1>0, <1>2 DEF WriteReactivate, TypeOK, Row
<1>3. CASE WriteFail(w)
  BY <1>0, <1>3 DEF WriteFail, TypeOK, Row
<1>4. CASE WriteClear(w)
  BY <1>0, <1>4 DEF WriteClear, TypeOK, Row
<1>. QED BY <1>1, <1>2, <1>3, <1>4 DEF OwnWrite

LEMMA RowStep ==
  ASSUME TypeOK, CallInv, [Next]_vars, NEW u \in Accounts
  PROVE  \/ \E w \in Calls : Insert(w, u)
         \/ /\ staff'[u].role = staff[u].role
            /\ staff'[u].dept = staff[u].dept
            /\ \/ staff'[u].name = staff[u].name
               \/ staff'[u].name = u /\ \E w \in Calls : Rename(w, u)
            /\ staff[u].active /\ ~staff'[u].active =>
                 \E w \in Calls : call[w].u = u /\ WriteDeactivate(w)
            /\ ~staff[u].active /\ staff'[u].active =>
                 \E w \in Calls : call[w].u = u /\ WriteReactivate(w)
<1>1. CASE staff'[u] = staff[u]
  BY <1>1
<1>2. ASSUME NEW w \in Calls, Rename(w, u)
      PROVE  /\ staff'[u].role = staff[u].role
             /\ staff'[u].dept = staff[u].dept
             /\ staff'[u].name = u
             /\ staff'[u].active = staff[u].active
  BY <1>2 DEF Rename, TypeOK, Row
<1>3. ASSUME NEW a \in Accounts, ResetPassword(a, u)
      PROVE  /\ staff'[u].role = staff[u].role
             /\ staff'[u].dept = staff[u].dept
             /\ staff'[u].name = staff[u].name
             /\ staff'[u].active = staff[u].active
  BY <1>3 DEF ResetPassword, TypeOK, Row
<1>4. CASE \E w \in Calls : call[w].u = u /\ OwnWrite(w)
  BY <1>4, OwnWriteKeeps
<1>5. CASE \E w \in Calls : Rename(w, u)
  BY <1>2, <1>5
<1>6. CASE \E a \in Accounts : ResetPassword(a, u)
  BY <1>3, <1>6
<1>. QED BY <1>1, <1>4, <1>5, <1>6, RowChange

-----------------------------------------------------------------------------
(* Offices.                                                                *)

\* Marks are on offices, usernames and accounts, which are three kinds.
LEMMA Kinds ==
  /\ \A o \in SingleOffices : o \notin Accounts
  /\ \A n \in Names : n \notin Accounts
  /\ "none" \notin Roles
  BY AccountsAssumption DEF AccountsAssumption, Roles

LEMMA DepartmentOffice ==
  ASSUME NEW role \in Roles, NEW dept, Office(role, dept) \in Departments
  PROVE  role = "HOD" /\ dept = Office(role, dept)
  BY AccountsAssumption DEF AccountsAssumption, Office

LEMMA Inserted ==
  ASSUME TypeOK, CallInv, NEW w \in Calls, NEW u \in Accounts, Insert(w, u)
  PROVE  /\ ~Registered(u) /\ call[w].op = "register" /\ call[w].step = "insert"
         /\ <<call[w].role, call[w].dept>> \in Posts
         /\ call[w].name \in Names
         /\ staff'[u].role = call[w].role
         /\ staff'[u].dept = call[w].dept
         /\ staff'[u].name = call[w].name
         /\ staff'[u].active
         /\ staff'[u].attempts = 0 /\ ~staff'[u].locked
         /\ OfficeOf(u)' = CallOffice(w)
         /\ \A v \in Accounts : v # u => staff'[v] = staff[v]
         /\ raced' = raced
         /\ call' = [call EXCEPT ![w] = Idle]
<1>1. call[w].op = "register" /\ call[w].step = "insert"
  BY DEF Insert, At
<1>2. staff'[u] = [role |-> call[w].role, dept |-> call[w].dept, name |-> call[w].name,
                   active |-> TRUE, locked |-> FALSE, attempts |-> 0]
  BY DEF Insert, TypeOK
<1>3. <<call[w].role, call[w].dept>> \in Posts /\ call[w].name \in Names
  BY <1>1 DEF CallInv
<1>. QED BY <1>1, <1>2, <1>3 DEF Insert, Return, TypeOK, OfficeOf, CallOffice

LEMMA RowInvStep ==
  ASSUME TypeOK, RowInv, CallInv, [Next]_vars
  PROVE  RowInv'
<1>. SUFFICES ASSUME NEW u \in Accounts
              PROVE  /\ staff'[u].active => Registered(u)'
                     /\ Registered(u)' => <<staff'[u].role, staff'[u].dept>> \in Posts
                     /\ Registered(u)' => staff'[u].name \in Names \union {u}
                     /\ Registered(u)' /\ ~staff'[u].active /\ OfficeOf(u)' \in SingleOffices
                          => OfficeOf(u)' \in raced' \ Departments
  BY DEF RowInv, Registered, OfficeOf
<1>1. CASE \E w \in Calls : Insert(w, u)
  <2>1. PICK w \in Calls : Insert(w, u)
    BY <1>1
  <2>2. call[w].role \in Roles
    BY <2>1, Inserted, PostParts
  <2>3. /\ staff'[u].active /\ staff'[u].role \in Roles
        /\ <<staff'[u].role, staff'[u].dept>> \in Posts
        /\ staff'[u].name \in Names
    BY <2>1, <2>2, Inserted
  <2>. QED BY <2>3, Kinds DEF Registered
<1>2. CASE ~\E w \in Calls : Insert(w, u)
  <2>1. /\ Registered(u)' = Registered(u)
        /\ OfficeOf(u)' = OfficeOf(u)
        /\ staff'[u].role = staff[u].role
        /\ staff'[u].dept = staff[u].dept
        /\ staff'[u].name \in {staff[u].name, u}
    BY <1>2, RowStep DEF Registered, OfficeOf
  <2>2. ASSUME ~staff[u].active, staff'[u].active
        PROVE  Registered(u)
    <3>1. PICK w \in Calls : call[w].u = u /\ WriteReactivate(w)
      BY <1>2, <2>2, RowStep
    <3>. QED BY <3>1 DEF WriteReactivate, At, CallInv
  <2>3. ASSUME staff[u].active, ~staff'[u].active, OfficeOf(u) \in SingleOffices
        PROVE  OfficeOf(u) \in raced \ Departments
    <3>1. PICK w \in Calls : call[w].u = u /\ WriteDeactivate(w)
      BY <1>2, <2>3, RowStep
    <3>2. CallOffice(w) = OfficeOf(u) /\ call[w].op = "deactivate"
      BY <3>1 DEF WriteDeactivate, At, CallInv, CallOffice, OfficeOf
    <3>. QED BY <2>3, <3>2 DEF CallInv
  <2>4. OfficeOf(u) \in SingleOffices /\ OfficeOf(u) \in raced => OfficeOf(u) \in raced'
    BY Kinds, RacedStays
  <2>. QED BY <2>1, <2>2, <2>3, <2>4 DEF RowInv
<1>. QED BY <1>1, <1>2

\* A call that goes on either ends or is a registration that goes on.
LEMMA ContinueCall ==
  ASSUME TypeOK, NEW w \in Calls, Continue(w)
  PROVE  \/ call'[w] = Idle
         \/ /\ call[w].op = "register" /\ call'[w].op = "register"
            /\ call'[w].role = call[w].role
            /\ call'[w].dept = call[w].dept
            /\ call'[w].name = call[w].name
            /\ call'[w].step \in {"rename", "insert"}
            /\ NameFree(w) \/ NamesUnsettled(w) \/ \E u \in Accounts : Rename(w, u)
<1>0. call[w] \in Call
  BY DEF TypeOK
<1>1. CASE NameFree(w)
  <2>1. PICK step \in {"insert", "rename"} :
           call' = [call EXCEPT ![w] = [call[w] EXCEPT !.stale = Named(call[w].name),
                                                      !.step = step]]
    BY <1>1 DEF NameFree
  <2>2. call[w].op = "register"
    BY <1>1 DEF NameFree, At
  <2>. QED BY <1>0, <1>1, <2>1, <2>2 DEF TypeOK, Call
<1>2. CASE NamesUnsettled(w)
  BY <1>0, <1>2 DEF NamesUnsettled, Goto, TypeOK, Call
<1>3. ASSUME NEW u \in Accounts, Rename(w, u)
      PROVE  /\ call[w].op = "register" /\ call'[w].op = "register"
             /\ call'[w].role = call[w].role
             /\ call'[w].dept = call[w].dept
             /\ call'[w].name = call[w].name
             /\ call'[w].step \in {"rename", "insert"}
  BY <1>0, <1>3 DEF Rename, At, TypeOK, Call
<1>4. CASE NameTaken(w) \/ \E u \in Accounts : Insert(w, u) \/ InsertRejected(w, u)
  BY <1>4 DEF NameTaken, Insert, InsertRejected, Return, TypeOK
<1>5. CASE WriteDeactivate(w) \/ WriteReactivate(w) \/ ReactivateRejected(w)
           \/ WriteFail(w) \/ WriteClear(w) \/ Fail(w)
  BY <1>5 DEF WriteDeactivate, WriteReactivate, ReactivateRejected, WriteFail,
     WriteClear, Fail, Return, TypeOK
<1>. QED BY <1>1, <1>2, <1>3, <1>4, <1>5 DEF Continue

\* What a call is when it begins.
LEMMA Begun ==
  ASSUME TypeOK, NEW w \in Calls, Begins(w)
  PROVE  \/ \E post \in Posts, name \in Names :
              /\ call'[w] = Registration(post[1], post[2], name)
              /\ \/ BeginRegister(w, post[1], post[2], name)
                 \/ BeginRegisterBlind(w, post[1], post[2], name)
         \/ \E a, u \in Accounts : call'[w] = On("deactivate", u) /\ BeginDeactivate(w, a, u)
         \/ \E a, u \in Accounts : call'[w] = On("reactivate", u) /\ BeginReactivate(w, a, u)
         \/ /\ call'[w].op = "login" /\ call'[w].u \in Accounts
            /\ call'[w].step \in {"fail", "clear"}
            /\ \E u \in Accounts : BeginWrongLogin(w, u) \/ BeginRightLogin(w, u)
<1>1. ASSUME NEW post \in Posts, NEW name \in Names,
             \/ BeginRegister(w, post[1], post[2], name)
             \/ BeginRegisterBlind(w, post[1], post[2], name)
      PROVE  call'[w] = Registration(post[1], post[2], name)
  BY <1>1 DEF BeginRegister, BeginRegisterBlind, Start, TypeOK
<1>2. ASSUME NEW a \in Accounts, NEW u \in Accounts, BeginDeactivate(w, a, u)
      PROVE  call'[w] = On("deactivate", u)
  BY <1>2 DEF BeginDeactivate, Start, TypeOK
<1>3. ASSUME NEW a \in Accounts, NEW u \in Accounts, BeginReactivate(w, a, u)
      PROVE  call'[w] = On("reactivate", u)
  BY <1>3 DEF BeginReactivate, Start, TypeOK
<1>4. ASSUME NEW u \in Accounts, BeginWrongLogin(w, u) \/ BeginRightLogin(w, u)
      PROVE  /\ call'[w].op = "login" /\ call'[w].u \in Accounts
             /\ call'[w].step \in {"fail", "clear"}
  <2>1. CASE BeginWrongLogin(w, u)
    <3>1. call'[w] = [Idle EXCEPT !.op = "login", !.step = "fail", !.u = u,
                                  !.n = staff[u].attempts + 1]
      BY <2>1 DEF BeginWrongLogin, Start, TypeOK
    <3>. QED BY <3>1 DEF Idle
  <2>2. CASE BeginRightLogin(w, u)
    <3>1. call'[w] = [Idle EXCEPT !.op = "login", !.step = "clear", !.u = u]
      BY <2>2 DEF BeginRightLogin, Start, TypeOK
    <3>. QED BY <3>1 DEF Idle
  <2>. QED BY <1>4, <2>1, <2>2
<1>5. CASE \E post \in Posts, name \in Names :
             \/ BeginRegister(w, post[1], post[2], name)
             \/ BeginRegisterBlind(w, post[1], post[2], name)
  BY <1>1, <1>5
<1>6. CASE \E a, u \in Accounts : BeginDeactivate(w, a, u)
  BY <1>2, <1>6
<1>7. CASE \E a, u \in Accounts : BeginReactivate(w, a, u)
  BY <1>3, <1>7
<1>8. CASE \E u \in Accounts : BeginWrongLogin(w, u) \/ BeginRightLogin(w, u)
  BY <1>4, <1>8
<1>9. \/ \E post \in Posts, name \in Names :
           \/ BeginRegister(w, post[1], post[2], name)
           \/ BeginRegisterBlind(w, post[1], post[2], name)
      \/ \E a, u \in Accounts : BeginDeactivate(w, a, u)
      \/ \E a, u \in Accounts : BeginReactivate(w, a, u)
      \/ \E u \in Accounts : BeginWrongLogin(w, u) \/ BeginRightLogin(w, u)
  BY DEF Begins
<1>. QED BY <1>5, <1>6, <1>7, <1>8, <1>9

\* A registered account keeps its post.
LEMMA PostKept ==
  ASSUME TypeOK, CallInv, [Next]_vars, NEW u \in Accounts, Registered(u)
  PROVE  /\ Registered(u)'
         /\ staff'[u].role = staff[u].role
         /\ staff'[u].dept = staff[u].dept
         /\ OfficeOf(u)' = OfficeOf(u)
<1>1. ~\E w \in Calls : Insert(w, u)
  BY DEF Insert
<1>. QED BY <1>1, RowStep DEF Registered, OfficeOf

\* Whoever may be deactivated shares the office, so it was raced for.
LEMMA SharedOffice ==
  ASSUME RowInv, OfficeHeldOnce, NEW o \in SingleOffices, SomebodyElse(o)
  PROVE  o \in raced \ Departments
<1>1. PICK x \in Holders(o), y \in Holders(o) : x # y
  BY DEF SomebodyElse
<1>2. /\ x \in Accounts /\ y \in Accounts
      /\ Holds(x) /\ Holds(y) /\ OfficeOf(x) = o /\ OfficeOf(y) = o
  BY DEF Holders, HoldersIn, Holds, OfficeOf
<1>. QED BY <1>1, <1>2 DEF OfficeHeldOnce

LEMMA CallInvStep ==
  ASSUME TypeOK, RowInv, CallInv, OfficeHeldOnce, [Next]_vars
  PROVE  CallInv'
<1>. SUFFICES ASSUME NEW w \in Calls
              PROVE  /\ call'[w].op = "register" =>
                          /\ <<call'[w].role, call'[w].dept>> \in Posts
                          /\ call'[w].name \in Names
                     /\ call'[w].op = "login" => call'[w].u \in Accounts
                     /\ call'[w].op \in {"deactivate", "reactivate"} =>
                          /\ call'[w].u \in Accounts
                          /\ staff'[call'[w].u].role # "none"
                          /\ call'[w].role = staff'[call'[w].u].role
                          /\ call'[w].dept = staff'[call'[w].u].dept
                     /\ call'[w].op = "deactivate" /\ CallOffice(w)' \in SingleOffices
                          => CallOffice(w)' \in raced' \ Departments
                     /\ call'[w].step \in {"rename", "insert"} => call'[w].op = "register"
  BY DEF CallInv, CallOffice, Registered
<1>1. CASE call'[w] = call[w]
  <2>1. call[w].op \in {"deactivate", "reactivate"} =>
          /\ call[w].u \in Accounts
          /\ staff'[call'[w].u].role # "none"
          /\ call[w].role = staff'[call[w].u].role
          /\ call[w].dept = staff'[call[w].u].dept
    BY <1>1, PostKept DEF CallInv, Registered
  <2>2. CallOffice(w)' = CallOffice(w)
    BY <1>1 DEF CallOffice
  <2>3. call[w].op = "deactivate" /\ CallOffice(w) \in SingleOffices
          => CallOffice(w) \in raced' \ Departments
    BY Kinds, RacedStays DEF CallInv
  <2>. QED BY <1>1, <2>1, <2>2, <2>3 DEF CallInv
<1>2. ASSUME NEW post \in Posts, NEW name \in Names,
             call'[w] = Registration(post[1], post[2], name)
      PROVE  /\ call'[w].op = "register" /\ call'[w].step = "names"
             /\ <<call'[w].role, call'[w].dept>> \in Posts
             /\ call'[w].name \in Names
  BY <1>2, PostParts DEF Registration, Idle
<1>3. ASSUME NEW u \in Accounts, NEW op \in {"deactivate", "reactivate"},
             call'[w] = On(op, u), Begins(w), Registered(u)
      PROVE  /\ call'[w].op = op /\ call'[w].step = "write" /\ call'[w].u = u
             /\ staff'[call'[w].u].role # "none"
             /\ call'[w].role = staff'[u].role
             /\ call'[w].dept = staff'[u].dept
             /\ CallOffice(w)' = OfficeOf(u)
  <2>1. staff' = staff
    BY <1>3, BeginsKeep
  <2>. QED BY <1>3, <2>1 DEF On, Idle, CallOffice, OfficeOf, Registered
<1>4. CASE Begins(w)
  <2>1. ASSUME NEW a \in Accounts, NEW u \in Accounts, BeginDeactivate(w, a, u),
               call'[w] = On("deactivate", u)
        PROVE  /\ Registered(u)
               /\ OfficeOf(u) \in SingleOffices => OfficeOf(u) \in raced' \ Departments
    BY <1>4, <2>1, SharedOffice, BeginsKeep DEF BeginDeactivate
  <2>2. CASE \E post \in Posts, name \in Names : call'[w] = Registration(post[1], post[2], name)
    BY <1>2, <2>2
  <2>3. CASE \E a, u \in Accounts : call'[w] = On("deactivate", u) /\ BeginDeactivate(w, a, u)
    <3>1. PICK a \in Accounts, u \in Accounts :
            call'[w] = On("deactivate", u) /\ BeginDeactivate(w, a, u)
      BY <2>3
    <3>. QED BY <1>3, <1>4, <2>1, <3>1
  <2>4. CASE \E a, u \in Accounts : call'[w] = On("reactivate", u) /\ BeginReactivate(w, a, u)
    <3>1. PICK a \in Accounts, u \in Accounts :
            call'[w] = On("reactivate", u) /\ BeginReactivate(w, a, u)
      BY <2>4
    <3>2. Registered(u)
      BY <3>1 DEF BeginReactivate
    <3>. QED BY <1>3, <1>4, <3>1, <3>2
  <2>5. CASE call'[w].op = "login" /\ call'[w].u \in Accounts /\ call'[w].step \in {"fail", "clear"}
    BY <2>5
  <2>. QED BY <1>4, <2>2, <2>3, <2>4, <2>5, Begun
<1>5. CASE Continue(w)
  <2>1. CASE call'[w] = Idle
    BY <2>1 DEF Idle
  <2>2. CASE call'[w] # Idle
    BY <1>5, <2>2, ContinueCall DEF CallInv
  <2>. QED BY <2>1, <2>2
<1>. QED BY <1>1, <1>4, <1>5, CallChange

\* A new account that shares its office was registered in a race, and is no
\* head of department: the unique index sees to that.
LEMMA InsertedAlone ==
  ASSUME TypeOK, RowInv, CallInv, FoundFree, NEW w \in Calls, NEW u \in Accounts,
         Insert(w, u), NEW v \in Accounts, u # v, Holds(u)', Holds(v)',
         OfficeOf(u)' = OfficeOf(v)'
  PROVE  OfficeOf(u)' \in raced' \ Departments
<1>1. /\ OfficeOf(u)' = CallOffice(w) /\ raced' = raced
      /\ call[w].op = "register"
      /\ <<call[w].role, call[w].dept>> \in Posts
  BY Inserted
<1>2. Holds(v) /\ OfficeOf(v) = CallOffice(w) /\ CallOffice(w) \in SingleOffices
  <2>1. staff'[v] = staff[v]
    BY Inserted
  <2>. QED BY <1>1, <2>1 DEF Holds, OfficeOf
<1>3. CallOffice(w) \in raced
  BY <1>1, <1>2 DEF FoundFree
<1>4. CallOffice(w) \notin Departments
  <2>1. SUFFICES ASSUME CallOffice(w) \in Departments
                 PROVE  FALSE
    OBVIOUS
  <2>2. call[w].role \in Roles
    BY <1>1, PostParts
  <2>3. staff[v].active /\ <<staff[v].role, staff[v].dept>> \in Posts
    BY <1>2 DEF Holds, RowInv
  <2>4. staff[v].role \in Roles
    BY <2>3, PostParts
  <2>5. call[w].role = "HOD" /\ call[w].dept = CallOffice(w)
    BY <2>1, <2>2, DepartmentOffice DEF CallOffice
  <2>6. staff[v].role = "HOD" /\ staff[v].dept = CallOffice(w)
    BY <1>2, <2>1, <2>4, DepartmentOffice DEF OfficeOf
  <2>. QED BY <2>3, <2>5, <2>6 DEF Insert, IndexesAdmit
<1>. QED BY <1>1, <1>3, <1>4

\* Whoever comes to hold an office is new, or comes back to a raced one.
LEMMA NewHolder ==
  ASSUME TypeOK, RowInv, CallInv, [Next]_vars, NEW u \in Accounts, Holds(u)'
  PROVE  \/ \E w \in Calls : Insert(w, u)
         \/ Holds(u) /\ OfficeOf(u)' = OfficeOf(u)
         \/ OfficeOf(u)' \in raced' \ Departments
<1>1. SUFFICES ASSUME ~\E w \in Calls : Insert(w, u)
               PROVE  \/ Holds(u) /\ OfficeOf(u)' = OfficeOf(u)
                      \/ OfficeOf(u)' \in raced' \ Departments
  OBVIOUS
<1>2. OfficeOf(u)' = OfficeOf(u)
  BY <1>1, RowStep DEF OfficeOf
<1>3. staff'[u].active /\ OfficeOf(u) \in SingleOffices
  BY <1>2 DEF Holds
<1>4. CASE staff[u].active
  BY <1>2, <1>3, <1>4 DEF Holds
<1>5. CASE ~staff[u].active
  <2>1. PICK w \in Calls : call[w].u = u /\ WriteReactivate(w)
    BY <1>1, <1>3, <1>5, RowStep
  <2>2. Registered(u)
    BY <2>1 DEF WriteReactivate, At, CallInv
  <2>3. OfficeOf(u) \in raced \ Departments
    BY <1>3, <1>5, <2>2 DEF RowInv
  <2>. QED BY <1>2, <1>3, <2>3, Kinds, RacedStays
<1>. QED BY <1>4, <1>5

LEMMA OfficeHeldOnceStep ==
  ASSUME TypeOK, RowInv, CallInv, FoundFree, OfficeHeldOnce, [Next]_vars
  PROVE  OfficeHeldOnce'
<1>. SUFFICES ASSUME NEW u \in Accounts, NEW v \in Accounts, u # v,
                     Holds(u)', Holds(v)', OfficeOf(u)' = OfficeOf(v)'
              PROVE  OfficeOf(u)' \in raced' \ Departments
  BY DEF OfficeHeldOnce
<1>1. CASE \E w \in Calls : Insert(w, u)
  BY <1>1, InsertedAlone
<1>2. CASE \E w \in Calls : Insert(w, v)
  BY <1>2, InsertedAlone
<1>3. CASE Holds(u) /\ OfficeOf(u)' = OfficeOf(u) /\ Holds(v) /\ OfficeOf(v)' = OfficeOf(v)
  <2>1. OfficeOf(u) \in raced \ Departments
    BY <1>3 DEF OfficeHeldOnce
  <2>2. OfficeOf(u) \in SingleOffices
    BY <1>3 DEF Holds
  <2>. QED BY <1>3, <2>1, <2>2, Kinds, RacedStays
<1>. QED BY <1>1, <1>2, <1>3, NewHolder

\* A registration for an office nobody raced for went on, or has just begun and
\* found nobody, neither in the office nor on the way to it.
LEMMA Registering ==
  ASSUME TypeOK, CallInv, [Next]_vars, NEW w \in Calls, call'[w].op = "register",
         NEW o \in SingleOffices \ raced', CallOffice(w)' = o
  PROVE  \/ call[w].op = "register" /\ CallOffice(w) = o
         \/ /\ staff' = staff
            /\ Holders(o) = {}
            /\ ~Contended(w, o)
            /\ \A v \in Calls \ {w} : call'[v] = call[v]
<1>1. CASE call'[w] = call[w]
  BY <1>1 DEF CallOffice
<1>2. CASE Begins(w)
  <2>1. staff' = staff /\ \A v \in Calls \ {w} : call'[v] = call[v]
    BY <1>2, BeginsKeep DEF TypeOK
  <2>2. ~\E u \in Accounts : call'[w] \in {On("deactivate", u), On("reactivate", u)}
    BY DEF On, Idle
  <2>3. PICK post \in Posts, name \in Names :
          /\ call'[w] = Registration(post[1], post[2], name)
          /\ \/ BeginRegister(w, post[1], post[2], name)
             \/ BeginRegisterBlind(w, post[1], post[2], name)
    BY <1>2, <2>2, Begun
  <2>4. Office(post[1], post[2]) = o
    BY <2>3 DEF Registration, Idle, CallOffice
  <2>5. Holders(o) = {} /\ ~Contended(w, o)
    BY <2>3, <2>4 DEF BeginRegister, BeginRegisterBlind
  <2>. QED BY <2>1, <2>5
<1>3. CASE Continue(w)
  <2>1. call'[w] # Idle
    BY DEF Idle
  <2>. QED BY <1>3, <2>1, ContinueCall DEF CallOffice
<1>. QED BY <1>1, <1>2, <1>3, CallChange

LEMMA FoundFreeStep ==
  ASSUME TypeOK, RowInv, CallInv, FoundFree, [Next]_vars
  PROVE  FoundFree'
<1>. SUFFICES ASSUME NEW w \in Calls, call'[w].op = "register",
                     NEW o \in SingleOffices \ raced', CallOffice(w)' = o
              PROVE  /\ \A u \in Accounts : Holds(u)' => OfficeOf(u)' # o
                     /\ \A v \in Calls \ {w} : call'[v].op = "register" => CallOffice(v)' # o
  BY DEF FoundFree
<1>1. o \notin raced
  BY Kinds, RacedStays
<1>2. ASSUME NEW u \in Accounts, Holds(u)', OfficeOf(u)' = o
      PROVE  FALSE
  <2>1. CASE call[w].op = "register" /\ CallOffice(w) = o
    <3>1. ~(Holds(u) /\ OfficeOf(u) = o)
      BY <1>1, <2>1 DEF FoundFree
    <3>2. PICK v \in Calls : Insert(v, u)
      BY <1>2, <3>1, NewHolder
    <3>3. call[v].op = "register" /\ CallOffice(v) = o /\ call' = [call EXCEPT ![v] = Idle]
      BY <1>2, <3>2, Inserted
    <3>4. v = w
      BY <1>1, <2>1, <3>3 DEF FoundFree
    <3>. QED BY <3>3, <3>4 DEF TypeOK, Idle
  <2>2. CASE staff' = staff /\ Holders(o) = {}
    <3>1. Holds(u) /\ OfficeOf(u) = o
      BY <1>2, <2>2 DEF Holds, OfficeOf
    <3>. QED BY <2>2, <3>1 DEF Holders, HoldersIn, Holds, OfficeOf
  <2>. QED BY <2>1, <2>2, Registering
<1>3. ASSUME NEW v \in Calls \ {w}, call'[v].op = "register", CallOffice(v)' = o
      PROVE  FALSE
  <2>1. ASSUME NEW x \in Calls, NEW y \in Calls \ {x}, ~Contended(x, o), call'[y] = call[y],
               call'[y].op = "register", CallOffice(y)' = o
        PROVE  FALSE
    BY <2>1 DEF Contended, CallOffice
  <2>2. CASE call[w].op = "register" /\ CallOffice(w) = o
    <3>1. CASE call[v].op = "register" /\ CallOffice(v) = o
      BY <1>1, <2>2, <3>1 DEF FoundFree
    <3>2. CASE ~Contended(v, o) /\ call'[w] = call[w]
      BY <2>1, <3>2
    <3>. QED BY <1>3, <3>1, <3>2, Registering
  <2>3. CASE ~Contended(w, o) /\ call'[v] = call[v]
    BY <1>3, <2>1, <2>3
  <2>. QED BY <1>3, <2>2, <2>3, Registering
<1>. QED BY <1>2, <1>3

-----------------------------------------------------------------------------
(* Usernames.                                                              *)

\* A registration past the question for a username nobody raced for went on, or
\* has just found it free, with nobody else on the way to it.
LEMMA Settling ==
  ASSUME TypeOK, CallInv, [Next]_vars, NEW w \in Calls,
         call'[w].step \in {"rename", "insert"},
         NEW n, n \notin raced', call'[w].name = n
  PROVE  /\ n \in Names
         /\ \/ /\ call[w].step \in {"rename", "insert"} /\ call[w].name = n
               /\ call'[w] = call[w] \/ \E u \in Accounts : Rename(w, u)
            \/ /\ staff' = staff
               /\ ~NameContended(w, n)
               /\ \A v \in Calls \ {w} : call'[v] = call[v]
               /\ call'[w].stale = Named(n)
               /\ Named(n) # {} => call'[w].step = "rename"
<1>1. CASE call'[w] = call[w]
  BY <1>1 DEF CallInv
<1>2. ~Begins(w)
  <2>1. ~\E post \in Posts, name \in Names : call'[w] = Registration(post[1], post[2], name)
    BY DEF Registration, Idle
  <2>2. ~\E u \in Accounts : call'[w] \in {On("deactivate", u), On("reactivate", u)}
    BY DEF On, Idle
  <2>3. call'[w].step \notin {"fail", "clear"}
    OBVIOUS
  <2>. QED BY <2>1, <2>2, <2>3, Begun
<1>3. CASE Continue(w)
  <2>1. call'[w] # Idle
    BY DEF Idle
  <2>2. /\ call[w].op = "register" /\ call[w].name = n
        /\ NameFree(w) \/ NamesUnsettled(w) \/ \E u \in Accounts : Rename(w, u)
    BY <1>3, <2>1, ContinueCall
  <2>3. n \in Names
    BY <2>2 DEF CallInv
  <2>4. CASE \E u \in Accounts : Rename(w, u)
    BY <2>2, <2>3, <2>4 DEF Rename, At
  <2>5. CASE NamesUnsettled(w)
    BY <2>2, <2>5 DEF NamesUnsettled
  <2>6. CASE NameFree(w)
    <3>1. /\ staff' = staff /\ ~NameContended(w, n)
          /\ call' = [call EXCEPT ![w].stale = Named(n),
                                  ![w].step = IF Named(n) = {} THEN "insert" ELSE "rename"]
      BY <2>2, <2>6 DEF NameFree
    <3>2. /\ \A v \in Calls \ {w} : call'[v] = call[v]
          /\ call'[w].stale = Named(n)
          /\ Named(n) # {} => call'[w].step = "rename"
      BY <3>1 DEF TypeOK, Call
    <3>. QED BY <2>3, <3>1, <3>2
  <2>. QED BY <2>2, <2>4, <2>5, <2>6
<1>. QED BY <1>1, <1>2, <1>3, CallChange

LEMMA FoundUntakenStep ==
  ASSUME TypeOK, CallInv, FoundUntaken, [Next]_vars
  PROVE  FoundUntaken'
<1>. SUFFICES ASSUME NEW w \in Calls, call'[w].step \in {"rename", "insert"},
                     NEW n, n \notin raced', call'[w].name = n
              PROVE  /\ \A u \in Accounts : Registered(u)' /\ staff'[u].name = n =>
                          call'[w].step = "rename" /\ u \in call'[w].stale
                     /\ \A v \in Calls \ {w} :
                          call'[v].step \in {"rename", "insert"} => call'[v].name # n
  BY DEF FoundUntaken, Named, Registered
<1>1. n \in Names /\ n \notin raced
  BY Settling, Kinds, RacedStays
<1>2. ASSUME NEW u \in Accounts, Registered(u)', staff'[u].name = n
      PROVE  call'[w].step = "rename" /\ u \in call'[w].stale
  <2>1. CASE staff' = staff /\ call'[w].stale = Named(n)
               /\ (Named(n) # {} => call'[w].step = "rename")
    BY <1>2, <2>1 DEF Named, Registered
  <2>2. CASE /\ call[w].step \in {"rename", "insert"} /\ call[w].name = n
             /\ call'[w] = call[w] \/ \E x \in Accounts : Rename(w, x)
    <3>1. ~\E v \in Calls : Insert(v, u)
      <4>1. SUFFICES ASSUME NEW v \in Calls, Insert(v, u)
                     PROVE  FALSE
        OBVIOUS
      <4>2. /\ call[v].step = "insert" /\ call[v].name = n
            /\ call' = [call EXCEPT ![v] = Idle]
        BY <1>2, <4>1, Inserted
      <4>3. v = w
        BY <1>1, <2>2, <4>2 DEF FoundUntaken
      <4>. QED BY <4>2, <4>3 DEF TypeOK, Idle
    <3>2. u \in Named(n)
      BY <1>1, <1>2, <3>1, RowStep, Kinds DEF Named, Registered
    <3>3. call[w].step = "rename" /\ u \in call[w].stale
      BY <1>1, <2>2, <3>2 DEF FoundUntaken
    <3>4. ASSUME NEW x \in Accounts, Rename(w, x)
          PROVE  call'[w].step = "rename" /\ u \in call'[w].stale
      <4>1. x # u
        BY <1>1, <1>2, <3>4, Kinds DEF Rename, TypeOK, Row
      <4>2. call[w].stale # {x}
        BY <3>3, <4>1
      <4>3. call' = [call EXCEPT ![w] = [call[w] EXCEPT !.stale = call[w].stale \ {x}]]
        BY <3>3, <3>4, <4>2 DEF Rename, TypeOK, Call
      <4>. QED BY <3>3, <4>1, <4>3 DEF TypeOK, Call
    <3>. QED BY <2>2, <3>3, <3>4
  <2>. QED BY <2>1, <2>2, Settling
<1>3. ASSUME NEW v \in Calls \ {w}, call'[v].step \in {"rename", "insert"}, call'[v].name = n
      PROVE  FALSE
  <2>1. ASSUME NEW x \in Calls, NEW y \in Calls \ {x}, ~NameContended(x, n), call'[y] = call[y],
               call'[y].step \in {"rename", "insert"}, call'[y].name = n
        PROVE  FALSE
    BY <2>1 DEF NameContended
  <2>2. CASE ~NameContended(w, n) /\ call'[v] = call[v]
    BY <1>3, <2>1, <2>2
  <2>3. CASE ~NameContended(v, n) /\ call'[w] = call[w]
    BY <1>3, <2>1, <2>3
  <2>4. CASE /\ call[w].step \in {"rename", "insert"} /\ call[w].name = n
             /\ call[v].step \in {"rename", "insert"} /\ call[v].name = n
    BY <1>1, <2>4 DEF FoundUntaken
  <2>. QED BY <1>3, <2>2, <2>3, <2>4, Settling
<1>. QED BY <1>2, <1>3

LEMMA NameUnambiguousStep ==
  ASSUME TypeOK, RowInv', CallInv, FoundUntaken, NameUnambiguous, [Next]_vars
  PROVE  NameUnambiguous'
<1>. SUFFICES ASSUME NEW u \in Accounts, NEW v \in Accounts, u # v,
                     Registered(u)', Registered(v)', NEW n, staff'[u].name = n,
                     staff'[v].name = n
              PROVE  n \in raced'
  BY DEF NameUnambiguous
<1>1. n \in Names
  <2>1. n \in Names \union {u} /\ n \in Names \union {v}
    BY DEF RowInv
  <2>. QED BY <2>1
<1>2. ASSUME NEW x \in Accounts, NEW y \in Accounts, x # y, staff'[x].name = n,
             staff'[y].name = n, Registered(y)', NEW w \in Calls, Insert(w, x)
      PROVE  n \in raced'
  <2>1. /\ call[w].step = "insert" /\ call[w].name = n /\ raced' = raced
        /\ staff'[y] = staff[y]
    BY <1>2, Inserted
  <2>2. y \in Named(n)
    BY <1>2, <2>1 DEF Named, Registered
  <2>. QED BY <2>1, <2>2 DEF FoundUntaken
<1>3. CASE \E w \in Calls : Insert(w, u) \/ Insert(w, v)
  BY <1>2, <1>3
<1>4. CASE ~\E w \in Calls : Insert(w, u) \/ Insert(w, v)
  <2>1. ASSUME NEW x \in {u, v}
        PROVE  Registered(x) /\ staff[x].name = n
    BY <1>1, <1>4, RowStep, Kinds DEF Registered
  <2>2. n \in raced
    BY <2>1 DEF NameUnambiguous
  <2>. QED BY <1>1, <2>2, Kinds, RacedStays
<1>. QED BY <1>3, <1>4

-----------------------------------------------------------------------------
(* Counters of wrong passwords.                                            *)

LEMMA ForgiveStep ==
  ASSUME TypeOK, NEW v \in Accounts, NEW unlocked \in BOOLEAN, Forgive(v, unlocked),
         NEW u \in Accounts, u \notin raced'
  PROVE  \/ u = v /\ wrong'[u] = 0 /\ ~Counting(u) /\ unlocked
         \/ u # v /\ wrong'[u] = wrong[u] /\ u \notin raced
  BY DEF Forgive, TypeOK

\* An account's counter starts again, with nothing about to be written to it.
Restarts(u) ==
  /\ wrong'[u] = 0
  /\ staff'[u].attempts = 0
  /\ ~staff'[u].locked
  /\ ~Counting(u)'

\* The wrong passwords do not decrease, and a lock needs a count.
Counts(u) ==
  /\ u \notin raced
  /\ wrong'[u] >= wrong[u]
  /\ \/ staff'[u].attempts \in {0, staff[u].attempts} /\ (staff'[u].locked => staff[u].locked)
     \/ \E w \in Calls :
          /\ At(w, "login", "fail") /\ call[w].u = u
          /\ staff'[u].attempts = call[w].n
          /\ staff'[u].locked => staff[u].locked \/ call[w].n >= MaxFailed

LEMMA CountersBegin ==
  ASSUME TypeOK, NEW w \in Calls, Begins(w), NEW u \in Accounts, u \notin raced'
  PROVE  Counts(u)
<1>1. staff' = staff /\ u \notin raced
  BY BeginsKeep
<1>2. wrong'[u] >= wrong[u]
  <2>1. wrong[u] \in Nat
    BY DEF TypeOK
  <2>2. ASSUME NEW v \in Accounts, BeginWrongLogin(w, v)
        PROVE  wrong'[u] >= wrong[u]
    BY <2>1, <2>2 DEF BeginWrongLogin, TypeOK
  <2>3. CASE wrong' = wrong
    BY <2>1, <2>3
  <2>4. wrong' = wrong \/ \E v \in Accounts : BeginWrongLogin(w, v)
    BY DEF Begins, BeginRegister, BeginRegisterBlind, BeginDeactivate, BeginReactivate,
       BeginRightLogin
  <2>. QED BY <2>2, <2>3, <2>4
<1>. QED BY <1>1, <1>2 DEF Counts

LEMMA CountersKeep ==
  ASSUME TypeOK, NEW u \in Accounts, wrong' = wrong, u \notin raced,
         staff'[u].attempts = staff[u].attempts, staff'[u].locked = staff[u].locked
  PROVE  Counts(u)
<1>1. wrong[u] \in Nat
  BY DEF TypeOK
<1>. QED BY <1>1 DEF Counts

LEMMA CountersContinue ==
  ASSUME TypeOK, CallInv, NEW w \in Calls, Continue(w), NEW u \in Accounts, u \notin raced'
  PROVE  Restarts(u) \/ Counts(u)
<1>0. wrong[u] \in Nat /\ staff[u] \in Row
  BY DEF TypeOK
<1>1. CASE \/ NameTaken(w) \/ NameFree(w) \/ NamesUnsettled(w)
           \/ \E v \in Accounts : InsertRejected(w, v)
           \/ ReactivateRejected(w) \/ Fail(w)
  <2>1. staff' = staff /\ wrong' = wrong /\ u \notin raced
    BY <1>1 DEF NameTaken, NameFree, NamesUnsettled, InsertRejected, ReactivateRejected, Fail
  <2>. QED BY <2>1, CountersKeep
<1>2. ASSUME NEW v \in Accounts, Insert(w, v)
      PROVE  Counts(u)
  <2>1. wrong' = wrong /\ raced' = raced
    BY <1>2 DEF Insert
  <2>2. staff'[u] = staff[u] \/ (staff'[u].attempts = 0 /\ ~staff'[u].locked)
    BY <1>2, Inserted
  <2>. QED BY <1>0, <2>1, <2>2 DEF Counts
<1>3. CASE WriteDeactivate(w) \/ \E v \in Accounts : Rename(w, v)
  <2>1. /\ wrong' = wrong /\ raced' = raced
    BY <1>3 DEF WriteDeactivate, Rename
  <2>2. ASSUME NEW v \in Accounts, Rename(w, v)
        PROVE  staff'[u].attempts = staff[u].attempts /\ staff'[u].locked = staff[u].locked
    BY <1>0, <2>2 DEF Rename, TypeOK, Row
  <2>3. ASSUME WriteDeactivate(w)
        PROVE  staff'[u].attempts = staff[u].attempts /\ staff'[u].locked = staff[u].locked
    BY <1>0, <2>3 DEF WriteDeactivate, TypeOK, Row
  <2>. QED BY <1>3, <2>1, <2>2, <2>3, CountersKeep
<1>4. CASE WriteReactivate(w)
  <2>1. call[w].u \in Accounts /\ Forgive(call[w].u, TRUE)
    BY <1>4 DEF WriteReactivate, At, CallInv
  <2>2. CASE call[w].u = u
    <3>1. wrong'[u] = 0 /\ ~Counting(u)
      BY <2>1, <2>2, ForgiveStep
    <3>2. staff'[u].attempts = 0 /\ ~staff'[u].locked
      BY <1>0, <1>4, <2>2 DEF WriteReactivate, TypeOK, Row
    <3>3. ~Counting(u)'
      BY <1>4, <3>1 DEF WriteReactivate, Return, Counting, At, TypeOK, Idle
    <3>. QED BY <3>1, <3>2, <3>3 DEF Restarts
  <2>3. CASE call[w].u # u
    <3>1. wrong'[u] = wrong[u] /\ u \notin raced
      BY <2>1, <2>3, ForgiveStep
    <3>2. staff'[u] = staff[u]
      BY <1>4, <2>3 DEF WriteReactivate, TypeOK
    <3>. QED BY <1>0, <3>1, <3>2 DEF Counts
  <2>. QED BY <2>2, <2>3
<1>5. CASE WriteClear(w)
  <2>1. call[w].u \in Accounts /\ Forgive(call[w].u, ~staff[call[w].u].locked)
    BY <1>5 DEF WriteClear, At, CallInv
  <2>2. CASE call[w].u = u
    <3>1. wrong'[u] = 0 /\ ~Counting(u) /\ ~staff[u].locked
      BY <2>1, <2>2, ForgiveStep
    <3>2. staff'[u].attempts = 0 /\ ~staff'[u].locked
      BY <1>0, <1>5, <2>2, <3>1 DEF WriteClear, TypeOK, Row
    <3>3. ~Counting(u)'
      BY <1>5, <3>1 DEF WriteClear, Return, Counting, At, TypeOK, Idle
    <3>. QED BY <3>1, <3>2, <3>3 DEF Restarts
  <2>3. CASE call[w].u # u
    <3>1. wrong'[u] = wrong[u] /\ u \notin raced
      BY <2>1, <2>3, ForgiveStep
    <3>2. staff'[u] = staff[u]
      BY <1>5, <2>3 DEF WriteClear, TypeOK
    <3>. QED BY <1>0, <3>1, <3>2 DEF Counts
  <2>. QED BY <2>2, <2>3
<1>6. CASE WriteFail(w)
  <2>1. wrong' = wrong /\ raced' = raced /\ At(w, "login", "fail")
    BY <1>6 DEF WriteFail
  <2>2. CASE call[w].u = u
    <3>1. /\ staff'[u].attempts = call[w].n
          /\ staff'[u].locked => staff[u].locked \/ call[w].n >= MaxFailed
      BY <1>0, <1>6, <2>2 DEF WriteFail, TypeOK, Row
    <3>. QED BY <1>0, <2>1, <2>2, <3>1 DEF Counts
  <2>3. CASE call[w].u # u
    <3>1. staff'[u] = staff[u]
      BY <1>6, <2>3 DEF WriteFail, TypeOK
    <3>. QED BY <2>1, <3>1, CountersKeep
  <2>. QED BY <2>2, <2>3
<1>. QED BY <1>1, <1>2, <1>3, <1>4, <1>5, <1>6 DEF Continue

LEMMA CountersStep ==
  ASSUME TypeOK, CallInv, [Next]_vars, NEW u \in Accounts, u \notin raced'
  PROVE  Restarts(u) \/ Counts(u)
<1>0. wrong[u] \in Nat /\ staff[u] \in Row
  BY DEF TypeOK
<1>1. ASSUME NEW a \in Accounts, NEW v \in Accounts, ResetPassword(a, v)
      PROVE  Restarts(u) \/ Counts(u)
  <2>1. Forgive(v, TRUE) /\ call' = call
    BY <1>1 DEF ResetPassword
  <2>2. CASE v = u
    <3>1. wrong'[u] = 0 /\ ~Counting(u)
      BY <2>1, <2>2, ForgiveStep
    <3>2. staff'[u].attempts = 0 /\ ~staff'[u].locked
      BY <1>0, <1>1, <2>2 DEF ResetPassword, TypeOK, Row
    <3>3. ~Counting(u)'
      BY <2>1, <3>1 DEF Counting, At
    <3>. QED BY <3>1, <3>2, <3>3 DEF Restarts
  <2>3. CASE v # u
    <3>1. wrong'[u] = wrong[u] /\ u \notin raced
      BY <2>1, <2>3, ForgiveStep
    <3>2. staff'[u] = staff[u]
      BY <1>1, <2>3 DEF ResetPassword, TypeOK
    <3>. QED BY <1>0, <3>1, <3>2 DEF Counts
  <2>. QED BY <2>2, <2>3
<1>2. CASE UNCHANGED vars
  BY <1>2, CountersKeep DEF vars
<1>. QED BY <1>1, <1>2, CountersBegin, CountersContinue DEF Next

LEMMA CountInvStep ==
  ASSUME TypeOK, CallInv, CountInv, [Next]_vars
  PROVE  CountInv'
<1>. SUFFICES ASSUME NEW u \in Accounts, u \notin raced'
              PROVE  /\ staff'[u].attempts <= wrong'[u]
                     /\ \A w \in Calls : call'[w].op = "login" /\ call'[w].step = "fail"
                          /\ call'[w].u = u => call'[w].n <= wrong'[u]
  <2>1. \A w \in Calls : call'[w].op = "login" => call'[w].u \in Accounts
    <3>1. SUFFICES ASSUME NEW w \in Calls, call'[w].op = "login"
                   PROVE  call'[w].u \in Accounts
      OBVIOUS
    <3>2. CASE call'[w] = call[w]
      BY <3>1, <3>2 DEF CallInv
    <3>3. CASE Continue(w)
      BY <3>1, <3>3, ContinueCall DEF Idle
    <3>4. CASE Begins(w)
      <4>1. ~\E post \in Posts, name \in Names : call'[w] = Registration(post[1], post[2], name)
        BY <3>1 DEF Registration, Idle
      <4>2. ~\E x \in Accounts : call'[w] \in {On("deactivate", x), On("reactivate", x)}
        BY <3>1 DEF On, Idle
      <4>. QED BY <3>4, <4>1, <4>2, Begun
    <3>. QED BY <3>2, <3>3, <3>4, CallChange
  <2>. QED BY <2>1 DEF CountInv, At
<1>0. /\ wrong[u] \in Nat /\ wrong'[u] \in Nat /\ staff[u].attempts \in Nat
      /\ \A w \in Calls : call[w].n \in Nat
  BY TypeStep DEF TypeOK, Row, Call
<1>1. CASE Restarts(u)
  BY <1>1 DEF Restarts, Counting, At
<1>2. CASE Counts(u)
  <2>1. /\ u \notin raced /\ wrong'[u] >= wrong[u] /\ staff[u].attempts <= wrong[u]
        /\ \A w \in Calls : At(w, "login", "fail") /\ call[w].u = u => call[w].n <= wrong[u]
    BY <1>2 DEF Counts, CountInv
  <2>2. staff'[u].attempts <= wrong'[u]
    <3>1. CASE staff'[u].attempts \in {0, staff[u].attempts}
      BY <1>0, <2>1, <3>1
    <3>2. CASE \E w \in Calls : At(w, "login", "fail") /\ call[w].u = u
                                /\ staff'[u].attempts = call[w].n
      BY <1>0, <2>1, <3>2
    <3>. QED BY <1>2, <3>1, <3>2 DEF Counts
  <2>3. ASSUME NEW w \in Calls, call'[w].op = "login", call'[w].step = "fail", call'[w].u = u
        PROVE  call'[w].n <= wrong'[u]
    <3>1. CASE call'[w] = call[w]
      <4>1. call[w].n <= wrong[u]
        BY <2>1, <2>3, <3>1 DEF At
      <4>. QED BY <1>0, <2>1, <3>1, <4>1
    <3>2. CASE Continue(w)
      BY <2>3, <3>2, ContinueCall DEF Idle
    <3>3. CASE Begins(w)
      <4>1. ~\E post \in Posts, name \in Names : call'[w] = Registration(post[1], post[2], name)
        BY <2>3 DEF Registration, Idle
      <4>2. ~\E x \in Accounts : call'[w] \in {On("deactivate", x), On("reactivate", x)}
        BY <2>3 DEF On, Idle
      <4>3. ~\E x \in Accounts : BeginRightLogin(w, x)
        BY <2>3 DEF BeginRightLogin, Start, Idle, TypeOK
      <4>4. PICK x \in Accounts : BeginWrongLogin(w, x)
        BY <3>3, <4>1, <4>2, <4>3, Begun
      <4>5. call'[w] = [Idle EXCEPT !.op = "login", !.step = "fail", !.u = x,
                                    !.n = staff[x].attempts + 1]
        BY <4>4 DEF BeginWrongLogin, Start, TypeOK
      <4>6. x = u /\ call'[w].n = staff[u].attempts + 1
        BY <2>3, <4>5 DEF Idle
      <4>7. wrong'[u] = wrong[u] + 1
        BY <4>4, <4>6 DEF BeginWrongLogin, TypeOK
      <4>. QED BY <1>0, <2>1, <4>6, <4>7
    <3>. QED BY <3>1, <3>2, <3>3, CallChange
  <2>. QED BY <2>2, <2>3
<1>. QED BY <1>1, <1>2, CountersStep

LEMMA LockEarnedStep ==
  ASSUME TypeOK, CallInv, CountInv, LockEarned, [Next]_vars
  PROVE  LockEarned'
<1>. SUFFICES ASSUME NEW u \in Accounts, u \notin raced', staff'[u].locked
              PROVE  wrong'[u] >= MaxFailed
  BY DEF LockEarned
<1>0. /\ wrong[u] \in Nat /\ wrong'[u] \in Nat /\ MaxFailed \in Nat
      /\ \A w \in Calls : call[w].n \in Nat
  BY TypeStep, AccountsAssumption DEF TypeOK, Call, AccountsAssumption
<1>1. Counts(u)
  BY CountersStep DEF Restarts
<1>2. wrong[u] >= MaxFailed
  <2>1. CASE staff[u].locked
    BY <1>1, <2>1 DEF Counts, LockEarned
  <2>2. CASE \E w \in Calls : At(w, "login", "fail") /\ call[w].u = u /\ call[w].n >= MaxFailed
    <3>1. PICK w \in Calls : At(w, "login", "fail") /\ call[w].u = u /\ call[w].n >= MaxFailed
      BY <2>2
    <3>2. call[w].n <= wrong[u]
      BY <1>1, <3>1 DEF Counts, CountInv
    <3>. QED BY <1>0, <3>1, <3>2
  <2>. QED BY <1>1, <2>1, <2>2 DEF Counts
<1>3. wrong'[u] >= wrong[u]
  BY <1>1 DEF Counts
<1>. QED BY <1>0, <1>2, <1>3

-----------------------------------------------------------------------------
(* The inductive invariant: the accounts and the calls in flight, together. *)

SafeInv == TypeOK /\ AccountsInv /\ OfficeHeldOnce /\ NameUnambiguous /\ LockEarned

\* Orderly tables, from which calls one after the other start, satisfy it.
LEMMA InitSafe == Init => SafeInv
<1>. SUFFICES ASSUME Init
              PROVE  SafeInv
  OBVIOUS
<1>0. /\ staff \in [Accounts -> Row] /\ Orderly(staff)
      /\ call = [w \in Calls |-> Idle]
      /\ wrong = [u \in Accounts |-> 0] /\ raced = {} /\ begun = 0
  BY AccountsAssumption DEF Init, AccountsAssumption
<1>1. TypeOK
  BY <1>0, IdleIsCall DEF TypeOK
<1>2. ASSUME NEW u \in Accounts, Registered(u)
      PROVE  /\ <<staff[u].role, staff[u].dept>> \in Posts
             /\ staff[u].name \in Names \union {u}
             /\ OfficeOf(u) \in SingleOffices => staff[u].active
  <2>1. /\ <<staff[u].role, staff[u].dept>> \in Posts
        /\ staff[u].name \in Names \union {u}
        /\ staff[u].active \/ staff[u].role = "Coordinator"
    BY <1>0, <1>2 DEF Orderly, Registered
  <2>2. staff[u].role = "Coordinator" => OfficeOf(u) \notin SingleOffices
    BY AccountsAssumption DEF AccountsAssumption, OfficeOf, Office, SingleOffices, Roles
  <2>. QED BY <2>1, <2>2
<1>3. RowInv
  <2>1. \A u \in Accounts : staff[u].active => Registered(u)
    BY <1>0 DEF Orderly, Registered
  <2>. QED BY <1>2, <2>1 DEF RowInv
<1>4. CallInv /\ FoundFree /\ FoundUntaken
  BY <1>0 DEF CallInv, FoundFree, FoundUntaken, Idle
<1>5. CountInv
  BY <1>0 DEF CountInv, At, Idle, Orderly
<1>6. OfficeHeldOnce
  BY <1>0 DEF OfficeHeldOnce, Orderly, HoldersIn, Holds, OfficeOf
<1>7. NameUnambiguous
  BY <1>0 DEF NameUnambiguous, Orderly, Registered
<1>8. LockEarned
  BY <1>0 DEF LockEarned, Orderly
<1>. QED BY <1>1, <1>3, <1>4, <1>5, <1>6, <1>7, <1>8 DEF SafeInv, AccountsInv

LEMMA SafeStep == SafeInv /\ [Next]_vars => SafeInv'
<1>. SUFFICES ASSUME SafeInv, [Next]_vars
              PROVE  SafeInv'
  OBVIOUS
<1>. USE DEF SafeInv, AccountsInv
<1>1. TypeOK'
  BY TypeStep
<1>2. RowInv'
  BY RowInvStep
<1>3. CallInv'
  BY CallInvStep
<1>4. FoundFree'
  BY FoundFreeStep
<1>5. FoundUntaken'
  BY FoundUntakenStep
<1>6. CountInv'
  BY CountInvStep
<1>7. OfficeHeldOnce'
  BY OfficeHeldOnceStep
<1>8. NameUnambiguous'
  BY <1>2, NameUnambiguousStep
<1>9. LockEarned'
  BY LockEarnedStep
<1>. QED BY <1>1, <1>2, <1>3, <1>4, <1>5, <1>6, <1>7, <1>8, <1>9

LEMMA Safe == Spec => []SafeInv
  BY InitSafe, SafeStep, PTL DEF Spec

\* The variables have their types: no call is ever left with an account, an
\* office or a username that does not exist.
THEOREM AccountsTypeCorrect == Spec => []TypeOK
<1>1. SafeInv => TypeOK
  BY DEF SafeInv
<1>. QED BY <1>1, Safe, PTL

\* The invariant the properties below follow from: nobody leaves an office that
\* was not raced for, and a registration is alone with what it found free.
THEOREM AccountsInductive == Spec => []AccountsInv
<1>1. SafeInv => AccountsInv
  BY DEF SafeInv
<1>. QED BY <1>1, Safe, PTL

\* Two accounts hold one office only where two calls decided on it at once or a
\* registration could not look, and never as heads of a department.
\* (register_staff, reactivate_staff_account, idx_one_active_hod_per_dept)
THEOREM OfficesHeldOnce == Spec => []OfficeHeldOnce
<1>1. SafeInv => OfficeHeldOnce
  BY DEF SafeInv
<1>. QED BY <1>1, Safe, PTL

\* What is typed at login leads to one row, unless two registrations chose the
\* username at once or its former holders could not be renamed.
\* (register_staff, reactivate_staff_account, login_staff)
THEOREM NamesUnambiguous == Spec => []NameUnambiguous
<1>1. SafeInv => NameUnambiguous
  BY DEF SafeInv
<1>. QED BY <1>1, Safe, PTL

\* Whatever the interleaving, an account is locked by MaxFailed wrong passwords
\* since its counter was last zeroed, unless that zeroing met an attempt whose
\* count was still to be written.  (login_staff, the resets)
THEOREM LocksEarned == Spec => []LockEarned
<1>1. SafeInv => LockEarned
  BY DEF SafeInv
<1>. QED BY <1>1, Safe, PTL

\* The holder of an office nobody raced for is never deactivated, and neither is
\* any head of department.  (deactivate_staff_account against register_staff)
THEOREM HoldersStay == Spec => HolderStays
<1>1. SafeInv /\ [Next]_vars =>
        [\A u \in Accounts :
           Holds(u) => staff'[u].active \/ OfficeOf(u) \in raced \ Departments]_vars
  <2>. SUFFICES ASSUME SafeInv, [Next]_vars, NEW u \in Accounts, Holds(u), ~staff'[u].active
                PROVE  OfficeOf(u) \in raced \ Departments
    OBVIOUS
  <2>1. ~\E w \in Calls : Insert(w, u)
    BY DEF SafeInv, AccountsInv, RowInv, Holds, Insert
  <2>2. PICK w \in Calls : call[w].u = u /\ WriteDeactivate(w)
    BY <2>1, RowStep DEF SafeInv, AccountsInv, Holds
  <2>3. CallOffice(w) = OfficeOf(u) /\ call[w].op = "deactivate"
    BY <2>2 DEF SafeInv, AccountsInv, WriteDeactivate, At, CallInv, CallOffice, OfficeOf
  <2>. QED BY <2>3 DEF SafeInv, AccountsInv, CallInv, Holds
<1>. QED BY <1>1, Safe, PTL DEF Spec, HolderStays
=============================================================================
