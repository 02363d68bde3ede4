--------------------------- MODULE StaffAccounts ---------------------------
(***************************************************************************)
(* The rows of `staff_users` under concurrent calls of                     *)
(* services/auth_service.py and services/account_service.py: who holds an  *)
(* office, under which username, and how wrong passwords lock an account.  *)
(*                                                                         *)
(* Two mechanisms meet here.  Registration and reactivation admit nobody   *)
(* to an office that has an active holder; deactivation refuses to remove  *)
(* the last one.  Each is a SELECT followed by a write in another request, *)
(* and only heads of department are also protected by a unique index.      *)
(*                                                                         *)
(* Passwords and security codes are abstracted to "right" or "wrong".  The *)
(* Library Incharge and the General Department HOD are stored as HODs of   *)
(* the departments LIB and GEN (Special).                                  *)
(***************************************************************************)
EXTENDS Naturals

CONSTANTS
  Accounts,     \* ids of staff_users
  Names,        \* usernames people type
  Departments,
  Special,      \* GEN and LIB
  Calls,        \* service calls that can be in flight at once
  NoDept,       \* SQL NULL in department_id
  NoAccount,    \* the id a registration does not have yet
  NoName,
  MaxFailed,    \* MAX_FAILED_ATTEMPTS
  Seeds,        \* tables a behaviour may start from
  MaxCalls      \* bound: service calls begun in a behaviour

\* What a registration asks for; the form offers no coordinator of GEN or LIB.
Posts == {<<"Principal", NoDept>>, <<"Hostel Incharge", NoDept>>}
         \union {<<"HOD", dept>> : dept \in Departments}
         \union {<<"Coordinator", dept>> : dept \in Departments \ Special}

Roles == {"Principal", "Hostel Incharge", "HOD", "Coordinator"}

\* An account that lost its username is called after its id.
Row == [role: Roles \union {"none"}, dept: Departments \union {NoDept},
        name: Names \union Accounts \union {NoName}, active: BOOLEAN,
        locked: BOOLEAN, attempts: Nat]

\* One active holder per office, except that coordinators are not limited.
Office(role, dept) == IF role = "HOD" THEN dept ELSE role

SingleOffices == {"Principal", "Hostel Incharge"} \union Departments

HoldersIn(table, o) ==
  {u \in Accounts : table[u].active /\ Office(table[u].role, table[u].dept) = o}

\* Calls one after the other leave such a table: only coordinators retire.
Orderly(table) ==
  /\ \A u \in Accounts : table[u].role = "none" => ~table[u].active
  /\ \A u \in Accounts : table[u].role # "none" =>
       /\ <<table[u].role, table[u].dept>> \in Posts
       /\ table[u].name \in Names \union {u}
       /\ table[u].active \/ table[u].role = "Coordinator"
  /\ \A u \in Accounts : ~table[u].locked /\ table[u].attempts = 0
  /\ \A o \in SingleOffices : \A u, v \in HoldersIn(table, o) : u = v
  /\ \A u, v \in Accounts :
       u # v /\ table[u].role # "none" /\ table[v].role # "none"
         => table[u].name # table[v].name

ASSUME AccountsAssumption ==
  /\ Special \subseteq Departments
  /\ NoDept \notin Departments
  /\ NoAccount \notin Accounts
  /\ NoName \notin Names \union Accounts
  /\ Accounts \intersect (Names \union SingleOffices) = {}
  /\ Names \intersect SingleOffices = {}
  /\ Departments \intersect (Roles \union {"none"}) = {}
  /\ MaxFailed \in Nat \ {0}
  /\ MaxCalls \in Nat
  /\ Seeds \subseteq [Accounts -> Row]
  /\ \A table \in Seeds : Orderly(table)

VARIABLES
  staff,   \* table staff_users
  call,    \* the calls in flight
  wrong,   \* wrong passwords typed since attempts was last zeroed (ghost)
  raced,   \* what two calls decided on at once, or a lost SELECT left
           \* unchecked: offices, usernames, counters of accounts (ghost)
  begun    \* how many calls have begun (bounded by MaxCalls)

vars == <<staff, call, wrong, raced, begun>>

Idle == [op |-> "none", step |-> "idle", u |-> NoAccount, role |-> "none",
         dept |-> NoDept, name |-> NoName, stale |-> {}, n |-> 0]

Call == [op: {"none", "register", "login", "deactivate", "reactivate"},
         step: {"idle", "names", "rename", "insert", "fail", "clear", "write"},
         u: Accounts \union {NoAccount}, role: Roles \union {"none"},
         dept: Departments \union {NoDept}, name: Names \union {NoName},
         stale: SUBSET Accounts, n: Nat]

TypeOK ==
  /\ staff \in [Accounts -> Row]
  /\ call \in [Calls -> Call]
  /\ wrong \in [Accounts -> Nat]
  /\ raced \subseteq SingleOffices \union Names \union Accounts
  /\ begun \in Nat

Registered(u) == staff[u].role # "none"

Holders(o) == HoldersIn(staff, o)

OfficeOf(u) == Office(staff[u].role, staff[u].dept)

Holds(u) == staff[u].active /\ OfficeOf(u) \in SingleOffices

Start(w, k) ==
  /\ call[w] = Idle
  /\ begun < MaxCalls
  /\ call' = [call EXCEPT ![w] = k]
  /\ begun' = begun + 1

At(w, op, step) == call[w].op = op /\ call[w].step = step

Goto(w, step) == call' = [call EXCEPT ![w].step = step]

Return(w) == call' = [call EXCEPT ![w] = Idle]

\* Another call has looked at who holds office o and has not finished.
Contended(w, o) ==
  \E v \in Calls \ {w} :
    /\ call[v].op \in {"register", "deactivate", "reactivate"}
    /\ Office(call[v].role, call[v].dept) = o

Init ==
  /\ staff \in Seeds
  /\ call = [w \in Calls |-> Idle]
  /\ wrong = [u \in Accounts |-> 0]
  /\ raced = {}
  /\ begun = 0

-----------------------------------------------------------------------------
(* register_staff: is the office free, is the username free, UPDATE the    *)
(* inactive accounts of that username, INSERT.                             *)

Registration(role, dept, name) ==
  [Idle EXCEPT !.op = "register", !.step = "names", !.role = role, !.dept = dept,
               !.name = name]

\* Mutant: nobody looks.
BeginRegisterUnasked(w, role, dept, name) ==
  /\ Start(w, Registration(role, dept, name))
  /\ UNCHANGED <<staff, wrong, raced>>

\* GEN and LIB are asked for any active account of the department, which only
\* their heads are.
BeginRegister(w, role, dept, name) ==
  LET o == Office(role, dept) IN
  /\ o \in SingleOffices => Holders(o) = {}
  /\ Start(w, Registration(role, dept, name))
  /\ raced' = IF o \in SingleOffices /\ Contended(w, o) THEN raced \union {o} ELSE raced
  /\ UNCHANGED <<staff, wrong>>

\* The SELECT raises: the exception is logged and registration goes on.
BeginRegisterBlind(w, role, dept, name) ==
  LET o == Office(role, dept) IN
  /\ o \in SingleOffices
  /\ Start(w, Registration(role, dept, name))
  /\ raced' = raced \union {o}
  /\ UNCHANGED <<staff, wrong>>

Named(name) == {u \in Accounts : Registered(u) /\ staff[u].name = name}

\* Another registration has found this username free.
NameContended(w, name) ==
  \E v \in Calls \ {w} : call[v].name = name /\ call[v].step \in {"rename", "insert"}

NameTaken(w) ==
  /\ At(w, "register", "names")
  /\ \E u \in Named(call[w].name) : staff[u].active
  /\ Return(w)
  /\ UNCHANGED <<staff, wrong, raced, begun>>

\* Mutant: the former holders of the username are left alone.
NameFreeNoRename(w) ==
  LET n == call[w].name IN
  /\ At(w, "register", "names")
  /\ ~\E u \in Named(n) : staff[u].active
  /\ Goto(w, "insert")
  /\ raced' = IF NameContended(w, n) THEN raced \union {n} ELSE raced
  /\ UNCHANGED <<staff, wrong, begun>>

NameFree(w) ==
  LET n == call[w].name IN
  /\ At(w, "register", "names")
  /\ ~\E u \in Named(n) : staff[u].active
  /\ call' = [call EXCEPT ![w].stale = Named(n),
                          ![w].step = IF Named(n) = {} THEN "insert" ELSE "rename"]
  /\ raced' = IF NameContended(w, n) THEN raced \union {n} ELSE raced
  /\ UNCHANGED <<staff, wrong, begun>>

\* Whether the account is still inactive is not asked again.
Rename(w, u) ==
  /\ At(w, "register", "rename")
  /\ u \in call[w].stale
  /\ staff' = [staff EXCEPT ![u].name = u]
  /\ call' = [call EXCEPT ![w].stale = @ \ {u},
                          ![w].step = IF call[w].stale = {u} THEN "insert" ELSE @]
  /\ UNCHANGED <<wrong, raced, begun>>

\* The SELECT or an UPDATE raises: logged, and registration goes on.
NamesUnsettled(w) ==
  /\ call[w].op = "register"
  /\ call[w].step \in {"names", "rename"}
  /\ Goto(w, "insert")
  /\ raced' = raced \union {call[w].name}
  /\ UNCHANGED <<staff, wrong, begun>>

\* idx_one_active_hod_per_dept and idx_staff_users_active_username.
IndexesAdmit(u, role, dept, name) ==
  \A v \in Accounts \ {u} : staff[v].active =>
     /\ staff[v].name # name
     /\ ~(role = "HOD" /\ staff[v].role = "HOD" /\ staff[v].dept = dept)

Insert(w, u) ==
  LET k == call[w] IN
  /\ At(w, "register", "insert")
  /\ ~Registered(u)
  /\ IndexesAdmit(u, k.role, k.dept, k.name)
  /\ staff' = [staff EXCEPT ![u] = [role |-> k.role, dept |-> k.dept, name |-> k.name,
                                    active |-> TRUE, locked |-> FALSE, attempts |-> 0]]
  /\ Return(w)
  /\ UNCHANGED <<wrong, raced, begun>>

InsertRejected(w, u) ==
  LET k == call[w] IN
  /\ At(w, "register", "insert")
  /\ ~Registered(u)
  /\ ~IndexesAdmit(u, k.role, k.dept, k.name)
  /\ Return(w)
  /\ UNCHANGED <<staff, wrong, raced, begun>>

-----------------------------------------------------------------------------
(* deactivate_staff_account and reactivate_staff_account.                  *)

\* A session presents the heads of GEN and LIB under the role they asked for.
SessionRole(a) ==
  IF staff[a].role = "HOD" /\ staff[a].dept \in Special THEN "special" ELSE staff[a].role

OwnCoordinator(a, u) ==
  /\ SessionRole(a) = "HOD"
  /\ staff[a].active
  /\ staff[u].role = "Coordinator"
  /\ staff[u].dept = staff[a].dept

\* A Principal's session is not asked whether the account is still active.
MayDeactivate(a, u) ==
  \/ a = u
  \/ OwnCoordinator(a, u)
  \/ SessionRole(a) = "Principal" /\ staff[u].role # "Principal"

On(op, u) == [Idle EXCEPT !.op = op, !.step = "write", !.u = u, !.role = staff[u].role,
                          !.dept = staff[u].dept]

\* Two active holders: the query returned more than one row.
SomebodyElse(o) == \E x, y \in Holders(o) : x # y

\* Mutant: the last holder may go too.
BeginDeactivateLast(w, a, u) ==
  /\ Registered(a) /\ Registered(u)
  /\ MayDeactivate(a, u)
  /\ OfficeOf(u) \in SingleOffices => Holders(OfficeOf(u)) # {}
  /\ Start(w, On("deactivate", u))
  /\ raced' = IF OfficeOf(u) \in SingleOffices /\ Contended(w, OfficeOf(u))
                THEN raced \union {OfficeOf(u)} ELSE raced
  /\ UNCHANGED <<staff, wrong>>

\* The role and the department of a row never change, so the SELECTs of the
\* target, of the actor and of the holders are one step.
BeginDeactivate(w, a, u) ==
  /\ Registered(a) /\ Registered(u)
  /\ MayDeactivate(a, u)
  /\ OfficeOf(u) \in SingleOffices => SomebodyElse(OfficeOf(u))
  /\ Start(w, On("deactivate", u))
  /\ raced' = IF OfficeOf(u) \in SingleOffices /\ Contended(w, OfficeOf(u))
                THEN raced \union {OfficeOf(u)} ELSE raced
  /\ UNCHANGED <<staff, wrong>>

WriteDeactivate(w) ==
  /\ At(w, "deactivate", "write")
  /\ staff' = [staff EXCEPT ![call[w].u].active = FALSE]
  /\ Return(w)
  /\ UNCHANGED <<wrong, raced, begun>>

\* A Principal may be reactivated while another one is active.
BeginReactivate(w, a, u) ==
  LET o == OfficeOf(u) IN
  /\ Registered(a) /\ Registered(u)
  /\ OwnCoordinator(a, u) \/ SessionRole(a) = "Principal"
  /\ o \in SingleOffices \ {"Principal"} => Holders(o) = {}
  /\ Start(w, On("reactivate", u))
  /\ raced' = IF o \in SingleOffices /\ Contended(w, o) THEN raced \union {o} ELSE raced
  /\ UNCHANGED <<staff, wrong>>

-----------------------------------------------------------------------------
(* The counter of wrong passwords.                                         *)

\* A wrong password was read against u and its UPDATE is still to come.
Counting(u) == \E w \in Calls : At(w, "login", "fail") /\ call[w].u = u

\* attempts is zeroed: the ghosts follow.
Forgive(u, unlocked) ==
  /\ wrong' = [wrong EXCEPT ![u] = 0]
  /\ raced' = IF Counting(u) \/ ~unlocked THEN raced \union {u} ELSE raced \ {u}

\* Mutant: the counter survives.
WriteReactivateKeepsCount(w) ==
  LET u == call[w].u IN
  /\ At(w, "reactivate", "write")
  /\ IndexesAdmit(u, staff[u].role, staff[u].dept, staff[u].name)
  /\ staff' = [staff EXCEPT ![u].active = TRUE, ![u].locked = FALSE]
  /\ Forgive(u, TRUE)
  /\ Return(w)
  /\ UNCHANGED begun

WriteReactivate(w) ==
  LET u == call[w].u IN
  /\ At(w, "reactivate", "write")
  /\ IndexesAdmit(u, staff[u].role, staff[u].dept, staff[u].name)
  /\ staff' = [staff EXCEPT ![u].active = TRUE, ![u].locked = FALSE, ![u].attempts = 0]
  /\ Forgive(u, TRUE)
  /\ Return(w)
  /\ UNCHANGED begun

ReactivateRejected(w) ==
  LET u == call[w].u IN
  /\ At(w, "reactivate", "write")
  /\ ~IndexesAdmit(u, staff[u].role, staff[u].dept, staff[u].name)
  /\ Return(w)
  /\ UNCHANGED <<staff, wrong, raced, begun>>

\* The row is found by username, and an account that lost its own is not.
CanTry(u) == staff[u].active /\ ~staff[u].locked /\ staff[u].name \in Names

BeginWrongLogin(w, u) ==
  /\ CanTry(u)
  /\ Start(w, [Idle EXCEPT !.op = "login", !.step = "fail", !.u = u,
                           !.n = staff[u].attempts + 1])
  /\ wrong' = [wrong EXCEPT ![u] = @ + 1]
  /\ UNCHANGED <<staff, raced>>

WriteFail(w) ==
  LET k == call[w] IN
  /\ At(w, "login", "fail")
  /\ staff' = [staff EXCEPT ![k.u].attempts = k.n,
                            ![k.u].locked = @ \/ k.n >= MaxFailed]
  /\ Return(w)
  /\ UNCHANGED <<wrong, raced, begun>>

\* With nothing to zero, a right password writes nothing.
BeginRightLogin(w, u) ==
  /\ CanTry(u)
  /\ staff[u].attempts > 0
  /\ Start(w, [Idle EXCEPT !.op = "login", !.step = "clear", !.u = u])
  /\ UNCHANGED <<staff, wrong, raced>>

\* An account locked meanwhile stays locked.
WriteClear(w) ==
  LET u == call[w].u IN
  /\ At(w, "login", "clear")
  /\ staff' = [staff EXCEPT ![u].attempts = 0]
  /\ Forgive(u, ~staff[u].locked)
  /\ Return(w)
  /\ UNCHANGED begun

\* The resets a HOD and a Principal may make.  Those of the Library Incharge
\* and of the General HOD look at the Principal only, not at the target, and
\* admin_reset_staff_password does not ask whether that one is still active.
\* Roles never change and heads stay active, so check and write are one step.
MayReset(a, u) ==
  \/ OwnCoordinator(a, u)
  \/ staff[a].role = "Principal"

ResetPassword(a, u) ==
  /\ begun < MaxCalls
  /\ begun' = begun + 1
  /\ Registered(a) /\ Registered(u)
  /\ MayReset(a, u)
  /\ staff' = [staff EXCEPT ![u].locked = FALSE, ![u].attempts = 0]
  /\ Forgive(u, TRUE)
  /\ UNCHANGED call

\* A write raises, or the thread dies: what is written stays written.
Fail(w) ==
  /\ call[w] # Idle
  /\ Return(w)
  /\ UNCHANGED <<staff, wrong, raced, begun>>

-----------------------------------------------------------------------------
Begins(w) ==
  \/ \E post \in Posts, name \in Names :
       \/ BeginRegister(w, post[1], post[2], name)
       \/ BeginRegisterBlind(w, post[1], post[2], name)
  \/ \E a, u \in Accounts : BeginDeactivate(w, a, u) \/ BeginReactivate(w, a, u)
  \/ \E u \in Accounts : BeginWrongLogin(w, u) \/ BeginRightLogin(w, u)

Continue(w) ==
  \/ NameTaken(w) \/ NameFree(w) \/ NamesUnsettled(w)
  \/ \E u \in Accounts : Rename(w, u) \/ Insert(w, u) \/ InsertRejected(w, u)
  \/ WriteDeactivate(w)
  \/ WriteReactivate(w) \/ ReactivateRejected(w)
  \/ WriteFail(w) \/ WriteClear(w)
  \/ Fail(w)

Next ==
  \/ \E w \in Calls : Begins(w) \/ Continue(w)
  \/ \E a, u \in Accounts : ResetPassword(a, u)

Spec == Init /\ [][Next]_vars

-----------------------------------------------------------------------------
\* Two accounts hold one office at once only where two calls decided on that
\* office at once or a registration could not look, and never as heads of a
\* department.  (register_staff, reactivate_staff_account, the unique index)
OfficeHeldOnce ==
  \A u, v \in Accounts :
    u # v /\ Holds(u) /\ Holds(v) /\ OfficeOf(u) = OfficeOf(v)
      => OfficeOf(u) \in raced \ Departments

\* What is asked of a new holder (nobody else active) and what is asked of a
\* leaving one (somebody else active) exclude each other: the holder of an
\* office is never deactivated, by anybody, unless the office was raced for, and
\* a head of department not even then.
\* (deactivate_staff_account against register_staff)
HolderStays ==
  [][\A u \in Accounts :
       Holds(u) => staff'[u].active \/ OfficeOf(u) \in raced \ Departments]_vars

\* No two rows have one username, although a retired account's may be taken
\* over and the account come back, unless two registrations chose it at once or
\* the old rows could not be renamed: what is typed at login leads to one row.
\* (register_staff, reactivate_staff_account, login_staff)
NameUnambiguous ==
  \A u, v \in Accounts :
    u # v /\ Registered(u) /\ Registered(v) /\ staff[u].name = staff[v].name
      => staff[u].name \in raced

\* An account is locked by MaxFailed wrong passwords typed since its counter was
\* last zeroed, whatever the interleaving of logins, resets and reactivations,
\* unless that zeroing met an attempt whose count was still to be written.
\* (login_staff, the resets, reactivate_staff_account)
LockEarned ==
  \A u \in Accounts :
    staff[u].locked /\ u \notin raced => wrong[u] >= MaxFailed

\* "Enforce single active Principal constraint" (register_staff).
SinglePrincipal ==
  \A u, v \in Holders("Principal") : u = v

-----------------------------------------------------------------------------
(* The inductive part of the invariants above.                             *)

\* Nobody leaves an office that was not raced for.
RowInv ==
  \A u \in Accounts :
    /\ staff[u].active => Registered(u)
    /\ Registered(u) => <<staff[u].role, staff[u].dept>> \in Posts
    /\ Registered(u) => staff[u].name \in Names \union {u}
    /\ Registered(u) /\ ~staff[u].active /\ OfficeOf(u) \in SingleOffices
         => OfficeOf(u) \in raced \ Departments

CallOffice(w) == Office(call[w].role, call[w].dept)

CallInv ==
  \A w \in Calls :
    LET k == call[w] IN
    /\ k.op = "register" => <<k.role, k.dept>> \in Posts /\ k.name \in Names
    /\ k.op = "login" => k.u \in Accounts
    /\ k.op \in {"deactivate", "reactivate"} =>
         /\ k.u \in Accounts
         /\ Registered(k.u)
         /\ k.role = staff[k.u].role
         /\ k.dept = staff[k.u].dept
    /\ k.op = "deactivate" /\ CallOffice(w) \in SingleOffices
         => CallOffice(w) \in raced \ Departments
    /\ k.step \in {"rename", "insert"} => k.op = "register"

\* A registration that has found the office free is alone with it.
FoundFree ==
  \A w \in Calls :
    call[w].op = "register" /\ CallOffice(w) \in SingleOffices \ raced =>
      /\ \A u \in Accounts : Holds(u) => OfficeOf(u) # CallOffice(w)
      /\ \A v \in Calls \ {w} : call[v].op = "register" => CallOffice(v) # CallOffice(w)

\* A registration past the question for the username is alone with it: only
\* the accounts it is about to rename have it.
FoundUntaken ==
  \A w \in Calls :
    LET k == call[w] IN
    k.step \in {"rename", "insert"} /\ k.name \notin raced =>
      /\ \A u \in Named(k.name) : k.step = "rename" /\ u \in k.stale
      /\ \A v \in Calls \ {w} : call[v].step \in {"rename", "insert"} => call[v].name # k.name

\* No count, stored or about to be, exceeds the wrong passwords typed.
CountInv ==
  /\ \A u \in Accounts \ raced : staff[u].attempts <= wrong[u]
  /\ \A w \in Calls : At(w, "login", "fail") /\ call[w].u \notin raced =>
       call[w].n <= wrong[call[w].u]

AccountsInv == RowInv /\ CallInv /\ FoundFree /\ FoundUntaken /\ CountInv
=============================================================================
