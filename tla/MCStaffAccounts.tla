-------------------------- MODULE MCStaffAccounts --------------------------
(* d is an academic department, lib the library.                           *)
EXTENDS StaffAccounts, TLC

CONSTANTS u1, u2, u3, n1, n2, d, lib

Absent == [role |-> "none", dept |-> NoDept, name |-> NoName, active |-> FALSE,
           locked |-> FALSE, attempts |-> 0]

Holding(role, dept, name, active) ==
  [Absent EXCEPT !.role = role, !.dept = dept, !.name = name, !.active = active]

Empty == [u \in Accounts |-> Absent]

\* A coordinator who retired and whose username was then asked for: every
\* office is to be filled and both usernames are free.
Founded == (u1 :> Holding("Coordinator", d, u1, FALSE)) @@ Empty

\* A head of department and a coordinator who may have retired.
Department(v, active) == (u1 :> Holding("HOD", d, n1, TRUE))
                         @@ (v :> Holding("Coordinator", d, n2, active)) @@ Empty

MCSeeds == {Founded} \union {Department(v, active) : v \in {u2, u3}, active \in BOOLEAN}

Symmetry == {p @@ q : p \in Permutations(Calls), q \in Permutations({u2, u3})}
=============================================================================
