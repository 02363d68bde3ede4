----------------------------- MODULE MCStudents -----------------------------
(* Two roll numbers, the second of a first-year student; the first is new,  *)
(* in the pool, or a student's whose hostel request is pending or denied.   *)
EXTENDS StudentFeedback, TLC

CONSTANTS r1, r2, d1, d2

Seed(dept, row, reqs) ==
  [pool |-> (r1 :> dept) @@ (r2 :> NoDept),
   registered |-> IF row = NoRow THEN {} ELSE {r1},
   student |-> (r1 :> row) @@ (r2 :> NoRow),
   requests |-> (r1 :> reqs) @@ (r2 :> <<>>)]

Resident == [NoRow EXCEPT !.dept = d1, !.isHostel = TRUE]

MCSeeds ==
  {Seed(NoDept, NoRow, <<>>), Seed(d1, NoRow, <<>>), Seed(d1, Resident, <<"Pending">>),
   Seed(d1, Resident, <<"Denied">>)}

Symmetry == Permutations(Calls)
=============================================================================
