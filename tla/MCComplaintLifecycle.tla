------------------------ MODULE MCComplaintLifecycle ------------------------
(* One complaint and two students; a Principal and a coordinator who have   *)
(* the complaint in scope, and between them every staff operation, each     *)
(* refused something by role; a head of another department.                 *)
EXTENDS ComplaintLifecycle, TLC

CONSTANTS c1, s1, s2, principal, coordinator, outsider

MCRoleOf  == (principal :> "Principal") @@ (coordinator :> "Coordinator")
             @@ (outsider :> "HOD")
MCInScope == (principal :> {c1}) @@ (coordinator :> {c1}) @@ (outsider :> {})

\* There is one complaint and the students are alike: s1 is the one who files
\* it.  Symmetry would say as much, but not for a liveness property.
FiledByFirst ==
  /\ row[c1].filer # s2
  /\ \A w \in Calls : call[w].op = "submit" => call[w].by = s1

MCInit == Init /\ FiledByFirst

MCSpec ==
  /\ MCInit
  /\ [][Next /\ FiledByFirst']_vars
  /\ \A w \in Calls : WF_vars(Continue(w))

\* The two students are interchangeable, and so are the calls.
Symmetry == Permutations(Students) \union Permutations(Calls)
=============================================================================
