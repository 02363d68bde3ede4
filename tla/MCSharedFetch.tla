--------------------------- MODULE MCSharedFetch ---------------------------
(* A student with two loading threads; a member of staff with a list, a     *)
(* dashboard and its worker; a third session.  The threads that can meet    *)
(* are looked at together.                                                  *)
EXTENDS SharedFetch, TLC

CONSTANTS mine, board, list, m1, m2, b, l1, l2, student, staff, other, worker, metricsKey,
          codeKey, complaints, codes

MCTableOf == (metricsKey :> complaints) @@ (codeKey :> codes)
MCViewOf == (m1 :> mine) @@ (m2 :> mine) @@ (b :> board) @@ (l1 :> list) @@ (l2 :> list)
MCReads == (student :> {}) @@ (staff :> {metricsKey, codeKey}) @@ (other :> {codeKey})
             @@ (worker :> {})
MCRefreshes == (student :> {mine}) @@ (staff :> {board, list}) @@ (other :> {})
                 @@ (worker :> {})
MCCrews == {{m1, m2, student, other}, {l1, l2, staff}, {b, worker, staff},
            {staff, other}}
=============================================================================
