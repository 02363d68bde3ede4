--------------------------- MODULE MCIssueGroups ---------------------------
(* Complaints c1 to c6 of one category and subcategory, and o of another   *)
(* of the same department; custom is of a custom category.                 *)
EXTENDS IssueGroups, TLC

CONSTANTS c1, c2, c3, c4, c5, c6, o, custom, water, light

MCBucket == [c \in {c1, c2, c3, c4, c5, c6} |-> water] @@ (o :> light)
            @@ (custom :> NoBucket)

\* The other category of the department; a custom one is not asked for again.
MCRecategory == [c \in {c1, c2, c3, c4, c5, c6, o} |-> {water, light}] @@ (custom :> {})

Unseeded == {{}}
Pair     == {{c1, c2}}
Triple   == {{c1, c2, c3}}
Either   == Unseeded \union Triple

Symmetry == Permutations(Calls)

\* The members of a seed are alike, and so are those of none.
SymmetryEither == Symmetry \union Permutations({c1, c2, c3}) \union Permutations({c4, c5, c6})

\* Unseeded, the complaints of one bucket and the groups are alike too.
SymmetryUnseeded == Symmetry \union Permutations({c1, c2, c3, c4}) \union Permutations(Groups)
=============================================================================
