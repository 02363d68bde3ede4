------------------------------ MODULE MCPortals ------------------------------
(* One thread of handlers beside the event loop, in each of the portals.   *)
EXTENDS Portals, TLC

\* Picks; turns; turns and a pick while the tab may be drawn anew; and a turn
\* beside a pick.
MCShares ==
  {[turns |-> 0, picks |-> MaxPicks, form |-> NoForm],
   [turns |-> MaxTurns, picks |-> 0, form |-> NoForm],
   [turns |-> MaxTurns, picks |-> MaxPicks - 1, form |-> "ApplyStatus"],
   [turns |-> MaxTurns - 1, picks |-> MaxPicks - 1, form |-> NoForm]}

Symmetry == Permutations(Readers) \cup Permutations(Names)
=============================================================================
