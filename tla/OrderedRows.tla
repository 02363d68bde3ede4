---------------------------- MODULE OrderedRows ----------------------------
(***************************************************************************)
(* What a view promises of the list it keeps: it may be forgotten, and it  *)
(* is replaced by what the table held at some moment since the list was    *)
(* last replaced.  So a list never goes back to an older one, whatever     *)
(* loads were asked for in between and whoever answered them.              *)
(***************************************************************************)
EXTENDS Naturals

CONSTANT NoRows

VARIABLES
  table,  \* how often the table was written
  rows,   \* the version the view keeps
  newest  \* the last one it kept

orderedVars == <<table, rows, newest>>

OrderedInit == table = 0 /\ rows = NoRows /\ newest = 0

TableWritten == table' = table + 1 /\ UNCHANGED <<rows, newest>>

Forget == rows' = NoRows /\ UNCHANGED <<table, newest>>

Replace(v) == rows' = v /\ newest' = v /\ UNCHANGED table

OrderedNext == TableWritten \/ Forget \/ \E v \in newest..table : Replace(v)

OrderedSpec == OrderedInit /\ [][OrderedNext]_orderedVars
=============================================================================
