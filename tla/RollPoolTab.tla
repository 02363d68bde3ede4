----------------------------- MODULE RollPoolTab -----------------------------
(***************************************************************************)
(* The coordinator's roll-number pool (ui/views/staff_view.py,             *)
(* services/roll_number_service.py, services/cache_service.py).            *)
(*                                                                         *)
(* The tab shows the pool of the department.  It is read by threads, which *)
(* store it in the cache of the process and then fill the table; a thread  *)
(* of a tab that was drawn anew meanwhile fills a table nobody sees.  The  *)
(* pool is a version: how many changes it has seen.                        *)
(***************************************************************************)
EXTENDS Naturals, Sequences

CONSTANTS
  Readers,   \* threads of trigger_load that can run at once
  NoEntry,   \* no entry in the cache
  MaxRolls,  \* bound: changes of the pool, and one
  MaxTurns   \* bound: clicks on the tab and expiries in a behaviour

ASSUME PoolAssumption == MaxRolls \in Nat \ {0} /\ MaxTurns \in Nat

VARIABLES
  rolls,         \* roll_number_pool of the department
  entry,         \* _roll_pool_cache: a version (0: an empty list) and whether it is fresh
  recordsFresh,  \* _student_records_cache has a fresh entry
  table,         \* pool_holder, as the table shows it
  poolError,     \* error_box is visible
  reader,        \* the threads
  added,         \* ghost: the version of the coordinator's last addition
  mishaps,       \* ghost: what has happened that a table may not recover from
  turns

poolVars == <<rolls, entry, recordsFresh, table, poolError, reader, added, mishaps, turns>>

Lists == 0..MaxRolls
Entries == {NoEntry} \cup [v : Lists, fresh : BOOLEAN]

NotReading == [step |-> "idle", force |-> FALSE, rows |-> 0, current |-> FALSE]

Fresh == entry # NoEntry /\ entry.fresh
Reading == \E r \in Readers : reader[r].step # "idle"

\* The turns that are spent already.
PoolInit(spent) ==
  /\ rolls = 1
  /\ entry \in {[v |-> 1, fresh |-> TRUE]}
             \cup IF spent = MaxTurns THEN {} ELSE {NoEntry}
  /\ recordsFresh = (entry # NoEntry)
  /\ table = 0 /\ poolError = FALSE
  /\ reader = [r \in Readers |-> NotReading]
  /\ added = 0 /\ mishaps = {}
  /\ turns = spent

Turn == turns < MaxTurns /\ turns' = turns + 1

----------------------------------------------------------------------------
\* trigger_load of the table on the screen (here) or of an older one: two fresh
\* entries fill the table at once, otherwise a thread reads.  threads are the
\* threads and before is the table it finds.
Trigger(force, here, threads, before) ==
  /\ poolError' = (poolError /\ ~here)
  /\ IF ~force /\ Fresh /\ recordsFresh
     THEN table' = entry.v /\ reader' = threads /\ mishaps' = mishaps
     ELSE /\ table' = before
          /\ mishaps' = mishaps \cup (IF Reading THEN {"crowded"} ELSE {})
                                \cup (IF here THEN {} ELSE {"old"})
          /\ \E r \in Readers :
               /\ threads[r].step = "idle"
               /\ reader' = [threads EXCEPT ![r] =
                    [NotReading EXCEPT !.step = "read", !.force = force, !.current = here]]

\* get_department_pool: the cache, or the table and then the cache.  A failed
\* read answers with the entry that is there, expired or not, or with no rows.
ReadPool(r) ==
  /\ reader[r].step = "read"
  /\ LET read(step, rows) ==
           reader' = [reader EXCEPT ![r].step = step, ![r].rows = rows]
     IN IF ~reader[r].force /\ Fresh
        THEN read("keep", entry.v) /\ mishaps' = mishaps
        ELSE \/ read("set", rolls) /\ mishaps' = mishaps
             \/ /\ read("keep", IF entry = NoEntry THEN 0 ELSE entry.v)
                /\ mishaps' = mishaps \cup {"failed"}
  /\ UNCHANGED <<rolls, entry, recordsFresh, table, poolError, added, turns>>

SetPool(r) ==
  /\ reader[r].step = "set"
  /\ entry' = [v |-> reader[r].rows, fresh |-> TRUE]
  /\ reader' = [reader EXCEPT ![r].step = "keep"]
  /\ UNCHANGED <<rolls, recordsFresh, table, poolError, added, mishaps, turns>>

\* _bg_fetch stores what it was given once more and fills its table; without
\* the students it shows the error instead.
Keep(r, students) ==
  /\ reader[r].step = "keep"
  /\ reader' = [reader EXCEPT ![r] = NotReading]
  /\ IF students
     THEN /\ entry' = [v |-> reader[r].rows, fresh |-> TRUE]
          /\ recordsFresh' = TRUE
          /\ table' = IF reader[r].current THEN reader[r].rows ELSE table
     ELSE UNCHANGED <<entry, recordsFresh, table>>
  /\ poolError' = IF reader[r].current THEN ~students ELSE poolError
  /\ UNCHANGED <<rolls, added, mishaps, turns>>

\* A change of the pool by this coordinator: it drops the entries and loads.
Grow(here) ==
  /\ rolls < MaxRolls
  /\ rolls' = rolls + 1
  /\ added' = rolls'
  /\ entry' = NoEntry /\ recordsFresh' = FALSE
  /\ Trigger(TRUE, here, reader, table)

Reload(here) ==
  /\ Trigger(TRUE, here, reader, table)
  /\ UNCHANGED <<rolls, entry, recordsFresh, added>>

\* Mutant: nothing is loaded.
AddSingleUnloaded ==
  /\ Turn
  /\ rolls < MaxRolls
  /\ rolls' = rolls + 1
  /\ added' = rolls'
  /\ entry' = NoEntry /\ recordsFresh' = FALSE
  /\ UNCHANGED <<table, poolError, reader, mishaps>>

\* add_single: a refusal changes nothing and loads nothing.
AddSingle == Turn /\ Grow(TRUE)

\* The button "Refresh" and, after an error, "Retry".
RefreshPool == Turn /\ Reload(TRUE)

\* The end of an import: its rows are in the pool unless it was refused, and
\* the table its chooser belongs to is loaded in either case.
ImportEnds(here) ==
  /\ turns' = turns
  /\ Grow(here) \/ Reload(here)

\* A student registers, by whom the cache is not told.
OthersChange ==
  /\ Turn
  /\ rolls < MaxRolls
  /\ rolls' = rolls + 1
  /\ UNCHANGED <<entry, recordsFresh, table, poolError, reader, added, mishaps>>

\* The 120 seconds of an entry are over.
Expire ==
  /\ Turn
  /\ \/ Fresh /\ entry' = [entry EXCEPT !.fresh = FALSE] /\ UNCHANGED recordsFresh
     \/ recordsFresh /\ recordsFresh' = FALSE /\ UNCHANGED entry
  /\ UNCHANGED <<rolls, table, poolError, reader, added, mishaps>>

\* The tab is drawn: a new table, filled from the cache or by a thread.
PoolDrawn ==
  /\ Trigger(FALSE, TRUE, [r \in Readers |-> [reader[r] EXCEPT !.current = FALSE]],
             IF Fresh THEN entry.v ELSE 0)
  /\ UNCHANGED <<rolls, entry, recordsFresh, added, turns>>

PoolClicks == AddSingle \/ RefreshPool

PoolBackground ==
  \/ \E r \in Readers : ReadPool(r) \/ SetPool(r) \/ \E students \in BOOLEAN : Keep(r, students)
  \/ OthersChange
  \/ Expire

----------------------------------------------------------------------------
PoolTypeOK ==
  /\ rolls \in 1..MaxRolls /\ entry \in Entries /\ recordsFresh \in BOOLEAN
  /\ table \in Lists /\ added \in Lists
  /\ \A r \in Readers : reader[r].step \in {"idle", "read", "set", "keep"}
                        /\ reader[r].rows <= rolls
  /\ mishaps \subseteq {"crowded", "failed", "old"}
  /\ turns \in 0..MaxTurns

\* What the coordinator has added is in the table once the loads are over: the
\* load that follows an addition reads after it, and fills the table of the tab
\* that is on the screen.  Excepted are the loads that run beside another, of
\* which the older may end last; the failed read that is kept as the list; and
\* an import from a dialog older than the tab, which fills the older table.
PoolShowsOwnAdds ==
  ~Reading /\ ~poolError /\ mishaps = {} => table >= added
=============================================================================
